--------------------------- MODULE AgreementProofs ---------------------------
(***************************************************************************)
(* What holds of the chain tracker and of the agreement scores for every   *)
(* set of validators and validations, any number of hours and of           *)
(* validations in flight.  First the tracker alone; then that the          *)
(* agreement runs it as it expects, and what the scores owe to that.       *)
(***************************************************************************)
EXTENDS Agreement, WellFoundedInduction, FiniteSetTheorems, TLAPS

-----------------------------------------------------------------------------
(* The chain tracker: theorems of Chains. *)

(* A nonempty set of naturals has a least element.                         *)
LEMMA LeastNatural ==
    ASSUME NEW S \in SUBSET Nat, S # {}
    PROVE  \E m \in S : \A n \in S : m <= n
<1>. DEFINE Less == {p \in Nat \X Nat : p[1] < p[2]}
<1>1. IsWellFoundedOn(Less, Nat)
    BY NatLessThanWellFounded DEF OpToRel
<1>2. PICK m \in S : \A n \in S : ~(<<n, m>> \in Less)
    BY <1>1, WFMin, Zenon
<1>3. ASSUME NEW n \in S PROVE m <= n
  <2>1. m \in Nat /\ n \in Nat
      OBVIOUS
  <2>2. n < m => <<n, m>> \in Less
      BY <2>1
  <2>3. ~(n < m)
      BY <1>2, <2>2, <1>3, Zenon
  <2>. QED BY <2>1, <2>3
<1>. QED BY <1>3

-----------------------------------------------------------------------------
(* Type correctness, with a bound on the index a chain has reached: it is  *)
(* what makes the longest chain of a set exist.                            *)

Bounded == \E top \in Nat : \A c \in DOMAIN chains : chains[c].current <= top

ListTyped == TypeOK /\ Bounded

(* firstOf picks a chain of the set.                                       *)
LEMMA FirstIsOne ==
    ASSUME TypeOK, NEW S \in SUBSET DOMAIN chains, S # {}
    PROVE  firstOf(S) \in S
<1>1. S \in SUBSET Nat
    BY DEF TypeOK
<1>. QED BY <1>1, LeastNatural DEF firstOf

(* longestOf picks a chain of the set.                                     *)
LEMMA LongestIsOne ==
    ASSUME ListTyped, NEW S \in SUBSET DOMAIN chains, S # {}
    PROVE  longestOf(S) \in S
<1>1. S \in SUBSET Nat
    BY DEF TypeOK, ListTyped
<1>2. PICK top \in Nat : \A c \in DOMAIN chains : chains[c].current <= top
    BY DEF Bounded, ListTyped
<1>3. \A c \in S : length(c) \in Int /\ top - length(c) \in Nat
    BY <1>2 DEF ListTyped, TypeOK, Chain, length
<1>. DEFINE Room == {top - length(c) : c \in S}
<1>4. PICK m \in Room : \A n \in Room : m <= n
  <2>1. Room \in SUBSET Nat /\ Room # {}
      BY <1>3
  <2>. QED BY <2>1, LeastNatural
<1>. DEFINE Longest == {c \in S : top - length(c) = m}
<1>5. PICK c \in Longest : \A d \in Longest : c <= d
  <2>1. Longest \in SUBSET Nat /\ Longest # {}
      BY <1>1, <1>4
  <2>. HIDE DEF Longest
  <2>. QED BY <2>1, LeastNatural
<1>6. ASSUME NEW d \in S
      PROVE  length(c) > length(d) \/ (length(c) = length(d) /\ c <= d)
  <2>1. m <= top - length(d) /\ top - length(c) = m
      BY <1>4, <1>5
  <2>2. CASE top - length(d) = m
      BY <2>1, <2>2, <1>3, <1>5
  <2>3. CASE top - length(d) # m
      BY <2>1, <2>3, <1>3, <1>5
  <2>. QED BY <2>2, <2>3
<1>. QED BY <1>5, <1>6 DEF longestOf

(* A ledger laid on a chain leaves a chain, one index or more further on.  *)
LEMMA LaidChain ==
    ASSUME TypeOK, NEW h \in DOMAIN list, NEW c \in DOMAIN chains
    PROVE  /\ addLedgerToChain(h, chains[c]) \in Chain
           /\ addLedgerToChain(h, MarkedIncomplete(chains[c])) \in Chain
<1>1. /\ chains[c] \in Chain
      /\ list[h] \in LedgerEntry
      /\ h \in Ledger
      /\ IndexOf[h] \in Nat
    BY ChainsAssumption DEF TypeOK
<1>. QED BY <1>1 DEF Chain, LedgerEntry, addLedgerToChain, MarkedIncomplete

LEMMA TakenTyped ==
    ASSUME TypeOK, NEW h \in DOMAIN list, Taken(h)
    PROVE  /\ DOMAIN list' \subseteq Ledger
           /\ list' \in [DOMAIN list' -> LedgerEntry]
BY DEF TypeOK, Taken

LEMMA InitTyped == Init => ListTyped
<1>. SUFFICES ASSUME Init PROVE ListTyped
    OBVIOUS
<1>1. TypeOK
    BY DEF Init, TypeOK
<1>2. Bounded
    BY DEF Init, Bounded
<1>. QED BY <1>1, <1>2 DEF ListTyped

LEMMA UpdateLedgersTyped ==
    ASSUME ListTyped, NEW v \in Validator, NEW h \in Ledger, UpdateLedgers(v, h)
    PROVE  ListTyped'
<1>. USE DEF ListTyped
<1>1. ledgersByHash' \in [DOMAIN ledgersByHash \cup {h} -> LedgerEntry]
  <2>1. \A g \in DOMAIN ledgersByHash : ledgersByHash[g] \in LedgerEntry
      BY DEF TypeOK
  <2>2. [validations |-> {v}, first_seen |-> hour] \in LedgerEntry
      BY DEF TypeOK, LedgerEntry
  <2>3. h \in DOMAIN ledgersByHash
           => [ledgersByHash[h] EXCEPT !.validations = @ \cup {v}] \in LedgerEntry
      BY <2>1 DEF LedgerEntry
  <2>. QED BY <2>1, <2>2, <2>3 DEF UpdateLedgers
<1>2. TypeOK'
  <2>1. DOMAIN ledgersByHash' = DOMAIN ledgersByHash \cup {h}
      BY <1>1
  <2>2. cast' \subseteq Validator \X Ledger
      BY DEF UpdateLedgers, TypeOK
  <2>3. UNCHANGED <<list, chains, index, chainOf, hour, phase, since>>
      BY DEF UpdateLedgers
  <2>. QED BY <1>1, <2>1, <2>2, <2>3 DEF TypeOK
<1>3. Bounded'
    BY DEF UpdateLedgers, Bounded
<1>. QED BY <1>2, <1>3

LEMMA CalculateTyped ==
    ASSUME ListTyped, NEW settled \in SUBSET DOMAIN ledgersByHash,
           CalculateChainsFromLedgers(settled)
    PROVE  ListTyped'
<1>. USE DEF ListTyped
<1>1. TypeOK'
    BY DEF CalculateChainsFromLedgers, TypeOK
<1>2. Bounded'
    BY DEF CalculateChainsFromLedgers, Bounded
<1>. QED BY <1>1, <1>2

LEMMA ExtendChainTyped ==
    ASSUME ListTyped, NEW h \in Ledger, ExtendChain(h)
    PROVE  ListTyped'
<1>. USE DEF ListTyped
<1>. DEFINE c == longestOf(AtNextIndex(h))
<1>1. h \in DOMAIN list /\ c \in DOMAIN chains /\ IndexOf[h] \in Nat
    BY LongestIsOne, ChainsAssumption DEF ExtendChain, IsNext, AtNextIndex, Overlapping
<1>2. chains' = [chains EXCEPT ![c] = addLedgerToChain(h, chains[c])]
    BY DEF ExtendChain
<1>3. addLedgerToChain(h, chains[c]) \in Chain
    BY <1>1, LaidChain
<1>. HIDE DEF c
<1>4. TypeOK'
    BY <1>1, <1>2, <1>3, TakenTyped DEF ExtendChain, TypeOK
<1>5. Bounded'
  <2>1. PICK top \in Nat : \A d \in DOMAIN chains : chains[d].current <= top
      BY DEF Bounded
  <2>2. addLedgerToChain(h, chains[c]).current = IndexOf[h]
      BY <1>1 DEF addLedgerToChain, TypeOK, Chain
  <2>3. \A d \in DOMAIN chains' : chains'[d].current <= top + IndexOf[h]
      BY <1>1, <1>2, <2>1, <2>2 DEF TypeOK, Chain
  <2>. QED BY <1>1, <2>1, <2>3 DEF Bounded
<1>. QED BY <1>4, <1>5

LEMMA JumpChainTyped ==
    ASSUME ListTyped, NEW h \in Ledger, JumpChain(h)
    PROVE  ListTyped'
<1>. USE DEF ListTyped
<1>. DEFINE c == firstOf(Overlapping(h))
            laid == addLedgerToChain(h, MarkedIncomplete(chains[c]))
<1>1. h \in DOMAIN list /\ c \in DOMAIN chains /\ IndexOf[h] \in Nat
    BY FirstIsOne, ChainsAssumption DEF JumpChain, IsNext, Overlapping
<1>2. chains' = [chains EXCEPT ![c] = laid]
    BY DEF JumpChain
<1>3. laid \in Chain
    BY <1>1, LaidChain
<1>4. laid.current = IndexOf[h]
    BY <1>1 DEF addLedgerToChain, MarkedIncomplete, TypeOK, Chain
<1>. HIDE DEF c, laid
<1>5. TypeOK'
    BY <1>1, <1>2, <1>3, TakenTyped DEF JumpChain, TypeOK
<1>6. Bounded'
  <2>1. PICK top \in Nat : \A d \in DOMAIN chains : chains[d].current <= top
      BY DEF Bounded
  <2>2. \A d \in DOMAIN chains' : chains'[d].current <= top + IndexOf[h]
      BY <1>1, <1>2, <1>4, <2>1 DEF TypeOK, Chain
  <2>. QED BY <1>1, <2>1, <2>2 DEF Bounded
<1>. QED BY <1>5, <1>6

LEMMA AddNewChainTyped ==
    ASSUME ListTyped, NEW h \in Ledger, AddNewChain(h)
    PROVE  ListTyped'
<1>. USE DEF ListTyped
<1>. DEFINE new == [first |-> IndexOf[h], current |-> IndexOf[h],
                    validators |-> list[h].validations, updated |-> list[h].first_seen,
                    ledgers |-> {h}, incomplete |-> TRUE]
<1>1. h \in DOMAIN list /\ IndexOf[h] \in Nat /\ list[h] \in LedgerEntry
    BY ChainsAssumption DEF AddNewChain, IsNext, TypeOK
<1>2. new \in Chain
    BY <1>1 DEF Chain, LedgerEntry
<1>3. chains' = [c \in DOMAIN chains \cup {index} |-> IF c # index THEN chains[c] ELSE new]
    BY DEF AddNewChain
<1>4. new.current = IndexOf[h]
    OBVIOUS
<1>. HIDE DEF new
<1>5. TypeOK'
  <2>1. chains' \in [DOMAIN chains \cup {index} -> Chain]
      BY <1>2, <1>3 DEF TypeOK
  <2>2. since' \in [DOMAIN chains \cup {index} -> Nat]
      BY <1>1 DEF AddNewChain, TypeOK
  <2>3. DOMAIN chains' \subseteq 0..(index' - 1) /\ index' \in Nat
      BY <2>1 DEF AddNewChain, TypeOK
  <2>4. UNCHANGED <<ledgersByHash, chainOf, hour, phase, cast>>
      BY DEF AddNewChain
  <2>5. DOMAIN list' \subseteq Ledger /\ list' \in [DOMAIN list' -> LedgerEntry]
      BY <1>1, TakenTyped DEF AddNewChain
  <2>6. phase' = "updating"
      BY DEF AddNewChain, IsNext
  <2>. QED BY <2>1, <2>2, <2>3, <2>4, <2>5, <2>6 DEF TypeOK
<1>6. Bounded'
  <2>1. PICK top \in Nat : \A d \in DOMAIN chains : chains[d].current <= top
      BY DEF Bounded
  <2>2. \A d \in DOMAIN chains' : chains'[d].current <= top + IndexOf[h]
      BY <1>1, <1>3, <1>4, <2>1 DEF TypeOK, Chain
  <2>. QED BY <1>1, <2>1, <2>2 DEF Bounded
<1>. QED BY <1>5, <1>6

LEMMA PassLedgerTyped ==
    ASSUME ListTyped, NEW h \in Ledger, PassLedger(h)
    PROVE  ListTyped'
<1>. USE DEF ListTyped
<1>1. TypeOK'
    BY TakenTyped DEF PassLedger, IsNext, TypeOK
<1>2. Bounded'
    BY DEF PassLedger, Bounded
<1>. QED BY <1>1, <1>2

LEMMA ReturnChainsTyped ==
    ASSUME ListTyped, ReturnChains
    PROVE  ListTyped'
BY DEF ListTyped, ReturnChains, TypeOK, Bounded

(* A chain is saved under a number from 0 to MaxIndex or a network's name. *)
LEMMA SavedIdsTyped ==
    ASSUME TypeOK, NEW c \in DOMAIN chains
    PROVE  SavedIds(c) \subseteq ChainId
<1>1. c \in Nat /\ MaxIndex + 1 \in Nat \ {0}
    BY ChainsAssumption DEF TypeOK
<1>2. c % (MaxIndex + 1) \in 0..MaxIndex
    BY <1>1, ChainsAssumption
<1>. QED BY <1>2 DEF SavedIds, getNextChainID, ChainId

LEMMA PurgeChainsTyped ==
    ASSUME ListTyped, NEW kept \in SUBSET DOMAIN chains, PurgeChains(kept)
    PROVE  ListTyped'
<1>. USE DEF ListTyped
<1>1. \A c \in kept : chains[c] \in Chain /\ Purged(chains[c]) \in Chain
                      /\ Purged(chains[c]).current = chains[c].current
    BY DEF TypeOK, Chain, Purged
<1>2. chainOf' \in [Validator -> ChainId \cup {NoChain}]
  <2>. DEFINE members == UNION {chains[c].validators : c \in kept}
              ids == UNION {SavedIds(c) : c \in kept}
  <2>1. PICK id \in [kept -> ids], last \in [members -> kept] :
          chainOf' = [v \in Validator |-> IF v \in members THEN id[last[v]] ELSE chainOf[v]]
      BY DEF PurgeChains, SaveValidatorChains
  <2>2. ids \subseteq ChainId
      BY SavedIdsTyped
  <2>3. \A v \in members : id[last[v]] \in ids
      OBVIOUS
  <2>. HIDE DEF members, ids
  <2>. QED BY <2>1, <2>2, <2>3 DEF TypeOK
<1>3. TypeOK'
    BY <1>1, <1>2 DEF PurgeChains, TypeOK, Chain
<1>4. Bounded'
    BY <1>1 DEF PurgeChains, Bounded
<1>. QED BY <1>3, <1>4

LEMMA NextTyped == ListTyped /\ [Next]_chainVars => ListTyped'
<1>. SUFFICES ASSUME ListTyped, [Next]_chainVars PROVE ListTyped'
    OBVIOUS
<1>1. ASSUME NEW v \in Validator, NEW h \in Ledger, HandOver(v, h) PROVE ListTyped'
    BY <1>1, UpdateLedgersTyped DEF HandOver
<1>2. ASSUME NEW settled \in SUBSET DOMAIN ledgersByHash, CalculateChainsFromLedgers(settled)
      PROVE  ListTyped'
    BY <1>2, CalculateTyped
<1>3. ASSUME NEW h \in Ledger, UpdateChains(h) PROVE ListTyped'
    BY <1>3, ExtendChainTyped, PassLedgerTyped, JumpChainTyped, AddNewChainTyped DEF UpdateChains
<1>4. CASE ReturnChains
    BY <1>4, ReturnChainsTyped
<1>5. ASSUME NEW kept \in SUBSET DOMAIN chains, PurgeChains(kept) PROVE ListTyped'
    BY <1>5, PurgeChainsTyped
<1>6. CASE EndOfRun \/ UNCHANGED chainVars
    BY <1>6 DEF EndOfRun, chainVars, ListTyped, TypeOK, Bounded
<1>. QED BY <1>1, <1>2, <1>3, <1>4, <1>5, <1>6 DEF Next

(* Every variable of the chain tracker keeps its type.                     *)
THEOREM TypeCorrect == Spec => []TypeOK
<1>1. Spec => []ListTyped
    BY InitTyped, NextTyped, PTL DEF Spec
<1>2. ListTyped => TypeOK
    BY DEF ListTyped
<1>. QED BY <1>1, <1>2, PTL

-----------------------------------------------------------------------------
(* A complete chain has no gap.  Inductive: the next index to count is at  *)
(* most one past the chain's current one.                                  *)

GaplessInv ==
    /\ ListTyped
    /\ CompleteMeansGapless
    /\ \A c \in DOMAIN chains : since[c] <= chains[c].current + 1

(* Laying a ledger of a later index on a chain keeps the chain's indexes   *)
(* distinct; laying the next one keeps them gapless.                       *)
LEMMA LaidGapless ==
    ASSUME GaplessInv, NEW h \in DOMAIN list, NEW c \in DOMAIN chains,
           NEW old \in {chains[c], MarkedIncomplete(chains[c])},
           IndexOf[h] > chains[c].current,
           old.incomplete \/ IndexOf[h] = chains[c].current + 1,
           chains' = [chains EXCEPT ![c] = addLedgerToChain(h, old)],
           since' = since
    PROVE  /\ CompleteMeansGapless'
           /\ \A d \in DOMAIN chains' : since'[d] <= chains'[d].current + 1
<1>. USE DEF ListTyped
<1>. DEFINE laid == addLedgerToChain(h, old)
<1>1. /\ h \in Ledger
      /\ IndexOf[h] \in Nat
      /\ chains[c] \in Chain
      /\ since[c] \in Nat
      /\ \A g \in chains[c].ledgers : g \in Ledger /\ IndexOf[g] \in Nat
    BY ChainsAssumption DEF GaplessInv, TypeOK, Chain
<1>2. /\ laid.current = IndexOf[h]
      /\ laid.ledgers = chains[c].ledgers \cup {h}
      /\ laid.incomplete = old.incomplete
      /\ chains[c].incomplete => old.incomplete
    BY <1>1 DEF addLedgerToChain, MarkedIncomplete, Chain
<1>3. chains'[c] = laid /\ DOMAIN chains' = DOMAIN chains
    BY DEF GaplessInv, TypeOK
<1>4. \A d \in DOMAIN chains : d # c => chains'[d] = chains[d]
    OBVIOUS
<1>. HIDE DEF laid
<1>5. \A g \in chains[c].ledgers : since[c] <= IndexOf[g] /\ IndexOf[g] <= chains[c].current
    BY <1>1 DEF GaplessInv, CompleteMeansGapless, IndexesOf, Chain
<1>6. /\ \A g \in laid.ledgers : IndexOf[g] \in since[c]..laid.current
      /\ \A f, g \in laid.ledgers : IndexOf[f] = IndexOf[g] => f = g
    BY <1>1, <1>2, <1>5 DEF GaplessInv, CompleteMeansGapless, Chain
<1>7. ASSUME ~laid.incomplete, NEW i \in since[c]..laid.current
      PROVE  \E g \in laid.ledgers : IndexOf[g] = i
  <2>1. laid.current = chains[c].current + 1 /\ ~chains[c].incomplete
      BY <1>2, <1>7
  <2>2. CASE i = laid.current
      BY <1>2, <2>2
  <2>3. CASE i # laid.current
    <3>1. i \in since[c]..chains[c].current
        BY <1>1, <2>1, <2>3 DEF Chain
    <3>. QED BY <1>2, <2>1, <3>1 DEF GaplessInv, CompleteMeansGapless, IndexesOf
  <2>. QED BY <2>2, <2>3
<1>8. CompleteMeansGapless'
  <2>. SUFFICES ASSUME NEW d \in DOMAIN chains
       PROVE  /\ {IndexOf[g] : g \in chains'[d].ledgers} \subseteq since[d]..chains'[d].current
              /\ \A f, g \in chains'[d].ledgers : IndexOf[f] = IndexOf[g] => f = g
              /\ ~chains'[d].incomplete
                   => since[d]..chains'[d].current \subseteq {IndexOf[g] : g \in chains'[d].ledgers}
      BY <1>3 DEF CompleteMeansGapless, IndexesOf
  <2>1. CASE d = c
      BY <2>1, <1>3, <1>6, <1>7
  <2>2. CASE d # c
      BY <2>2, <1>4 DEF GaplessInv, CompleteMeansGapless, IndexesOf
  <2>. QED BY <2>1, <2>2
<1>9. \A d \in DOMAIN chains' : since'[d] <= chains'[d].current + 1
    BY <1>1, <1>2, <1>3, <1>4 DEF GaplessInv, Chain
<1>. QED BY <1>8, <1>9

LEMMA NextGapless == GaplessInv /\ [Next]_chainVars => GaplessInv'
<1>. SUFFICES ASSUME GaplessInv, [Next]_chainVars PROVE GaplessInv'
    OBVIOUS
<1>. USE DEF ListTyped
<1>1. ListTyped'
    BY NextTyped DEF GaplessInv
<1>. DEFINE Rest == /\ CompleteMeansGapless
                    /\ \A c \in DOMAIN chains : since[c] <= chains[c].current + 1
<1>2. ASSUME UNCHANGED <<chains, since>> PROVE Rest'
    BY <1>2 DEF GaplessInv, CompleteMeansGapless, IndexesOf
<1>3. ASSUME NEW v \in Validator, NEW h \in Ledger, HandOver(v, h) PROVE Rest'
    BY <1>2, <1>3 DEF HandOver, UpdateLedgers
<1>4. ASSUME NEW settled \in SUBSET DOMAIN ledgersByHash, CalculateChainsFromLedgers(settled)
      PROVE  Rest'
    BY <1>2, <1>4 DEF CalculateChainsFromLedgers
<1>5. ASSUME NEW h \in Ledger, ExtendChain(h) PROVE Rest'
  <2>. DEFINE c == longestOf(AtNextIndex(h))
  <2>1. h \in DOMAIN list /\ c \in AtNextIndex(h)
      BY <1>5, LongestIsOne DEF ExtendChain, IsNext, AtNextIndex, Overlapping, GaplessInv
  <2>2. c \in DOMAIN chains /\ IndexOf[h] = chains[c].current + 1 /\ chains[c] \in Chain
      BY <2>1 DEF AtNextIndex, Overlapping, GaplessInv, TypeOK
  <2>3. chains' = [chains EXCEPT ![c] = addLedgerToChain(h, chains[c])] /\ since' = since
      BY <1>5 DEF ExtendChain
  <2>4. IndexOf[h] > chains[c].current
      BY <2>2 DEF Chain
  <2>. HIDE DEF c
  <2>. QED BY <2>1, <2>2, <2>3, <2>4, LaidGapless
<1>6. ASSUME NEW h \in Ledger, PassLedger(h) PROVE Rest'
    BY <1>2, <1>6 DEF PassLedger
<1>7. ASSUME NEW h \in Ledger, JumpChain(h) PROVE Rest'
  <2>. DEFINE c == firstOf(Overlapping(h))
  <2>1. h \in DOMAIN list /\ c \in DOMAIN chains
      BY <1>7, FirstIsOne DEF JumpChain, IsNext, Overlapping, GaplessInv
  <2>2. chains[c] \in Chain /\ IndexOf[h] \in Nat
      BY <2>1, <1>7, ChainsAssumption DEF GaplessInv, TypeOK
  <2>3. /\ chains' = [chains EXCEPT ![c] = addLedgerToChain(h, MarkedIncomplete(chains[c]))]
        /\ since' = since
        /\ Behind(h, c)
      BY <1>7 DEF JumpChain
  <2>4. IndexOf[h] > chains[c].current
      BY <2>2, <2>3 DEF Behind, Chain
  <2>5. MarkedIncomplete(chains[c]).incomplete
      BY <2>2 DEF MarkedIncomplete, Chain
  <2>. HIDE DEF c
  <2>. QED BY <2>1, <2>3, <2>4, <2>5, LaidGapless
<1>8. ASSUME NEW h \in Ledger, AddNewChain(h) PROVE Rest'
  <2>1. IndexOf[h] \in Nat
      BY ChainsAssumption
  <2>2. index \notin DOMAIN chains
      BY DEF GaplessInv, TypeOK
  <2>3. /\ chains'[index].ledgers = {h}
        /\ chains'[index].current = IndexOf[h]
        /\ chains'[index].incomplete
        /\ since'[index] = IndexOf[h]
        /\ DOMAIN chains' = DOMAIN chains \cup {index}
      BY <1>8 DEF AddNewChain
  <2>4. \A c \in DOMAIN chains : chains'[c] = chains[c] /\ since'[c] = since[c]
      BY <1>8, <2>2 DEF AddNewChain
  <2>5. CompleteMeansGapless'
    <3>. SUFFICES ASSUME NEW d \in DOMAIN chains'
         PROVE  /\ {IndexOf[g] : g \in chains'[d].ledgers} \subseteq since'[d]..chains'[d].current
                /\ \A f, g \in chains'[d].ledgers : IndexOf[f] = IndexOf[g] => f = g
                /\ ~chains'[d].incomplete
                     => since'[d]..chains'[d].current \subseteq {IndexOf[g] : g \in chains'[d].ledgers}
        BY DEF CompleteMeansGapless, IndexesOf
    <3>1. CASE d = index
        BY <3>1, <2>1, <2>3
    <3>2. CASE d # index
        BY <3>2, <2>3, <2>4 DEF GaplessInv, CompleteMeansGapless, IndexesOf
    <3>. QED BY <3>1, <3>2
  <2>6. \A c \in DOMAIN chains' : since'[c] <= chains'[c].current + 1
      BY <2>1, <2>3, <2>4 DEF GaplessInv
  <2>. QED BY <2>5, <2>6
<1>9. ASSUME ReturnChains PROVE Rest'
    BY <1>2, <1>9 DEF ReturnChains
<1>10. ASSUME NEW kept \in SUBSET DOMAIN chains, PurgeChains(kept) PROVE Rest'
  <2>1. ASSUME NEW c \in kept
        PROVE  /\ chains'[c].ledgers = {}
               /\ chains'[c].current \in Nat
               /\ since'[c] = chains'[c].current + 1
      BY <1>10, <2>1 DEF PurgeChains, Purged, GaplessInv, TypeOK, Chain
  <2>2. DOMAIN chains' = kept
      BY <1>10 DEF PurgeChains
  <2>. QED BY <2>1, <2>2 DEF CompleteMeansGapless, IndexesOf
<1>11. ASSUME EndOfRun \/ UNCHANGED chainVars PROVE Rest'
    BY <1>2, <1>11 DEF EndOfRun, chainVars
<1>12. Rest'
    BY <1>3, <1>4, <1>5, <1>6, <1>7, <1>8, <1>9, <1>10, <1>11 DEF Next, UpdateChains
<1>. QED BY <1>1, <1>12 DEF GaplessInv

LEMMA GaplessInductive == Spec => []GaplessInv
<1>1. Init => GaplessInv
    BY InitTyped DEF Init, GaplessInv, CompleteMeansGapless
<1>. QED BY <1>1, NextGapless, PTL DEF Spec

(* Whatever arrives in whatever order, a chain that is not marked          *)
(* incomplete counts exactly one ledger for each index since its last      *)
(* purge, and no chain ever counts two ledgers of one index.               *)
THEOREM CompleteChainsAreGapless == Spec => []CompleteMeansGapless
<1>1. GaplessInv => CompleteMeansGapless
    BY DEF GaplessInv
<1>. QED BY <1>1, GaplessInductive, PTL

-----------------------------------------------------------------------------
(* What a step may do to a chain that stays, and to a ledger on the list.  *)

StaysForward(c) ==
    /\ chains'[c].current >= chains[c].current
    /\ chains[c].validators \subseteq chains'[c].validators
    /\ phase # "scoring" => chains[c].ledgers \subseteq chains'[c].ledgers

IsPlaced(h) ==
    \E c \in DOMAIN chains' :
       \/ h \in chains'[c].ledgers
       \/ /\ overlaps(chains'[c].validators, list[h].validations)
          /\ chains'[c].current >= IndexOf[h]

LEMMA LaidForward ==
    ASSUME TypeOK, NEW h \in DOMAIN list, NEW c \in DOMAIN chains,
           NEW old \in {chains[c], MarkedIncomplete(chains[c])},
           IndexOf[h] > chains[c].current,
           chains' = [chains EXCEPT ![c] = addLedgerToChain(h, old)]
    PROVE  /\ \A d \in DOMAIN chains : d \in DOMAIN chains' /\ StaysForward(d)
           /\ IsPlaced(h)
<1>1. /\ IndexOf[h] \in Nat
      /\ \A d \in DOMAIN chains : chains[d] \in Chain
      /\ DOMAIN chains' = DOMAIN chains
    BY ChainsAssumption DEF TypeOK
<1>2. /\ chains'[c].current = IndexOf[h]
      /\ chains'[c].ledgers = chains[c].ledgers \cup {h}
      /\ chains[c].validators \subseteq chains'[c].validators
    BY <1>1 DEF addLedgerToChain, MarkedIncomplete, Chain
<1>3. \A d \in DOMAIN chains : d # c => chains'[d] = chains[d]
    OBVIOUS
<1>. QED BY <1>1, <1>2, <1>3 DEF StaysForward, IsPlaced, Chain

LEMMA StepForward ==
    ASSUME ListTyped, [Next]_chainVars
    PROVE  /\ \A c \in DOMAIN chains \cap DOMAIN chains' : StaysForward(c)
           /\ \A h \in DOMAIN list \ DOMAIN list' : IsPlaced(h)
<1>. DEFINE Goal == /\ \A c \in DOMAIN chains \cap DOMAIN chains' : StaysForward(c)
                    /\ \A h \in DOMAIN list \ DOMAIN list' : IsPlaced(h)
<1>. USE DEF ListTyped
<1>1. ASSUME UNCHANGED <<chains, list>> PROVE Goal
    BY <1>1 DEF TypeOK, Chain, StaysForward
<1>2. ASSUME NEW v \in Validator, NEW h \in Ledger, HandOver(v, h) PROVE Goal
    BY <1>1, <1>2 DEF HandOver, UpdateLedgers
<1>3. ASSUME NEW settled \in SUBSET DOMAIN ledgersByHash, CalculateChainsFromLedgers(settled)
      PROVE  Goal
    BY <1>3 DEF CalculateChainsFromLedgers, TypeOK, Chain, StaysForward
<1>4. ASSUME NEW h \in Ledger, UpdateChains(h) PROVE Goal
  <2>1. h \in DOMAIN list /\ IndexOf[h] \in Nat
      BY <1>4, ChainsAssumption
         DEF UpdateChains, ExtendChain, PassLedger, JumpChain, AddNewChain, IsNext
  <2>2. DOMAIN list \ DOMAIN list' = {h}
      BY <1>4, <2>1 DEF UpdateChains, ExtendChain, PassLedger, JumpChain, AddNewChain, Taken
  <2>3. CASE ExtendChain(h)
    <3>. DEFINE c == longestOf(AtNextIndex(h))
    <3>1. c \in AtNextIndex(h)
        BY <2>3, LongestIsOne DEF ExtendChain, AtNextIndex, Overlapping
    <3>2. c \in DOMAIN chains /\ IndexOf[h] > chains[c].current
        BY <3>1 DEF AtNextIndex, Overlapping, TypeOK, Chain
    <3>3. chains' = [chains EXCEPT ![c] = addLedgerToChain(h, chains[c])]
        BY <2>3 DEF ExtendChain
    <3>. HIDE DEF c
    <3>. QED BY <2>1, <2>2, <3>2, <3>3, LaidForward
  <2>4. CASE PassLedger(h)
    <3>1. chains' = chains
        BY <2>4 DEF PassLedger
    <3>2. IsPlaced(h)
      <4>1. CASE AtThisIndex(h) # {}
          BY <4>1, <3>1, <2>1 DEF AtThisIndex, Overlapping, IsPlaced, TypeOK, Chain
      <4>2. CASE Overlapping(h) # {} /\ ~Behind(h, firstOf(Overlapping(h))) /\ AtNextIndex(h) = {}
        <5>. DEFINE c == firstOf(Overlapping(h))
        <5>1. c \in Overlapping(h)
            BY <4>2, FirstIsOne DEF Overlapping
        <5>2. c \in DOMAIN chains /\ chains[c] \in Chain
            BY <5>1 DEF Overlapping, TypeOK
        <5>3. IndexOf[h] # chains[c].current + 1
            BY <5>1, <4>2 DEF AtNextIndex
        <5>4. IndexOf[h] <= chains[c].current
            BY <4>2, <5>2, <5>3, <2>1 DEF Behind, Chain
        <5>. HIDE DEF c
        <5>. QED BY <3>1, <5>1, <5>2, <5>4, <2>1 DEF IsPlaced, Overlapping, Chain
      <4>3. CASE Holding(h) # {}
          BY <4>3, <3>1 DEF Holding, IsPlaced
      <4>. QED BY <2>4, <4>1, <4>2, <4>3 DEF PassLedger
    <3>. QED BY <2>2, <3>1, <3>2 DEF StaysForward, TypeOK, Chain
  <2>5. CASE JumpChain(h)
    <3>. DEFINE c == firstOf(Overlapping(h))
    <3>1. c \in DOMAIN chains
        BY <2>5, FirstIsOne DEF JumpChain, Overlapping
    <3>2. chains' = [chains EXCEPT ![c] = addLedgerToChain(h, MarkedIncomplete(chains[c]))]
          /\ Behind(h, c)
        BY <2>5 DEF JumpChain
    <3>3. IndexOf[h] > chains[c].current
        BY <2>1, <3>1, <3>2 DEF Behind, TypeOK, Chain
    <3>. HIDE DEF c
    <3>. QED BY <2>1, <2>2, <3>1, <3>2, <3>3, LaidForward
  <2>6. CASE AddNewChain(h)
    <3>1. index \notin DOMAIN chains
        BY DEF TypeOK
    <3>2. /\ DOMAIN chains' = DOMAIN chains \cup {index}
          /\ chains'[index].ledgers = {h}
        BY <2>6 DEF AddNewChain
    <3>3. \A c \in DOMAIN chains : chains'[c] = chains[c]
        BY <2>6, <3>1 DEF AddNewChain
    <3>. QED BY <2>2, <3>1, <3>2, <3>3 DEF StaysForward, IsPlaced, TypeOK, Chain
  <2>. QED BY <1>4, <2>3, <2>4, <2>5, <2>6 DEF UpdateChains
<1>5. ASSUME ReturnChains PROVE Goal
    BY <1>1, <1>5 DEF ReturnChains
<1>6. ASSUME NEW kept \in SUBSET DOMAIN chains, PurgeChains(kept) PROVE Goal
  <2>1. /\ phase = "scoring"
        /\ chains' = [c \in kept |-> Purged(chains[c])]
        /\ list' = list
      BY <1>6 DEF PurgeChains
  <2>2. \A c \in kept : /\ chains[c].current \in Nat
                        /\ chains'[c].current = chains[c].current
                        /\ chains'[c].validators = chains[c].validators
      BY <2>1 DEF Purged, TypeOK, Chain
  <2>3. \A c \in kept : StaysForward(c)
      BY <2>1, <2>2 DEF StaysForward
  <2>. QED BY <2>1, <2>3
<1>7. ASSUME EndOfRun \/ UNCHANGED chainVars PROVE Goal
    BY <1>1, <1>7 DEF EndOfRun, chainVars
<1>8. Goal
    BY <1>2, <1>3, <1>4, <1>5, <1>6, <1>7 DEF Next
<1>. QED BY <1>8

(* A chain never goes back, never loses a validator, and loses its ledgers *)
(* in purgeChains alone.                                                   *)
THEOREM ForwardOnly == Spec => ChainsGoForward
<1>1. ListTyped /\ [Next]_chainVars
        => [\A c \in DOMAIN chains \cap DOMAIN chains' :
              /\ chains'[c].current >= chains[c].current
              /\ chains[c].validators \subseteq chains'[c].validators
              /\ phase # "scoring" => chains[c].ledgers \subseteq chains'[c].ledgers]_chainVars
    BY StepForward DEF StaysForward
<1>. QED BY <1>1, InitTyped, NextTyped, PTL DEF Spec, ChainsGoForward

(* No agreed ledger falls through updateChains, whichever of its four ways *)
(* it goes.                                                                *)
THEOREM AgreedArePlaced == Spec => AgreedLedgersArePlaced
<1>1. ListTyped /\ [Next]_chainVars
        => [\A h \in DOMAIN list \ DOMAIN list' :
              \E c \in DOMAIN chains' :
                 \/ h \in chains'[c].ledgers
                 \/ /\ overlaps(chains'[c].validators, list[h].validations)
                    /\ chains'[c].current >= IndexOf[h]]_chainVars
    BY StepForward DEF IsPlaced
<1>. QED BY <1>1, InitTyped, NextTyped, PTL DEF Spec, AgreedLedgersArePlaced

-----------------------------------------------------------------------------
(* The agreement: the chain tracker gets what it expects, and no vote is   *)
(* forgotten.                                                              *)

(* A recorded validation is one that can come in, the map of recent ones   *)
(* is part of the history, and a ballot is awaited before the validation   *)
(* is handed to the chain tracker.                                         *)
Memory ==
    /\ DOMAIN heard \subseteq Votes
    /\ \A p \in DOMAIN heard : heard[p] \in 0..hour
    /\ DOMAIN validationsByPublicKey \subseteq DOMAIN heard
    /\ \A p \in DOMAIN validationsByPublicKey : validationsByPublicKey[p] = heard[p]
    /\ handling \in [DOMAIN handling -> {"saveBallot", "saveValidator"}]
    /\ DOMAIN handling \subseteq DOMAIN heard
    /\ cast \subseteq DOMAIN heard
    /\ \A p \in DOMAIN handling : handling[p] = "saveBallot" => p \notin cast

(* What purge has forgotten is older than anything that is still delivered *)
(* or scored.                                                              *)
Forgotten ==
    \A p \in DOMAIN heard \ DOMAIN validationsByPublicKey :
        heard[p] + (IF step = "off" THEN 2 ELSE 3) <= hour

(* The calculation goes with the phases of the chain tracker.              *)
Cycle ==
    /\ step \in {"off", "chains", "absent"}
    /\ (step = "off") <=> (phase = "idle")
    /\ hour = IF step = "off" THEN reported_at ELSE reported_at + 1
    /\ phase # "scoring" => AllScored

(* The validations of a ledger were heard within the span a calculation    *)
(* covers: the last hour while the ledger waits, the last two once it is   *)
(* laid.                                                                   *)
HeardSince(h, n) ==
    \A v \in Validator : <<v, h>> \in DOMAIN heard => heard[<<v, h>>] + n >= hour

Recent ==
    /\ \A h \in DOMAIN ledgersByHash : HeardSince(h, 1)
    /\ \A p \in DOMAIN handling : handling[p] = "saveBallot" => HeardSince(p[2], 1)
    /\ \A h \in DOMAIN list : HeardSince(h, 2)
    /\ \A c \in DOMAIN chains : \A h \in chains[c].ledgers : HeardSince(h, 2)
    /\ step = "off" => \A c \in DOMAIN chains : chains[c].ledgers = {}

(* A longest chain exists: a number bounds the ledgers of every chain.     *)
FewLedgers ==
    \E n \in Nat : \A c \in DOMAIN chains :
        IsFiniteSet(chains[c].ledgers) /\ Cardinality(chains[c].ledgers) <= n

(* What is scored is scored for a chain, in an hour that has begun.        *)
Scores ==
    /\ lastKnownLedgerIndex \in Nat
    /\ reported_at \in Nat
    /\ agreementChains \subseteq DOMAIN chains
    /\ activeSigningKeys \subseteq Validator
    /\ toScore \subseteq Promise
    /\ \A p \in toScore : p[2] # Absent => p[2] \in DOMAIN chains
    /\ DOMAIN scored \subseteq Promise
    /\ scored \in [DOMAIN scored -> [main : MainKeys, agreement : Row]]
    /\ DOMAIN hourly \subseteq MainKeys \X Nat
    /\ hourly \in [DOMAIN hourly -> Row]
    /\ \A r \in DOMAIN hourly : r[2] < hour
    /\ DOMAIN lastLedger \subseteq Validator
    /\ revoked \subseteq DOMAIN lastLedger

(* The hour each validation was handed to the tracker in.                  *)
Handed == handed \in [cast -> 0..hour]

AgreementInv ==
    ListTyped /\ FewLedgers /\ Memory /\ Forgotten /\ Cycle /\ Recent /\ Scores /\ Handed

LEMMA InvInit == AgreementInit => AgreementInv
<1>. SUFFICES ASSUME AgreementInit PROVE AgreementInv
    OBVIOUS
<1>1. ListTyped
    BY InitTyped DEF AgreementInit
<1>2. FewLedgers
    BY DEF AgreementInit, Init, FewLedgers
<1>3. Memory /\ Forgotten
    BY DEF AgreementInit, Init, Memory, Forgotten
<1>4. Cycle
    BY DEF AgreementInit, Init, Cycle, AllScored
<1>5. Recent
    BY DEF AgreementInit, Init, Recent
<1>6. Scores
    BY DEF AgreementInit, Init, Scores
<1>7. Handed
    BY DEF AgreementInit, Init, Handed
<1>. QED BY <1>1, <1>2, <1>3, <1>4, <1>5, <1>6, <1>7 DEF AgreementInv

-----------------------------------------------------------------------------
(* A step of this module is a step of the chain tracker.                   *)

(* A validation that is delivered and not in the map was never recorded.   *)
LEMMA DeliveredIsNew ==
    ASSUME AgreementInv, NEW v \in Validator, NEW h \in Ledger,
           InTime(h), <<v, h>> \notin DOMAIN validationsByPublicKey
    PROVE  <<v, h>> \notin DOMAIN heard
<1>. SUFFICES ASSUME <<v, h>> \in DOMAIN heard PROVE FALSE
    OBVIOUS
<1>1. heard[<<v, h>>] \in Nat /\ hour \in Nat
    BY DEF AgreementInv, Memory, ListTyped, TypeOK
<1>2. heard[<<v, h>>] + (IF step = "off" THEN 2 ELSE 3) <= hour
    BY DEF AgreementInv, Forgotten
<1>3. CASE heard[<<v, h>>] = hour
    BY <1>1, <1>2, <1>3
<1>4. CASE heard[<<v, h>>] + 1 = hour /\ phase = "scoring"
    BY <1>1, <1>2, <1>4 DEF AgreementInv, Cycle
<1>. QED BY <1>3, <1>4 DEF InTime

(* The validation a handler hands over has not been handed over before.    *)
LEMMA DeliverHandsOver ==
    ASSUME AgreementInv, NEW v \in Validator, NEW h \in Ledger, Deliver(v, h)
    PROVE  HandOver(v, h) \/ UNCHANGED chainVars
<1>1. CASE HandleValidation(v, h)
  <2>1. <<v, h>> \notin cast
      BY <1>1, DeliveredIsNew DEF Deliver, HandleValidation, Record, AgreementInv, Memory
  <2>. QED BY <1>1, <2>1 DEF Deliver, HandleValidation, CountAndSave, HandOver
<1>2. CASE HandleFlagValidation(v, h) \/ FlagValidationThrows(v, h)
    BY <1>2 DEF HandleFlagValidation, FlagValidationThrows
<1>. QED BY <1>1, <1>2 DEF Deliver

LEMMA BallotHandsOver ==
    ASSUME AgreementInv, NEW v \in Validator, NEW h \in Ledger, BallotSaved(v, h)
    PROVE  HandOver(v, h)
<1>1. <<v, h>> \in Votes /\ <<v, h>> \notin cast
    BY DEF AgreementInv, Memory, BallotSaved
<1>. QED BY <1>1 DEF BallotSaved, CountAndSave, HandOver

LEMMA CalculateTracks == Calculate => [Next]_chainVars
<1>1. ASSUME NEW settled \in SUBSET DOMAIN ledgersByHash, StartCalculation(settled)
      PROVE  Next
    BY <1>1 DEF StartCalculation, Next
<1>2. ASSUME NEW h \in Ledger, LayLedger(h) PROVE Next
    BY <1>2 DEF LayLedger, Next
<1>3. CASE ChainsReturned
    BY <1>3 DEF ChainsReturned, Next
<1>4. ASSUME NEW c \in DOMAIN chains, LookUpChain(c) PROVE UNCHANGED chainVars
    BY <1>4 DEF LookUpChain
<1>5. ASSUME NEW p \in toScore, ScoreValidator(p[1], p[2]) \/ ScoreAbsent(p[1])
      PROVE  UNCHANGED chainVars
    BY <1>5 DEF ScoreValidator, ScoreAbsent, SaveRow
<1>6. ASSUME NEW p \in DOMAIN scored, UpdateScores(p) PROVE UNCHANGED chainVars
    BY <1>6 DEF UpdateScores
<1>7. CASE QueryAbsent
    BY <1>7 DEF QueryAbsent
<1>8. ASSUME NEW kept \in SUBSET DOMAIN chains, EndCalculation(kept) PROVE Next
    BY <1>8 DEF EndCalculation, Next
<1>. QED BY <1>1, <1>2, <1>3, <1>4, <1>5, <1>6, <1>7, <1>8 DEF Calculate

LEMMA StepTracks == AgreementInv /\ [AgreementNext]_vars => [Next]_chainVars
<1>. SUFFICES ASSUME AgreementInv, [AgreementNext]_vars PROVE [Next]_chainVars
    OBVIOUS
<1>1. ASSUME NEW v \in Validator, NEW h \in Ledger, Deliver(v, h) PROVE [Next]_chainVars
    BY <1>1, DeliverHandsOver DEF Next
<1>2. ASSUME NEW v \in Validator, NEW h \in Ledger, BallotSaved(v, h) PROVE Next
    BY <1>2, BallotHandsOver DEF Next
<1>3. ASSUME NEW v \in Validator, NEW h \in Ledger, ValidatorSaved(v, h)
      PROVE  UNCHANGED chainVars
    BY <1>3 DEF ValidatorSaved
<1>4. ASSUME NEW p \in DOMAIN validationsByPublicKey, Purge(p) PROVE UNCHANGED chainVars
    BY <1>4 DEF Purge
<1>5. ASSUME NEW v \in Validator, Revoke(v) PROVE UNCHANGED chainVars
    BY <1>5 DEF Revoke
<1>6. CASE AgreementEnd \/ UNCHANGED vars
    BY <1>6 DEF AgreementEnd, vars
<1>. QED BY <1>1, <1>2, <1>3, <1>4, <1>5, <1>6, CalculateTracks DEF AgreementNext, HandlersResume

-----------------------------------------------------------------------------
(* The ledgers of a chain: one more of the list, or none.                  *)

LEMMA LedgersStep ==
    ASSUME ListTyped, [Next]_chainVars, NEW c \in DOMAIN chains'
    PROVE  \/ c \in DOMAIN chains /\ chains'[c].ledgers = chains[c].ledgers
           \/ chains'[c].ledgers = {}
           \/ \E h \in DOMAIN list :
                 \/ chains'[c].ledgers = {h}
                 \/ c \in DOMAIN chains /\ chains'[c].ledgers = chains[c].ledgers \cup {h}
<1>. DEFINE Goal == \/ c \in DOMAIN chains /\ chains'[c].ledgers = chains[c].ledgers
                    \/ chains'[c].ledgers = {}
                    \/ \E h \in DOMAIN list :
                          \/ chains'[c].ledgers = {h}
                          \/ c \in DOMAIN chains /\ chains'[c].ledgers = chains[c].ledgers \cup {h}
<1>1. \A d \in DOMAIN chains : chains[d] \in Chain
    BY DEF ListTyped, TypeOK
<1>2. ASSUME UNCHANGED chains PROVE Goal
    BY <1>2
<1>3. ASSUME NEW h \in Ledger, UpdateChains(h) PROVE Goal
  <2>1. h \in DOMAIN list
      BY <1>3 DEF UpdateChains, ExtendChain, PassLedger, JumpChain, AddNewChain, IsNext
  <2>2. ASSUME NEW d \in DOMAIN chains, NEW old \in {chains[d], MarkedIncomplete(chains[d])},
               chains' = [chains EXCEPT ![d] = addLedgerToChain(h, old)]
        PROVE  Goal
    <3>1. addLedgerToChain(h, old).ledgers = chains[d].ledgers \cup {h}
        BY <1>1 DEF addLedgerToChain, MarkedIncomplete, Chain
    <3>2. CASE c = d
        BY <2>1, <2>2, <3>1, <3>2
    <3>3. CASE c # d
        BY <2>2, <3>3
    <3>. QED BY <3>2, <3>3
  <2>3. CASE ExtendChain(h)
    <3>1. longestOf(AtNextIndex(h)) \in DOMAIN chains
        BY <2>3, LongestIsOne DEF ExtendChain, AtNextIndex, Overlapping
    <3>2. chains' = [chains EXCEPT ![longestOf(AtNextIndex(h))] =
                       addLedgerToChain(h, chains[longestOf(AtNextIndex(h))])]
        BY <2>3 DEF ExtendChain
    <3>. QED BY <3>1, <3>2, <2>2
  <2>4. CASE PassLedger(h)
      BY <1>2, <2>4 DEF PassLedger
  <2>5. CASE JumpChain(h)
    <3>1. firstOf(Overlapping(h)) \in DOMAIN chains
        BY <2>5, FirstIsOne DEF JumpChain, Overlapping, ListTyped
    <3>2. chains' = [chains EXCEPT ![firstOf(Overlapping(h))] =
                       addLedgerToChain(h, MarkedIncomplete(chains[firstOf(Overlapping(h))]))]
        BY <2>5 DEF JumpChain
    <3>. QED BY <3>1, <3>2, <2>2
  <2>6. CASE AddNewChain(h)
    <3>1. CASE c = index
        BY <2>1, <2>6, <3>1 DEF AddNewChain
    <3>2. CASE c # index
        BY <2>6, <3>2 DEF AddNewChain
    <3>. QED BY <3>1, <3>2
  <2>. QED BY <1>3, <2>3, <2>4, <2>5, <2>6 DEF UpdateChains
<1>4. ASSUME NEW kept \in SUBSET DOMAIN chains, PurgeChains(kept) PROVE Goal
  <2>1. c \in kept /\ chains'[c] = Purged(chains[c])
      BY <1>4 DEF PurgeChains
  <2>2. Purged(chains[c]).ledgers = {}
      BY <1>1, <2>1 DEF Purged, Chain
  <2>. QED BY <2>1, <2>2
<1>5. Goal
    BY <1>2, <1>3, <1>4
       DEF Next, HandOver, UpdateLedgers, CalculateChainsFromLedgers, ReturnChains, EndOfRun, chainVars
<1>. QED BY <1>5

(* The validators of a chain: those it had, and those of a ledger laid.    *)
LEMMA MembersStep ==
    ASSUME ListTyped, [Next]_chainVars, NEW c \in DOMAIN chains', NEW v \in chains'[c].validators
    PROVE  \/ c \in DOMAIN chains /\ v \in chains[c].validators
           \/ \E h \in DOMAIN list : v \in list[h].validations
<1>. DEFINE Goal == \/ c \in DOMAIN chains /\ v \in chains[c].validators
                    \/ \E h \in DOMAIN list : v \in list[h].validations
<1>1. \A d \in DOMAIN chains : chains[d] \in Chain
    BY DEF ListTyped, TypeOK
<1>2. ASSUME UNCHANGED chains PROVE Goal
    BY <1>2
<1>3. ASSUME NEW h \in Ledger, UpdateChains(h) PROVE Goal
  <2>1. h \in DOMAIN list
      BY <1>3 DEF UpdateChains, ExtendChain, PassLedger, JumpChain, AddNewChain, IsNext
  <2>2. ASSUME NEW d \in DOMAIN chains, NEW old \in {chains[d], MarkedIncomplete(chains[d])},
               chains' = [chains EXCEPT ![d] = addLedgerToChain(h, old)]
        PROVE  Goal
    <3>1. addLedgerToChain(h, old).validators = chains[d].validators \cup list[h].validations
        BY <1>1 DEF addLedgerToChain, MarkedIncomplete, Chain
    <3>. QED BY <2>1, <2>2, <3>1
  <2>3. CASE ExtendChain(h)
    <3>1. longestOf(AtNextIndex(h)) \in DOMAIN chains
        BY <2>3, LongestIsOne DEF ExtendChain, AtNextIndex, Overlapping
    <3>2. chains' = [chains EXCEPT ![longestOf(AtNextIndex(h))] =
                       addLedgerToChain(h, chains[longestOf(AtNextIndex(h))])]
        BY <2>3 DEF ExtendChain
    <3>. QED BY <3>1, <3>2, <2>2
  <2>4. CASE PassLedger(h)
      BY <1>2, <2>4 DEF PassLedger
  <2>5. CASE JumpChain(h)
    <3>1. firstOf(Overlapping(h)) \in DOMAIN chains
        BY <2>5, FirstIsOne DEF JumpChain, Overlapping, ListTyped
    <3>2. chains' = [chains EXCEPT ![firstOf(Overlapping(h))] =
                       addLedgerToChain(h, MarkedIncomplete(chains[firstOf(Overlapping(h))]))]
        BY <2>5 DEF JumpChain
    <3>. QED BY <3>1, <3>2, <2>2
  <2>6. CASE AddNewChain(h)
      BY <2>1, <2>6 DEF AddNewChain
  <2>. QED BY <1>3, <2>3, <2>4, <2>5, <2>6 DEF UpdateChains
<1>4. ASSUME NEW kept \in SUBSET DOMAIN chains, PurgeChains(kept) PROVE Goal
  <2>1. c \in kept /\ chains'[c] = Purged(chains[c])
      BY <1>4 DEF PurgeChains
  <2>2. Purged(chains[c]).validators = chains[c].validators
      BY <1>1, <2>1 DEF Purged, Chain
  <2>. QED BY <2>1, <2>2
<1>5. Goal
    BY <1>2, <1>3, <1>4
       DEF Next, HandOver, UpdateLedgers, CalculateChainsFromLedgers, ReturnChains, EndOfRun, chainVars
<1>. QED BY <1>5

LEMMA FewLedgersStep ==
    ASSUME ListTyped, FewLedgers, [Next]_chainVars
    PROVE  FewLedgers'
<1>1. PICK n \in Nat : \A c \in DOMAIN chains :
                          IsFiniteSet(chains[c].ledgers) /\ Cardinality(chains[c].ledgers) <= n
    BY DEF FewLedgers
<1>2. ASSUME NEW c \in DOMAIN chains'
      PROVE  IsFiniteSet(chains'[c].ledgers) /\ Cardinality(chains'[c].ledgers) <= n + 1
  <2>1. CASE c \in DOMAIN chains /\ chains'[c].ledgers = chains[c].ledgers
    <3>1. Cardinality(chains[c].ledgers) \in Nat
        BY <1>1, <2>1, FS_CardinalityType
    <3>. QED BY <1>1, <2>1, <3>1
  <2>2. CASE chains'[c].ledgers = {}
      BY <2>2, FS_EmptySet
  <2>3. ASSUME NEW h \in DOMAIN list, chains'[c].ledgers = {h}
        PROVE  IsFiniteSet(chains'[c].ledgers) /\ Cardinality(chains'[c].ledgers) <= n + 1
      BY <2>3, FS_Singleton
  <2>4. ASSUME NEW h \in DOMAIN list, c \in DOMAIN chains,
               chains'[c].ledgers = chains[c].ledgers \cup {h}
        PROVE  IsFiniteSet(chains'[c].ledgers) /\ Cardinality(chains'[c].ledgers) <= n + 1
    <3>1. IsFiniteSet(chains[c].ledgers) /\ Cardinality(chains[c].ledgers) <= n
          /\ Cardinality(chains[c].ledgers) \in Nat
        BY <1>1, <2>4, FS_CardinalityType
    <3>2. /\ IsFiniteSet(chains[c].ledgers \cup {h})
          /\ \/ Cardinality(chains[c].ledgers \cup {h}) = Cardinality(chains[c].ledgers)
             \/ Cardinality(chains[c].ledgers \cup {h}) = Cardinality(chains[c].ledgers) + 1
        BY <3>1, FS_AddElement
    <3>. QED BY <2>4, <3>1, <3>2
  <2>. QED BY <2>1, <2>2, <2>3, <2>4, LedgersStep
<1>3. n + 1 \in Nat
    OBVIOUS
<1>. QED BY <1>2, <1>3 DEF FewLedgers

(* The longest set of ledgers exists: it is a chain's, or there is none.   *)
LEMMA NetworkLedgersTyped ==
    ASSUME ListTyped, FewLedgers
    PROVE  /\ networkLedgers \in SUBSET Ledger
           /\ networkLedgers = {} \/ \E c \in DOMAIN chains : networkLedgers = chains[c].ledgers
<1>. DEFINE sets == {chains[c].ledgers : c \in DOMAIN chains} \cup {{}}
<1>1. \A S \in sets : S \in SUBSET Ledger
    BY DEF ListTyped, TypeOK, Chain
<1>2. PICK n \in Nat : \A c \in DOMAIN chains :
                          IsFiniteSet(chains[c].ledgers) /\ Cardinality(chains[c].ledgers) <= n
    BY DEF FewLedgers
<1>3. ASSUME NEW S \in sets PROVE Cardinality(S) \in Nat /\ Cardinality(S) <= n
  <2>1. CASE S = {}
      BY <2>1, FS_EmptySet
  <2>2. ASSUME NEW c \in DOMAIN chains, S = chains[c].ledgers
        PROVE  Cardinality(S) \in Nat /\ Cardinality(S) <= n
    <3>1. IsFiniteSet(S) /\ Cardinality(S) <= n
        BY <1>2, <2>2
    <3>. QED BY <3>1, FS_CardinalityType
  <2>. QED BY <2>1, <2>2
<1>. HIDE DEF sets
<1>. DEFINE Room == {n - Cardinality(S) : S \in sets}
<1>4. PICK m \in Room : \A k \in Room : m <= k
  <2>1. Room \in SUBSET Nat
      BY <1>3
  <2>2. Room # {}
      BY DEF sets
  <2>. QED BY <2>1, <2>2, LeastNatural
<1>5. PICK L \in sets : n - Cardinality(L) = m
    BY <1>4
<1>6. \A M \in sets : n - Cardinality(L) <= n - Cardinality(M)
    BY <1>4, <1>5
<1>7. \A M \in sets : Cardinality(M) <= Cardinality(L)
    BY <1>3, <1>5, <1>6
<1>8. networkLedgers \in sets
    BY <1>5, <1>7 DEF networkLedgers, sets
<1>. QED BY <1>1, <1>8 DEF sets

-----------------------------------------------------------------------------
(* The calculation goes with the phases.                                   *)

LEMMA CycleStep == AgreementInv /\ [AgreementNext]_vars => Cycle'
<1>. SUFFICES ASSUME AgreementInv, [AgreementNext]_vars PROVE Cycle'
    OBVIOUS
<1>. USE DEF AgreementInv, Cycle
<1>1. hour \in Nat /\ reported_at \in Nat
    BY DEF ListTyped, TypeOK, Scores
<1>2. ASSUME UNCHANGED <<hour, phase>>, UNCHANGED calcVars PROVE Cycle'
    BY <1>2 DEF calcVars, AllScored
<1>3. ASSUME NEW v \in Validator, NEW h \in Ledger, Deliver(v, h) PROVE Cycle'
  <2>1. UNCHANGED <<hour, phase>>
      BY <1>3 DEF Deliver, HandleValidation, HandleFlagValidation, FlagValidationThrows,
                  CountAndSave, UpdateLedgers, chainVars
  <2>2. UNCHANGED calcVars
      BY <1>3 DEF Deliver, HandleValidation, HandleFlagValidation, FlagValidationThrows
  <2>. QED BY <1>2, <2>1, <2>2
<1>4. ASSUME NEW v \in Validator, NEW h \in Ledger, BallotSaved(v, h) \/ ValidatorSaved(v, h)
      PROVE  Cycle'
  <2>1. UNCHANGED <<hour, phase>>
      BY <1>4 DEF BallotSaved, ValidatorSaved, CountAndSave, UpdateLedgers, chainVars
  <2>2. UNCHANGED calcVars
      BY <1>4 DEF BallotSaved, ValidatorSaved
  <2>. QED BY <1>2, <2>1, <2>2
<1>5. ASSUME NEW settled \in SUBSET DOMAIN ledgersByHash, StartCalculation(settled)
      PROVE  Cycle'
    BY <1>5, <1>1 DEF StartCalculation, CalculateChainsFromLedgers, AllScored
<1>6. ASSUME NEW h \in Ledger, LayLedger(h) PROVE Cycle'
  <2>1. UNCHANGED <<hour, phase>> /\ UNCHANGED calcVars
      BY <1>6 DEF LayLedger, UpdateChains, ExtendChain, PassLedger, JumpChain, AddNewChain
  <2>. QED BY <1>2, <2>1
<1>7. ASSUME ChainsReturned PROVE Cycle'
    BY <1>7 DEF ChainsReturned, ReturnChains
<1>8. ASSUME NEW c \in DOMAIN chains, LookUpChain(c) PROVE Cycle'
    BY <1>8 DEF LookUpChain, chainVars
<1>9. ASSUME NEW p \in toScore, ScoreValidator(p[1], p[2]) \/ ScoreAbsent(p[1])
      PROVE  Cycle'
  <2>1. phase = "scoring"
      BY <1>9 DEF AllScored
  <2>. QED BY <1>9, <2>1 DEF ScoreValidator, ScoreAbsent, SaveRow, chainVars
<1>10. ASSUME NEW p \in DOMAIN scored, UpdateScores(p) PROVE Cycle'
  <2>1. phase = "scoring"
      BY <1>10 DEF AllScored
  <2>. QED BY <1>10, <2>1 DEF UpdateScores, chainVars
<1>11. ASSUME QueryAbsent PROVE Cycle'
    BY <1>11 DEF QueryAbsent, chainVars
<1>12. ASSUME NEW kept \in SUBSET DOMAIN chains, EndCalculation(kept) PROVE Cycle'
    BY <1>12, <1>1 DEF EndCalculation, PurgeChains, AllScored
<1>13. ASSUME NEW p \in DOMAIN validationsByPublicKey, Purge(p) PROVE Cycle'
    BY <1>2, <1>13 DEF Purge, chainVars
<1>14. ASSUME NEW v \in Validator, Revoke(v) PROVE Cycle'
    BY <1>2, <1>14 DEF Revoke, chainVars
<1>15. ASSUME AgreementEnd \/ UNCHANGED vars PROVE Cycle'
    BY <1>2, <1>15 DEF AgreementEnd, vars, chainVars
<1>. QED BY <1>3, <1>4, <1>5, <1>6, <1>7, <1>8, <1>9, <1>10, <1>11, <1>12, <1>13, <1>14, <1>15
         DEF AgreementNext, HandlersResume, Calculate

-----------------------------------------------------------------------------
(* What is recorded, forgotten and handled.                                *)

(* What a step of the calculation leaves alone.                            *)
LEMMA CalculateForgetsNothing ==
    ASSUME AgreementInv, Calculate
    PROVE  /\ UNCHANGED memoryVars /\ cast' = cast
           /\ \/ hour' = hour /\ (step' = "off" \/ (step' = "off" <=> step = "off"))
              \/ hour' = hour + 1 /\ step = "off" /\ step' # "off"
<1>1. UNCHANGED memoryVars
    BY DEF Calculate, StartCalculation, LayLedger, ChainsReturned, LookUpChain, ScoreValidator,
           ScoreAbsent, SaveRow, UpdateScores, QueryAbsent, EndCalculation
<1>2. cast' = cast
    BY DEF Calculate, StartCalculation, LayLedger, ChainsReturned, LookUpChain, ScoreValidator,
           ScoreAbsent, SaveRow, UpdateScores, QueryAbsent, EndCalculation, chainVars,
           CalculateChainsFromLedgers, UpdateChains, ExtendChain, PassLedger, JumpChain,
           AddNewChain, ReturnChains, PurgeChains
<1>3. \/ hour' = hour /\ (step' = "off" \/ (step' = "off" <=> step = "off"))
      \/ hour' = hour + 1 /\ step = "off" /\ step' # "off"
  <2>1. ASSUME NEW settled \in SUBSET DOMAIN ledgersByHash, StartCalculation(settled)
        PROVE  hour' = hour + 1 /\ step = "off" /\ step' # "off"
      BY <2>1 DEF StartCalculation, CalculateChainsFromLedgers
  <2>2. ASSUME NEW h \in Ledger, LayLedger(h) PROVE hour' = hour /\ step' = step
      BY <2>2 DEF LayLedger, calcVars, UpdateChains, ExtendChain, PassLedger, JumpChain, AddNewChain
  <2>3. CASE ChainsReturned
      BY <2>3 DEF ChainsReturned, ReturnChains
  <2>4. ASSUME NEW c \in DOMAIN chains, LookUpChain(c) PROVE hour' = hour /\ step' = step
      BY <2>4 DEF LookUpChain, chainVars
  <2>5. ASSUME NEW p \in toScore, ScoreValidator(p[1], p[2]) \/ ScoreAbsent(p[1])
        PROVE  hour' = hour /\ step' = step
      BY <2>5 DEF ScoreValidator, ScoreAbsent, SaveRow, chainVars
  <2>6. ASSUME NEW p \in DOMAIN scored, UpdateScores(p) PROVE hour' = hour /\ step' = step
      BY <2>6 DEF UpdateScores, chainVars
  <2>7. CASE QueryAbsent
      BY <2>7 DEF QueryAbsent, chainVars
  <2>8. ASSUME NEW kept \in SUBSET DOMAIN chains, EndCalculation(kept)
        PROVE  hour' = hour /\ step' = "off"
      BY <2>8 DEF EndCalculation, PurgeChains
  <2>. QED BY <2>1, <2>2, <2>3, <2>4, <2>5, <2>6, <2>7, <2>8 DEF Calculate
<1>. QED BY <1>1, <1>2, <1>3

(* A validation that is recorded is new in the history too.                *)
LEMMA RecordStep ==
    ASSUME AgreementInv, NEW v \in Validator, NEW h \in Ledger, <<v, h>> \in Votes,
           InTime(h), Record(v, h), UNCHANGED <<hour, step>>
    PROVE  /\ <<v, h>> \notin DOMAIN heard
           /\ DOMAIN heard' = DOMAIN heard \cup {<<v, h>>}
           /\ heard'[<<v, h>>] = hour
           /\ \A p \in DOMAIN heard : heard'[p] = heard[p]
           /\ DOMAIN heard' \subseteq Votes
           /\ \A p \in DOMAIN heard' : heard'[p] \in 0..hour'
           /\ DOMAIN validationsByPublicKey' \subseteq DOMAIN heard'
           /\ \A p \in DOMAIN validationsByPublicKey' : validationsByPublicKey'[p] = heard'[p]
           /\ Forgotten'
<1>. USE DEF AgreementInv, Memory
<1>1. <<v, h>> \notin DOMAIN heard
    BY DeliveredIsNew DEF Record
<1>2. /\ DOMAIN heard' = DOMAIN heard \cup {<<v, h>>}
      /\ heard'[<<v, h>>] = hour
      /\ \A p \in DOMAIN heard : heard'[p] = heard[p]
    BY <1>1 DEF Record, Put
<1>3. /\ DOMAIN validationsByPublicKey' = DOMAIN validationsByPublicKey \cup {<<v, h>>}
      /\ validationsByPublicKey'[<<v, h>>] = hour
      /\ \A p \in DOMAIN validationsByPublicKey : validationsByPublicKey'[p] = validationsByPublicKey[p]
    BY DEF Record, Put
<1>4. hour \in 0..hour
    BY DEF ListTyped, TypeOK
<1>5. \A p \in DOMAIN heard' : heard'[p] \in 0..hour'
    BY <1>2, <1>4
<1>6. /\ DOMAIN validationsByPublicKey' \subseteq DOMAIN heard'
      /\ \A p \in DOMAIN validationsByPublicKey' : validationsByPublicKey'[p] = heard'[p]
    BY <1>2, <1>3
<1>7. Forgotten'
    BY <1>2, <1>3 DEF Forgotten
<1>. QED BY <1>1, <1>2, <1>5, <1>6, <1>7

LEMMA DeliverRemembers ==
    ASSUME AgreementInv, NEW v \in Validator, NEW h \in Ledger, Deliver(v, h)
    PROVE  Memory' /\ Forgotten'
<1>. USE DEF AgreementInv, Memory
<1>. DEFINE p == <<v, h>>
<1>1. UNCHANGED <<hour, step>>
    BY DEF Deliver, HandleValidation, HandleFlagValidation, FlagValidationThrows, CountAndSave,
           UpdateLedgers, chainVars, calcVars
<1>2. p \in Votes /\ InTime(h) /\ Record(v, h)
    BY DEF Deliver, HandleValidation, HandleFlagValidation, FlagValidationThrows
<1>3. /\ p \notin DOMAIN heard
      /\ DOMAIN heard' = DOMAIN heard \cup {p}
      /\ DOMAIN heard' \subseteq Votes
      /\ \A q \in DOMAIN heard' : heard'[q] \in 0..hour'
      /\ DOMAIN validationsByPublicKey' \subseteq DOMAIN heard'
      /\ \A q \in DOMAIN validationsByPublicKey' : validationsByPublicKey'[q] = heard'[q]
      /\ Forgotten'
    BY <1>1, <1>2, RecordStep
<1>4. /\ handling' \in [DOMAIN handling' -> {"saveBallot", "saveValidator"}]
      /\ DOMAIN handling' \subseteq DOMAIN heard'
      /\ cast' \subseteq DOMAIN heard'
      /\ \A q \in DOMAIN handling' : handling'[q] = "saveBallot" => q \notin cast'
  <2>1. CASE HandleValidation(v, h)
    <3>1. handling' = Put(handling, p, "saveValidator") /\ cast' = cast \cup {p}
        BY <2>1 DEF HandleValidation, CountAndSave, UpdateLedgers
    <3>2. /\ DOMAIN handling' = DOMAIN handling \cup {p}
          /\ handling'[p] = "saveValidator"
          /\ \A q \in DOMAIN handling : q # p => handling'[q] = handling[q]
          /\ handling' \in [DOMAIN handling' -> {"saveBallot", "saveValidator"}]
        BY <3>1 DEF Put
    <3>. QED BY <1>3, <3>1, <3>2
  <2>2. CASE HandleFlagValidation(v, h)
    <3>1. handling' = Put(handling, p, "saveBallot") /\ cast' = cast
        BY <2>2 DEF HandleFlagValidation, chainVars
    <3>2. /\ DOMAIN handling' = DOMAIN handling \cup {p}
          /\ \A q \in DOMAIN handling : q # p => handling'[q] = handling[q]
          /\ handling' \in [DOMAIN handling' -> {"saveBallot", "saveValidator"}]
        BY <3>1 DEF Put
    <3>. QED BY <1>3, <3>1, <3>2
  <2>3. CASE FlagValidationThrows(v, h)
    <3>1. handling' = handling /\ cast' = cast
        BY <2>3 DEF FlagValidationThrows, chainVars
    <3>. QED BY <1>3, <3>1
  <2>. QED BY <2>1, <2>2, <2>3 DEF Deliver
<1>. QED BY <1>3, <1>4

LEMMA BallotSavedRemembers ==
    ASSUME AgreementInv, NEW v \in Validator, NEW h \in Ledger, BallotSaved(v, h)
    PROVE  Memory' /\ Forgotten'
<1>. USE DEF AgreementInv, Memory
<1>1. UNCHANGED <<hour, step, heard, validationsByPublicKey>>
    BY DEF BallotSaved, CountAndSave, UpdateLedgers, calcVars
<1>2. handling' = Put(handling, <<v, h>>, "saveValidator") /\ cast' = cast \cup {<<v, h>>}
      /\ <<v, h>> \in DOMAIN handling
    BY DEF BallotSaved, CountAndSave, UpdateLedgers
<1>3. /\ DOMAIN handling' = DOMAIN handling
      /\ handling'[<<v, h>>] = "saveValidator"
      /\ \A q \in DOMAIN handling : q # <<v, h>> => handling'[q] = handling[q]
      /\ handling' \in [DOMAIN handling' -> {"saveBallot", "saveValidator"}]
    BY <1>2 DEF Put
<1>4. Memory'
    BY <1>1, <1>2, <1>3
<1>5. Forgotten'
    BY <1>1 DEF Forgotten
<1>. QED BY <1>4, <1>5

LEMMA ValidatorSavedRemembers ==
    ASSUME AgreementInv, NEW v \in Validator, NEW h \in Ledger, ValidatorSaved(v, h)
    PROVE  Memory' /\ Forgotten'
<1>. USE DEF AgreementInv, Memory
<1>1. UNCHANGED <<hour, step, heard, validationsByPublicKey, cast>>
    BY DEF ValidatorSaved, chainVars, calcVars, historyVars
<1>2. handling' = [q \in DOMAIN handling \ {<<v, h>>} |-> handling[q]]
    BY DEF ValidatorSaved, Drop
<1>3. Memory'
    BY <1>1, <1>2
<1>4. Forgotten'
    BY <1>1 DEF Forgotten
<1>. QED BY <1>3, <1>4

LEMMA PurgeRemembers ==
    ASSUME AgreementInv, NEW p \in DOMAIN validationsByPublicKey, Purge(p)
    PROVE  Memory' /\ Forgotten'
<1>. USE DEF AgreementInv, Memory
<1>1. UNCHANGED <<hour, step, heard, handling, cast>>
    BY DEF Purge, chainVars, calcVars, historyVars
<1>2. validationsByPublicKey' = [q \in DOMAIN validationsByPublicKey \ {p} |-> validationsByPublicKey[q]]
    BY DEF Purge, Drop
<1>3. Memory'
    BY <1>1, <1>2
<1>4. heard[p] + (IF step = "off" THEN 2 ELSE 3) <= hour
    BY DEF Purge, TwoHours
<1>5. Forgotten'
    BY <1>1, <1>2, <1>4 DEF Forgotten
<1>. QED BY <1>3, <1>5

LEMMA CalculateRemembers ==
    ASSUME AgreementInv, Calculate
    PROVE  Memory' /\ Forgotten'
<1>. USE DEF AgreementInv, Memory
<1>1. UNCHANGED <<validationsByPublicKey, handling, heard, cast>>
    BY CalculateForgetsNothing DEF memoryVars, historyVars
<1>2. \/ hour' = hour /\ (step' = "off" \/ (step' = "off" <=> step = "off"))
      \/ hour' = hour + 1 /\ step = "off" /\ step' # "off"
    BY CalculateForgetsNothing
<1>3. hour \in Nat /\ \A p \in DOMAIN heard : heard[p] \in Nat
    BY DEF ListTyped, TypeOK
<1>4. \A p \in DOMAIN heard : heard[p] \in 0..hour'
    BY <1>2, <1>3
<1>5. Memory'
    BY <1>1, <1>4
<1>6. ASSUME NEW p \in DOMAIN heard \ DOMAIN validationsByPublicKey
      PROVE  heard[p] + (IF step' = "off" THEN 2 ELSE 3) <= hour'
  <2>1. heard[p] + (IF step = "off" THEN 2 ELSE 3) <= hour
      BY DEF Forgotten
  <2>. QED BY <1>2, <1>3, <2>1
<1>7. Forgotten'
    BY <1>1, <1>6 DEF Forgotten
<1>. QED BY <1>5, <1>7

LEMMA MemoryStep == AgreementInv /\ [AgreementNext]_vars => Memory' /\ Forgotten'
<1>. SUFFICES ASSUME AgreementInv, [AgreementNext]_vars PROVE Memory' /\ Forgotten'
    OBVIOUS
<1>1. ASSUME UNCHANGED <<hour, step, heard, validationsByPublicKey, handling, cast>>
      PROVE  Memory' /\ Forgotten'
    BY <1>1 DEF AgreementInv, Memory, Forgotten
<1>2. ASSUME NEW v \in Validator, Revoke(v) PROVE Memory' /\ Forgotten'
    BY <1>1, <1>2 DEF Revoke, chainVars, memoryVars, historyVars, calcVars
<1>3. CASE AgreementEnd \/ UNCHANGED vars
    BY <1>1, <1>3 DEF AgreementEnd, vars, chainVars, memoryVars, historyVars, calcVars
<1>. QED BY <1>2, <1>3, DeliverRemembers, BallotSavedRemembers, ValidatorSavedRemembers,
            PurgeRemembers, CalculateRemembers DEF AgreementNext, HandlersResume

-----------------------------------------------------------------------------
(* How old the validations of a ledger are that waits, or is laid.         *)

(* Within an hour, what is recorded does not make a ledger older.          *)
LEMMA HeardLater ==
    ASSUME hour \in Nat, hour' = hour, NEW h, NEW n \in Nat, HeardSince(h, n),
           \A p \in DOMAIN heard' :
               (p \in DOMAIN heard /\ heard'[p] = heard[p]) \/ heard'[p] = hour
    PROVE  HeardSince(h, n)'
BY DEF HeardSince

(* A ledger is delivered within an hour of the first of its validations.   *)
LEMMA InTimeIsRecent ==
    ASSUME AgreementInv, NEW h, InTime(h)
    PROVE  HeardSince(h, 1)
<1>1. hour \in Nat /\ \A p \in DOMAIN heard : heard[p] \in Nat
    BY DEF AgreementInv, ListTyped, TypeOK, Memory
<1>. QED BY <1>1 DEF InTime, HeardSince

LEMMA DeliverRecent ==
    ASSUME AgreementInv, NEW v \in Validator, NEW h \in Ledger, Deliver(v, h)
    PROVE  Recent'
<1>. USE DEF AgreementInv
<1>1. UNCHANGED <<hour, step, list, chains>> /\ hour \in Nat
    BY DEF Deliver, HandleValidation, HandleFlagValidation, FlagValidationThrows, CountAndSave,
           UpdateLedgers, chainVars, calcVars, ListTyped, TypeOK
<1>2. <<v, h>> \in Votes /\ InTime(h) /\ Record(v, h)
    BY DEF Deliver, HandleValidation, HandleFlagValidation, FlagValidationThrows
<1>3. \A p \in DOMAIN heard' : (p \in DOMAIN heard /\ heard'[p] = heard[p]) \/ heard'[p] = hour
    BY <1>1, <1>2, RecordStep
<1>4. \A g, n : n \in Nat /\ HeardSince(g, n) => HeardSince(g, n)'
    BY <1>1, <1>3, HeardLater
<1>5. HeardSince(h, 1)
    BY <1>2, InTimeIsRecent
<1>6. \A g \in DOMAIN ledgersByHash' : g \in DOMAIN ledgersByHash \/ g = h
    BY DEF Deliver, HandleValidation, HandleFlagValidation, FlagValidationThrows, CountAndSave,
           UpdateLedgers, chainVars
<1>7. \A p \in DOMAIN handling' : handling'[p] = "saveBallot" =>
          p[2] = h \/ (p \in DOMAIN handling /\ handling[p] = "saveBallot")
  <2>1. CASE HandleValidation(v, h)
      BY <2>1 DEF HandleValidation, CountAndSave, Put
  <2>2. CASE HandleFlagValidation(v, h)
      BY <2>2 DEF HandleFlagValidation, Put
  <2>3. CASE FlagValidationThrows(v, h)
      BY <2>3 DEF FlagValidationThrows
  <2>. QED BY <2>1, <2>2, <2>3 DEF Deliver
<1>8. \A g \in DOMAIN ledgersByHash' : HeardSince(g, 1)'
    BY <1>4, <1>5, <1>6 DEF Recent
<1>9. \A p \in DOMAIN handling' : handling'[p] = "saveBallot" => HeardSince(p[2], 1)'
    BY <1>4, <1>5, <1>7 DEF Recent
<1>10. /\ \A g \in DOMAIN list : HeardSince(g, 2)'
       /\ \A c \in DOMAIN chains : \A g \in chains[c].ledgers : HeardSince(g, 2)'
    BY <1>4 DEF Recent
<1>. QED BY <1>1, <1>8, <1>9, <1>10 DEF Recent

(* Steps that record nothing and start no hour.                            *)
LEMMA SameHeard ==
    ASSUME UNCHANGED <<heard, hour>>, NEW h, NEW n, HeardSince(h, n)
    PROVE  HeardSince(h, n)'
BY DEF HeardSince

LEMMA HandlerRecent ==
    ASSUME AgreementInv, NEW v \in Validator, NEW h \in Ledger,
           BallotSaved(v, h) \/ ValidatorSaved(v, h)
    PROVE  Recent'
<1>. USE DEF AgreementInv
<1>1. UNCHANGED <<hour, step, list, chains, heard>>
    BY DEF BallotSaved, ValidatorSaved, CountAndSave, UpdateLedgers, chainVars, calcVars, historyVars
<1>2. \A g, n : HeardSince(g, n) => HeardSince(g, n)'
    BY <1>1, SameHeard
<1>3. \A g \in DOMAIN ledgersByHash' : HeardSince(g, 1)
  <2>1. CASE BallotSaved(v, h)
    <3>1. DOMAIN ledgersByHash' = DOMAIN ledgersByHash \cup {h}
        BY <2>1 DEF BallotSaved, CountAndSave, UpdateLedgers
    <3>2. HeardSince(h, 1)
        BY <2>1 DEF BallotSaved, Recent
    <3>. QED BY <3>1, <3>2 DEF Recent
  <2>2. CASE ValidatorSaved(v, h)
      BY <2>2 DEF ValidatorSaved, chainVars, Recent
  <2>. QED BY <2>1, <2>2
<1>4. \A p \in DOMAIN handling' : handling'[p] = "saveBallot" =>
          p \in DOMAIN handling /\ handling[p] = "saveBallot"
    BY DEF BallotSaved, ValidatorSaved, CountAndSave, Put, Drop
<1>5. \A g \in DOMAIN ledgersByHash' : HeardSince(g, 1)'
    BY <1>2, <1>3
<1>6. \A p \in DOMAIN handling' : handling'[p] = "saveBallot" => HeardSince(p[2], 1)'
    BY <1>2, <1>4 DEF Recent
<1>7. /\ \A g \in DOMAIN list : HeardSince(g, 2)'
      /\ \A c \in DOMAIN chains : \A g \in chains[c].ledgers : HeardSince(g, 2)'
    BY <1>2 DEF Recent
<1>. QED BY <1>1, <1>5, <1>6, <1>7 DEF Recent

(* The hour starts: what was heard before the last calculation is laid now.*)
LEMMA StartRecent ==
    ASSUME AgreementInv, NEW settled \in SUBSET DOMAIN ledgersByHash, StartCalculation(settled)
    PROVE  Recent'
<1>. USE DEF AgreementInv
<1>1. /\ hour \in Nat /\ hour' = hour + 1
      /\ UNCHANGED <<heard, handling, chains>>
      /\ step = "off" /\ step' # "off"
      /\ \A p \in DOMAIN heard : heard[p] \in Nat
    BY DEF StartCalculation, CalculateChainsFromLedgers, memoryVars, historyVars, ListTyped, TypeOK, Memory
<1>2. ASSUME NEW g, HeardSince(g, 1) PROVE HeardSince(g, 2)'
  <2>. SUFFICES ASSUME NEW v \in Validator, <<v, g>> \in DOMAIN heard
       PROVE  heard[<<v, g>>] + 2 >= hour + 1
      BY <1>1 DEF HeardSince
  <2>. QED BY <1>1, <1>2 DEF HeardSince
<1>3. ASSUME NEW g, ~Old(g) PROVE HeardSince(g, 1)'
  <2>. SUFFICES ASSUME NEW v \in Validator, <<v, g>> \in DOMAIN heard
       PROVE  heard[<<v, g>>] + 1 >= hour + 1
      BY <1>1 DEF HeardSince
  <2>1. ~(heard[<<v, g>>] < hour)
      BY <1>3 DEF Old
  <2>. QED BY <1>1, <2>1
<1>4. \A g \in DOMAIN ledgersByHash' : ~Old(g)
    BY DEF StartCalculation, CalculateChainsFromLedgers, Lingering
<1>5. DOMAIN list' \subseteq DOMAIN ledgersByHash
    BY DEF StartCalculation, CalculateChainsFromLedgers
<1>6. \A g \in DOMAIN ledgersByHash' : HeardSince(g, 1)'
    BY <1>3, <1>4
<1>7. \A p \in DOMAIN handling' : handling'[p] = "saveBallot" => HeardSince(p[2], 1)'
    BY <1>1, <1>3 DEF StartCalculation, Prompt
<1>8. \A g \in DOMAIN list' : HeardSince(g, 2)'
    BY <1>2, <1>5 DEF Recent
<1>9. \A c \in DOMAIN chains' : chains'[c].ledgers = {}
    BY <1>1 DEF Recent
<1>. QED BY <1>1, <1>6, <1>7, <1>8, <1>9 DEF Recent

(* A ledger moves from the list to a chain.                                *)
LEMMA LayRecent ==
    ASSUME AgreementInv, NEW h \in Ledger, LayLedger(h)
    PROVE  Recent'
<1>. USE DEF AgreementInv
<1>1. UNCHANGED <<hour, step, heard, handling, ledgersByHash>> /\ step # "off"
    BY DEF LayLedger, memoryVars, historyVars, calcVars, Cycle,
           UpdateChains, ExtendChain, PassLedger, JumpChain, AddNewChain, IsNext
<1>2. \A g, n : HeardSince(g, n) => HeardSince(g, n)'
    BY <1>1, SameHeard
<1>3. DOMAIN list' \subseteq DOMAIN list
    BY DEF LayLedger, UpdateChains, ExtendChain, PassLedger, JumpChain, AddNewChain, Taken
<1>4. ASSUME NEW c \in DOMAIN chains', NEW g \in chains'[c].ledgers
      PROVE  HeardSince(g, 2)
  <2>1. [Next]_chainVars
      BY DEF LayLedger, Next
  <2>2. g \in DOMAIN list \/ (c \in DOMAIN chains /\ g \in chains[c].ledgers)
      BY <1>4, <2>1, LedgersStep
  <2>. QED BY <2>2 DEF Recent
<1>5. \A g \in DOMAIN ledgersByHash' : HeardSince(g, 1)'
    BY <1>1, <1>2 DEF Recent
<1>6. \A p \in DOMAIN handling' : handling'[p] = "saveBallot" => HeardSince(p[2], 1)'
    BY <1>1, <1>2 DEF Recent
<1>7. \A g \in DOMAIN list' : HeardSince(g, 2)'
    BY <1>2, <1>3 DEF Recent
<1>8. \A c \in DOMAIN chains' : \A g \in chains'[c].ledgers : HeardSince(g, 2)'
    BY <1>2, <1>4
<1>. QED BY <1>1, <1>5, <1>6, <1>7, <1>8 DEF Recent

(* The calculation ends: the chains that are kept count no ledger.         *)
LEMMA EndRecent ==
    ASSUME AgreementInv, NEW kept \in SUBSET DOMAIN chains, EndCalculation(kept)
    PROVE  Recent'
<1>. USE DEF AgreementInv
<1>1. UNCHANGED <<hour, heard, handling, ledgersByHash, list>>
    BY DEF EndCalculation, PurgeChains, memoryVars, historyVars
<1>2. \A g, n : HeardSince(g, n) => HeardSince(g, n)'
    BY <1>1, SameHeard
<1>3. \A c \in DOMAIN chains' : chains'[c].ledgers = {}
    BY DEF EndCalculation, PurgeChains, Purged, ListTyped, TypeOK, Chain
<1>4. \A g \in DOMAIN ledgersByHash' : HeardSince(g, 1)'
    BY <1>1, <1>2 DEF Recent
<1>5. \A p \in DOMAIN handling' : handling'[p] = "saveBallot" => HeardSince(p[2], 1)'
    BY <1>1, <1>2 DEF Recent
<1>6. \A g \in DOMAIN list' : HeardSince(g, 2)'
    BY <1>1, <1>2 DEF Recent
<1>. QED BY <1>3, <1>4, <1>5, <1>6 DEF Recent

LEMMA RecentStep == AgreementInv /\ [AgreementNext]_vars => Recent'
<1>. SUFFICES ASSUME AgreementInv, [AgreementNext]_vars PROVE Recent'
    OBVIOUS
<1>1. ASSUME UNCHANGED <<hour, heard, handling, ledgersByHash, list, chains>>,
             step' = "off" => step = "off"
      PROVE  Recent'
  <2>1. \A g, n : HeardSince(g, n) => HeardSince(g, n)'
      BY <1>1, SameHeard
  <2>2. /\ \A g \in DOMAIN ledgersByHash : HeardSince(g, 1)'
        /\ \A p \in DOMAIN handling : handling[p] = "saveBallot" => HeardSince(p[2], 1)'
        /\ \A g \in DOMAIN list : HeardSince(g, 2)'
        /\ \A c \in DOMAIN chains : \A g \in chains[c].ledgers : HeardSince(g, 2)'
      BY <2>1 DEF AgreementInv, Recent
  <2>. QED BY <1>1, <2>2 DEF AgreementInv, Recent
<1>2. CASE ChainsReturned
    BY <1>1, <1>2 DEF ChainsReturned, ReturnChains, memoryVars, historyVars
<1>3. ASSUME NEW c \in DOMAIN chains, LookUpChain(c) PROVE Recent'
    BY <1>1, <1>3 DEF LookUpChain, chainVars, memoryVars, historyVars
<1>4. ASSUME NEW p \in toScore, ScoreValidator(p[1], p[2]) \/ ScoreAbsent(p[1])
      PROVE  Recent'
    BY <1>1, <1>4 DEF ScoreValidator, ScoreAbsent, SaveRow, chainVars, memoryVars, historyVars
<1>5. ASSUME NEW p \in DOMAIN scored, UpdateScores(p) PROVE Recent'
    BY <1>1, <1>5 DEF UpdateScores, chainVars, memoryVars, historyVars
<1>6. CASE QueryAbsent
    BY <1>1, <1>6 DEF QueryAbsent, chainVars, memoryVars, historyVars
<1>7. ASSUME NEW p \in DOMAIN validationsByPublicKey, Purge(p) PROVE Recent'
    BY <1>1, <1>7 DEF Purge, chainVars, calcVars, historyVars
<1>8. ASSUME NEW v \in Validator, Revoke(v) PROVE Recent'
    BY <1>1, <1>8 DEF Revoke, chainVars, memoryVars, historyVars, calcVars
<1>9. CASE AgreementEnd \/ UNCHANGED vars
    BY <1>1, <1>9 DEF AgreementEnd, vars, chainVars, memoryVars, historyVars, calcVars
<1>. QED BY <1>2, <1>3, <1>4, <1>5, <1>6, <1>7, <1>8, <1>9, DeliverRecent, HandlerRecent,
            StartRecent, LayRecent, EndRecent DEF AgreementNext, HandlersResume, Calculate

-----------------------------------------------------------------------------
(* Rows and score columns.                                                 *)

(* A promise writes a row of the hour that is being calculated.            *)
LEMMA SaveRowTyped ==
    ASSUME AgreementInv, NEW p \in toScore, NEW main \in MainKeys, NEW row \in Row,
           SaveRow(p, main, row)
    PROVE  Scores'
<1>. USE DEF AgreementInv, Scores
<1>1. phase = "scoring"
    BY DEF Cycle, AllScored
<1>2. reported_at < hour /\ hour \in Nat
    BY <1>1 DEF Cycle, ListTyped, TypeOK
<1>3. /\ UNCHANGED <<hour, chains, lastKnownLedgerIndex, reported_at, agreementChains,
                     activeSigningKeys, lastLedger, revoked>>
      /\ toScore' = toScore \ {p}
    BY DEF SaveRow, chainVars, memoryVars, historyVars, tableVars
<1>4. /\ hourly' \in [DOMAIN hourly' -> Row]
      /\ DOMAIN hourly' = DOMAIN hourly \cup {<<main, reported_at>>}
    BY DEF SaveRow, Put
<1>5. /\ DOMAIN hourly' \subseteq MainKeys \X Nat
      /\ \A r \in DOMAIN hourly' : r[2] < hour
    BY <1>2, <1>4
<1>6. /\ scored' \in [DOMAIN scored' -> [main : MainKeys, agreement : Row]]
      /\ DOMAIN scored' \subseteq Promise
  <2>1. [main |-> main, agreement |-> row] \in [main : MainKeys, agreement : Row]
      OBVIOUS
  <2>. QED BY <2>1 DEF SaveRow, Put
<1>. QED BY <1>3, <1>4, <1>5, <1>6

LEMMA ScoreValidatorSaves ==
    ASSUME AgreementInv, NEW p \in toScore, ScoreValidator(p[1], p[2])
    PROVE  /\ p[1] \in Validator /\ p[2] \in DOMAIN chains /\ p = <<p[1], p[2]>>
           /\ main_key(p[1]) \in MainKeys
           /\ Score(p[1], p[2]) \in Row
           /\ SaveRow(p, main_key(p[1]), Score(p[1], p[2]))
<1>. USE DEF AgreementInv, Scores
<1>1. p \in Validator \X (Nat \cup {Absent}) /\ p = <<p[1], p[2]>>
    BY DEF Promise
<1>2. p[1] \in Validator /\ p[2] \in DOMAIN chains
    BY <1>1 DEF ScoreValidator
<1>3. main_key(p[1]) \in MainKeys
    BY <1>2 DEF main_key, MainKeys
<1>4. chains[p[2]] \in Chain
    BY <1>2 DEF ListTyped, TypeOK
<1>5. Score(p[1], p[2]) \in Row
    BY <1>1, <1>4 DEF Score, Row, Chain, setIntersection, setDifference, Promise
<1>. QED BY <1>1, <1>2, <1>3, <1>5 DEF ScoreValidator

LEMMA ScoreAbsentSaves ==
    ASSUME AgreementInv, NEW p \in toScore, ScoreAbsent(p[1])
    PROVE  LET row == [validated |-> {}, missed |-> networkLedgers, incomplete |-> FALSE,
                       by |-> <<p[1], Absent>>]
           IN  /\ <<p[1], Absent>> \in toScore
               /\ MainKey[p[1]] \in MainKeys
               /\ row \in Row
               /\ SaveRow(<<p[1], Absent>>, MainKey[p[1]], row)
<1>. USE DEF AgreementInv, Scores
<1>1. p[1] \in Validator
    BY DEF Promise
<1>2. networkLedgers \in SUBSET Ledger
    BY NetworkLedgersTyped
<1>3. MainKey[p[1]] \in MainKeys /\ <<p[1], Absent>> \in Promise
    BY <1>1 DEF MainKeys, Promise
<1>4. [validated |-> {}, missed |-> networkLedgers, incomplete |-> FALSE,
       by |-> <<p[1], Absent>>] \in Row
    BY <1>2, <1>3 DEF Row
<1>. QED BY <1>3, <1>4 DEF ScoreAbsent

LEMMA ScoresStep == AgreementInv /\ [AgreementNext]_vars => Scores'
<1>. SUFFICES ASSUME AgreementInv, [AgreementNext]_vars PROVE Scores'
    OBVIOUS
<1>. USE DEF AgreementInv, Scores
<1>1. ASSUME UNCHANGED <<hour, chains, lastKnownLedgerIndex, reported_at, agreementChains,
                         activeSigningKeys, toScore, scored, hourly, lastLedger, revoked>>
      PROVE  Scores'
    BY <1>1
<1>2. ASSUME NEW v \in Validator, NEW h \in Ledger, Deliver(v, h) \/ BallotSaved(v, h)
      PROVE  Scores'
  <2>1. UNCHANGED <<hour, chains, reported_at, agreementChains, activeSigningKeys, toScore,
                    scored, hourly, lastLedger, revoked>>
      BY <1>2 DEF Deliver, HandleValidation, HandleFlagValidation, FlagValidationThrows,
                  BallotSaved, CountAndSave, UpdateLedgers, chainVars, calcVars, scoreVars, tableVars
  <2>2. lastKnownLedgerIndex' \in Nat
      BY <1>2, ChainsAssumption
         DEF Deliver, HandleValidation, HandleFlagValidation, FlagValidationThrows, BallotSaved,
             CountAndSave
  <2>. QED BY <2>1, <2>2
<1>3. ASSUME NEW v \in Validator, NEW h \in Ledger, ValidatorSaved(v, h) PROVE Scores'
  <2>1. UNCHANGED <<hour, chains, lastKnownLedgerIndex, reported_at, agreementChains,
                    activeSigningKeys, toScore, scored, hourly, revoked>>
      BY <1>3 DEF ValidatorSaved, chainVars, calcVars, scoreVars
  <2>2. DOMAIN lastLedger' = DOMAIN lastLedger \cup {v}
      BY <1>3 DEF ValidatorSaved, Put
  <2>. QED BY <2>1, <2>2
<1>4. ASSUME NEW settled \in SUBSET DOMAIN ledgersByHash, StartCalculation(settled)
      PROVE  Scores'
  <2>1. hour' = hour + 1 /\ hour \in Nat /\ chains' = chains /\ activeSigningKeys' = {}
      BY <1>4 DEF StartCalculation, CalculateChainsFromLedgers, ListTyped, TypeOK
  <2>2. UNCHANGED <<lastKnownLedgerIndex, reported_at, agreementChains, toScore, scored, hourly,
                    lastLedger, revoked>>
      BY <1>4 DEF StartCalculation, memoryVars, historyVars, scoreVars, tableVars
  <2>3. \A r \in DOMAIN hourly : r[2] < hour + 1
      BY <2>1
  <2>. QED BY <2>1, <2>2, <2>3
<1>5. ASSUME NEW h \in Ledger, LayLedger(h) PROVE Scores'
  <2>1. AllScored /\ UNCHANGED <<hour, memoryVars, calcVars, scoreVars, tableVars>>
      BY <1>5 DEF LayLedger, Cycle, UpdateChains, ExtendChain, PassLedger, JumpChain,
                  AddNewChain, IsNext
  <2>. QED BY <2>1 DEF AllScored, memoryVars, calcVars, scoreVars, tableVars
<1>6. CASE ChainsReturned
    BY <1>6 DEF ChainsReturned, ReturnChains, memoryVars, historyVars, scoreVars, tableVars
<1>7. ASSUME NEW c \in DOMAIN chains, LookUpChain(c) PROVE Scores'
  <2>1. chains[c].validators \subseteq Validator /\ c \in Nat
      BY DEF ListTyped, TypeOK, Chain
  <2>2. /\ toScore' = toScore \cup (chains[c].validators \X {c})
        /\ activeSigningKeys' = activeSigningKeys \cup chains[c].validators
        /\ agreementChains' = agreementChains \ {c}
        /\ UNCHANGED <<hour, chains, lastKnownLedgerIndex, reported_at, scored, hourly,
                       lastLedger, revoked>>
      BY <1>7 DEF LookUpChain, chainVars, memoryVars, historyVars, scoreVars, tableVars
  <2>3. toScore' \subseteq Promise
      BY <2>1, <2>2 DEF Promise
  <2>4. \A p \in toScore' : p[2] # Absent => p[2] \in DOMAIN chains
      BY <2>2
  <2>. QED BY <2>1, <2>2, <2>3, <2>4
<1>8. ASSUME NEW p \in toScore, ScoreValidator(p[1], p[2]) PROVE Scores'
    BY <1>8, ScoreValidatorSaves, SaveRowTyped
<1>9. ASSUME NEW p \in toScore, ScoreAbsent(p[1]) PROVE Scores'
    BY <1>9, ScoreAbsentSaves, SaveRowTyped
<1>10. ASSUME NEW p \in DOMAIN scored, UpdateScores(p) PROVE Scores'
  <2>1. scored' = [q \in DOMAIN scored \ {p} |-> scored[q]]
      BY <1>10 DEF UpdateScores, Drop
  <2>. QED BY <1>10, <2>1 DEF UpdateScores, chainVars, memoryVars, tableVars
<1>11. CASE QueryAbsent
  <2>1. toScore' \subseteq Validator \X {Absent}
      BY <1>11 DEF QueryAbsent, absentValidators
  <2>2. UNCHANGED <<hour, chains, lastKnownLedgerIndex, reported_at, agreementChains,
                    activeSigningKeys, scored, hourly, lastLedger, revoked>>
      BY <1>11 DEF QueryAbsent, chainVars, memoryVars, historyVars, scoreVars, tableVars
  <2>. QED BY <2>1, <2>2 DEF Promise
<1>12. ASSUME NEW kept \in SUBSET DOMAIN chains, EndCalculation(kept) PROVE Scores'
  <2>1. AllScored /\ hour \in Nat /\ reported_at' = hour /\ hour' = hour
      BY <1>12 DEF EndCalculation, PurgeChains, ListTyped, TypeOK
  <2>2. UNCHANGED <<lastKnownLedgerIndex, agreementChains, activeSigningKeys, toScore, scored,
                    lastLedger, revoked>>
      BY <1>12 DEF EndCalculation, memoryVars, historyVars, tableVars
  <2>3. hourly' = [r \in {q \in DOMAIN hourly : q[2] + Retention >= hour} |-> hourly[r]]
      BY <1>12 DEF EndCalculation
  <2>. QED BY <2>1, <2>2, <2>3 DEF AllScored
<1>13. ASSUME NEW p \in DOMAIN validationsByPublicKey, Purge(p) PROVE Scores'
    BY <1>1, <1>13 DEF Purge, chainVars, calcVars, scoreVars, tableVars
<1>14. ASSUME NEW v \in Validator, Revoke(v) PROVE Scores'
    BY <1>14 DEF Revoke, Active, chainVars, memoryVars, historyVars, calcVars, scoreVars
<1>15. CASE AgreementEnd \/ UNCHANGED vars
    BY <1>1, <1>15 DEF AgreementEnd, vars, chainVars, memoryVars, historyVars, calcVars, scoreVars, tableVars
<1>. QED BY <1>2, <1>3, <1>4, <1>5, <1>6, <1>7, <1>8, <1>9, <1>10, <1>11, <1>12, <1>13, <1>14,
            <1>15 DEF AgreementNext, HandlersResume, Calculate

-----------------------------------------------------------------------------
(* What was handed to the tracker, and when.                               *)

OnChain(h) == \E c \in DOMAIN chains : h \in chains[c].ledgers

(* A handler hands over a validation for the first time.                   *)
HandsOver(v, h) ==
    /\ <<v, h>> \notin cast
    /\ UpdateLedgers(v, h)
    /\ handed' = Put(handed, <<v, h>>, hour)
    /\ UNCHANGED <<reported_at, step, hourly>>

(* A promise saves a row; every ledger it counts is on a chain.            *)
SavesRow(p, main, row) ==
    /\ SaveRow(p, main, row)
    /\ row.by = p
    /\ \A h \in ledgersOf(row) : OnChain(h)

LEMMA HandlerHandsOver ==
    ASSUME AgreementInv, NEW v \in Validator, NEW h \in Ledger,
           CountAndSave(v, h), HandOver(v, h), UNCHANGED <<calcVars, scoreVars>>
    PROVE  HandsOver(v, h)
BY DEF CountAndSave, HandOver, HandsOver, calcVars, scoreVars

LEMMA ScoreValidatorSavesRow ==
    ASSUME AgreementInv, NEW p \in toScore, ScoreValidator(p[1], p[2])
    PROVE  SavesRow(p, main_key(p[1]), Score(p[1], p[2]))
<1>1. /\ p[2] \in DOMAIN chains /\ p = <<p[1], p[2]>>
      /\ SaveRow(p, main_key(p[1]), Score(p[1], p[2]))
    BY ScoreValidatorSaves
<1>2. ledgersOf(Score(p[1], p[2])) \subseteq chains[p[2]].ledgers /\ Score(p[1], p[2]).by = <<p[1], p[2]>>
    BY DEF Score, ledgersOf, setIntersection, setDifference
<1>. QED BY <1>1, <1>2 DEF SavesRow, OnChain

LEMMA ScoreAbsentSavesRow ==
    ASSUME AgreementInv, NEW p \in toScore, ScoreAbsent(p[1])
    PROVE  \E row \in Row : SavesRow(<<p[1], Absent>>, MainKey[p[1]], row)
<1>. DEFINE row == [validated |-> {}, missed |-> networkLedgers, incomplete |-> FALSE,
                    by |-> <<p[1], Absent>>]
<1>1. row \in Row /\ SaveRow(<<p[1], Absent>>, MainKey[p[1]], row)
    BY ScoreAbsentSaves
<1>2. ledgersOf(row) = networkLedgers /\ row.by = <<p[1], Absent>>
    BY DEF ledgersOf
<1>3. \A h \in networkLedgers : OnChain(h)
    BY NetworkLedgersTyped DEF OnChain, AgreementInv
<1>. QED BY <1>1, <1>2, <1>3 DEF SavesRow

(* What a step can do to the ledgers that wait, are laid, and are counted. *)
LEMMA StepKinds ==
    ASSUME AgreementInv, [AgreementNext]_vars
    PROVE  \/ \E v \in Validator, h \in Ledger : HandsOver(v, h)
           \/ \E settled \in SUBSET DOMAIN ledgersByHash : StartCalculation(settled)
           \/ \E h \in Ledger : LayLedger(h)
           \/ \E p \in toScore, main \in MainKeys, row \in Row : SavesRow(p, main, row)
           \/ \E kept \in SUBSET DOMAIN chains : EndCalculation(kept)
           \/ UNCHANGED <<ledgersByHash, list, chains, hour, cast, handed, reported_at, hourly>>
<1>. DEFINE Still ==
         UNCHANGED <<ledgersByHash, list, chains, hour, cast, handed, reported_at, hourly>>
<1>1. ASSUME NEW v \in Validator, NEW h \in Ledger, Deliver(v, h)
      PROVE  HandsOver(v, h) \/ Still
  <2>1. CASE HandleValidation(v, h)
    <3>1. CountAndSave(v, h) /\ UNCHANGED <<calcVars, scoreVars>>
        BY <2>1 DEF HandleValidation
    <3>2. <<v, h>> \notin cast /\ <<v, h>> \in Votes
        BY <1>1, <2>1, DeliveredIsNew DEF Deliver, HandleValidation, Record, AgreementInv, Memory
    <3>. QED BY <3>1, <3>2, HandlerHandsOver DEF HandOver, CountAndSave
  <2>2. CASE HandleFlagValidation(v, h)
      BY <2>2 DEF HandleFlagValidation, chainVars, calcVars, scoreVars
  <2>3. CASE FlagValidationThrows(v, h)
      BY <2>3 DEF FlagValidationThrows, chainVars, calcVars, scoreVars
  <2>. QED BY <1>1, <2>1, <2>2, <2>3 DEF Deliver
<1>2. ASSUME NEW v \in Validator, NEW h \in Ledger, BallotSaved(v, h) PROVE HandsOver(v, h)
    BY <1>2, BallotHandsOver, HandlerHandsOver DEF BallotSaved
<1>3. ASSUME NEW v \in Validator, NEW h \in Ledger, ValidatorSaved(v, h) PROVE Still
    BY <1>3 DEF ValidatorSaved, chainVars, calcVars, scoreVars, historyVars
<1>4. ASSUME ChainsReturned PROVE Still
    BY <1>4 DEF ChainsReturned, ReturnChains, scoreVars, memoryVars, historyVars
<1>5. ASSUME NEW c \in DOMAIN chains, LookUpChain(c) PROVE Still
    BY <1>5 DEF LookUpChain, chainVars, scoreVars, memoryVars, historyVars
<1>6. ASSUME NEW p \in toScore, ScoreValidator(p[1], p[2])
      PROVE  \E main \in MainKeys, row \in Row : SavesRow(p, main, row)
    BY <1>6, ScoreValidatorSaves, ScoreValidatorSavesRow
<1>7. ASSUME NEW p \in toScore, ScoreAbsent(p[1])
      PROVE  \E q \in toScore, main \in MainKeys, row \in Row : SavesRow(q, main, row)
    BY <1>7, ScoreAbsentSaves, ScoreAbsentSavesRow
<1>8. ASSUME NEW p \in DOMAIN scored, UpdateScores(p) PROVE Still
    BY <1>8 DEF UpdateScores, chainVars, memoryVars, historyVars
<1>9. ASSUME QueryAbsent PROVE Still
    BY <1>9 DEF QueryAbsent, chainVars, scoreVars, memoryVars, historyVars
<1>10. ASSUME NEW p \in DOMAIN validationsByPublicKey, Purge(p) PROVE Still
    BY <1>10 DEF Purge, chainVars, calcVars, scoreVars, historyVars
<1>11. ASSUME NEW v \in Validator, Revoke(v) PROVE Still
    BY <1>11 DEF Revoke, chainVars, calcVars, scoreVars, memoryVars, historyVars
<1>12. ASSUME AgreementEnd \/ UNCHANGED vars PROVE Still
    BY <1>12 DEF AgreementEnd, vars, chainVars, calcVars, scoreVars, memoryVars, historyVars
<1>. HIDE DEF Still
<1>13. CASE Calculate
    BY <1>4, <1>5, <1>6, <1>7, <1>8, <1>9, <1>13 DEF Calculate, Still
<1>. QED BY <1>1, <1>2, <1>3, <1>10, <1>11, <1>12, <1>13 DEF AgreementNext, HandlersResume, Still

LEMMA HandsOverDates ==
    ASSUME AgreementInv, NEW v \in Validator, NEW h \in Ledger, HandsOver(v, h)
    PROVE  /\ cast' = cast \cup {<<v, h>>} /\ hour' = hour
           /\ handed' \in [cast' -> 0..hour']
           /\ handed'[<<v, h>>] = hour
           /\ \A p \in cast : handed'[p] = handed[p]
<1>. USE DEF AgreementInv, Handed
<1>1. cast' = cast \cup {<<v, h>>} /\ hour' = hour /\ <<v, h>> \notin cast
    BY DEF HandsOver, UpdateLedgers
<1>2. hour \in 0..hour
    BY DEF ListTyped, TypeOK
<1>3. handed' = [z \in cast \cup {<<v, h>>} |-> IF z = <<v, h>> THEN hour ELSE handed[z]]
    BY DEF HandsOver, Put
<1>. QED BY <1>1, <1>2, <1>3

(* Any other step hands nothing over.                                      *)
LEMMA OthersHandNothing ==
    ASSUME AgreementInv,
           \/ \E settled \in SUBSET DOMAIN ledgersByHash : StartCalculation(settled)
           \/ \E h \in Ledger : LayLedger(h)
           \/ \E p \in toScore, main \in MainKeys, row \in Row : SavesRow(p, main, row)
           \/ \E kept \in SUBSET DOMAIN chains : EndCalculation(kept)
    PROVE  UNCHANGED <<cast, handed>> /\ hour' \in {hour, hour + 1}
<1>1. ASSUME NEW settled \in SUBSET DOMAIN ledgersByHash, StartCalculation(settled)
      PROVE  UNCHANGED <<cast, handed>> /\ hour' = hour + 1
    BY <1>1 DEF StartCalculation, CalculateChainsFromLedgers, memoryVars, historyVars
<1>2. ASSUME NEW h \in Ledger, LayLedger(h) PROVE UNCHANGED <<cast, handed, hour>>
    BY <1>2 DEF LayLedger, UpdateChains, ExtendChain, PassLedger, JumpChain, AddNewChain,
                memoryVars, historyVars
<1>3. ASSUME NEW p \in toScore, NEW main \in MainKeys, NEW row \in Row, SavesRow(p, main, row)
      PROVE  UNCHANGED <<cast, handed, hour>>
    BY <1>3 DEF SavesRow, SaveRow, chainVars, memoryVars, historyVars
<1>4. ASSUME NEW kept \in SUBSET DOMAIN chains, EndCalculation(kept)
      PROVE  UNCHANGED <<cast, handed, hour>>
    BY <1>4 DEF EndCalculation, PurgeChains, memoryVars, historyVars
<1>. QED BY <1>1, <1>2, <1>3, <1>4

LEMMA HandedStep == AgreementInv /\ [AgreementNext]_vars => Handed'
<1>. SUFFICES ASSUME AgreementInv, [AgreementNext]_vars PROVE Handed'
    OBVIOUS
<1>1. ASSUME UNCHANGED <<cast, handed>>, hour' \in {hour, hour + 1} PROVE Handed'
  <2>1. hour \in Nat /\ handed \in [cast -> 0..hour]
      BY DEF AgreementInv, Handed, ListTyped, TypeOK
  <2>2. 0..hour \subseteq 0..hour'
      BY <1>1, <2>1
  <2>. QED BY <1>1, <2>1, <2>2 DEF Handed
<1>. QED BY <1>1, StepKinds, HandsOverDates, OthersHandNothing DEF Handed

-----------------------------------------------------------------------------
(* The theorems.                                                           *)

LEMMA InvStep == AgreementInv /\ [AgreementNext]_vars => AgreementInv'
<1>. SUFFICES ASSUME AgreementInv, [AgreementNext]_vars PROVE AgreementInv'
    OBVIOUS
<1>1. [Next]_chainVars
    BY StepTracks
<1>2. ListTyped' /\ FewLedgers'
    BY <1>1, NextTyped, FewLedgersStep DEF AgreementInv
<1>. QED BY <1>2, CycleStep, MemoryStep, RecentStep, ScoresStep, HandedStep DEF AgreementInv

LEMMA InvAlways == AgreementSpec => []AgreementInv
BY InvInit, InvStep, PTL DEF AgreementSpec

(* The agreement scores run the chain tracker as Chains says it: each      *)
(* validation that reaches updateLedgers is one that can come in, and      *)
(* reaches it once, though entry nodes deliver it again, its handler waits *)
(* for a ballot and purge has forgotten others meanwhile.                  *)
THEOREM RunsTheTracker == AgreementSpec => TrackerSpec
<1>1. AgreementInit => Init
    BY DEF AgreementInit
<1>. QED BY <1>1, InvAlways, StepTracks, PTL DEF AgreementSpec, TrackerSpec, Spec

(* So the chains the scores are counted over have what is proved of them:  *)
(* no complete chain has a gap or two ledgers of one index.                *)
COROLLARY ScoredChainsAreGapless == AgreementSpec => []CompleteMeansGapless
BY RunsTheTracker, CompleteChainsAreGapless, PTL DEF TrackerSpec

(* Every variable of the agreement scores keeps its type.                  *)
THEOREM AgreementTypeCorrect == AgreementSpec => []AgreementTypeOK
<1>1. AgreementInv => AgreementTypeOK
  <2>. SUFFICES ASSUME AgreementInv PROVE AgreementTypeOK
      OBVIOUS
  <2>. USE DEF AgreementInv
  <2>1. DOMAIN heard \subseteq Vote
      BY ChainsAssumption DEF Memory, Vote
  <2>2. reported_at \in 0..hour
      BY DEF Cycle, Scores, ListTyped, TypeOK
  <2>. QED BY <2>1, <2>2 DEF AgreementTypeOK, Memory, Cycle, Scores, Handed
<1>. QED BY <1>1, InvAlways, PTL

(* A vote that is heard was never forgotten by the time it is scored: what *)
(* purge forgot is three calculations old, what a chain counts at most two.*)
LEMMA ScoredAreRemembered ==
    ASSUME AgreementInv, NEW p \in toScore, ScoreValidator(p[1], p[2]),
           NEW h \in Score(p[1], p[2]).missed
    PROVE  <<p[1], h>> \notin DOMAIN heard
<1>. DEFINE vote == <<p[1], h>>
<1>. SUFFICES ASSUME vote \in DOMAIN heard PROVE FALSE
    OBVIOUS
<1>. USE DEF AgreementInv
<1>1. p[1] \in Validator /\ p[2] \in DOMAIN chains
    BY ScoreValidatorSaves
<1>2. h \in chains[p[2]].ledgers /\ h \notin recordedBy(p[1])
    BY DEF Score, setDifference
<1>3. h \in Ledger
    BY <1>1, <1>2 DEF ListTyped, TypeOK, Chain
<1>4. vote \notin DOMAIN validationsByPublicKey
    BY <1>2, <1>3 DEF recordedBy
<1>5. step # "off"
    BY DEF Cycle, AllScored
<1>6. heard[vote] + 3 <= hour
    BY <1>4, <1>5 DEF Forgotten
<1>7. heard[vote] + 2 >= hour
    BY <1>1, <1>2 DEF Recent, HeardSince
<1>8. heard[vote] \in Nat /\ hour \in Nat
    BY DEF Memory, ListTyped, TypeOK
<1>. QED BY <1>6, <1>7, <1>8

(* A step that records at most votes of this hour keeps what old rows say. *)
LEMMA RowsStayTrue ==
    ASSUME AgreementInv, NoVoteForgotten,
           \A p \in DOMAIN heard' : (p \in DOMAIN heard /\ heard'[p] = heard[p]) \/ heard'[p] = hour,
           NEW r \in DOMAIN hourly, hourly[r].by[2] # Absent, NEW h \in hourly[r].missed,
           <<hourly[r].by[1], h>> \in DOMAIN heard'
    PROVE  heard'[<<hourly[r].by[1], h>>] > r[2]
<1>1. r[2] < hour /\ r[2] \in Nat /\ hour \in Nat
    BY DEF AgreementInv, Scores, ListTyped, TypeOK
<1>. QED BY <1>1 DEF NoVoteForgotten

LEMMA NoneForgottenStep ==
    AgreementInv /\ NoVoteForgotten /\ [AgreementNext]_vars => NoVoteForgotten'
<1>. SUFFICES ASSUME AgreementInv, NoVoteForgotten, [AgreementNext]_vars
     PROVE  NoVoteForgotten'
    OBVIOUS
<1>1. ASSUME UNCHANGED hourly,
             \A p \in DOMAIN heard' :
                 (p \in DOMAIN heard /\ heard'[p] = heard[p]) \/ heard'[p] = hour
      PROVE  NoVoteForgotten'
    BY <1>1, RowsStayTrue DEF NoVoteForgotten
<1>2. ASSUME NEW v \in Validator, NEW h \in Ledger, Deliver(v, h) PROVE NoVoteForgotten'
  <2>1. <<v, h>> \in Votes /\ InTime(h) /\ Record(v, h) /\ UNCHANGED <<hour, step, hourly>>
      BY <1>2 DEF Deliver, HandleValidation, HandleFlagValidation, FlagValidationThrows,
                  CountAndSave, UpdateLedgers, chainVars, calcVars, scoreVars
  <2>2. \A p \in DOMAIN heard' : (p \in DOMAIN heard /\ heard'[p] = heard[p]) \/ heard'[p] = hour
      BY <2>1, RecordStep
  <2>. QED BY <1>1, <2>1, <2>2
<1>3. ASSUME UNCHANGED <<hourly, heard>> PROVE NoVoteForgotten'
    BY <1>3 DEF NoVoteForgotten
<1>4. ASSUME NEW v \in Validator, NEW h \in Ledger, BallotSaved(v, h) \/ ValidatorSaved(v, h)
      PROVE  NoVoteForgotten'
    BY <1>3, <1>4 DEF BallotSaved, ValidatorSaved, scoreVars, historyVars
<1>5. ASSUME NEW settled \in SUBSET DOMAIN ledgersByHash, StartCalculation(settled)
      PROVE  NoVoteForgotten'
    BY <1>3, <1>5 DEF StartCalculation, scoreVars, memoryVars, historyVars
<1>6. ASSUME NEW h \in Ledger, LayLedger(h) PROVE NoVoteForgotten'
    BY <1>3, <1>6 DEF LayLedger, scoreVars, memoryVars, historyVars
<1>7. CASE ChainsReturned \/ QueryAbsent
    BY <1>3, <1>7 DEF ChainsReturned, QueryAbsent, scoreVars, memoryVars, historyVars
<1>8. ASSUME NEW c \in DOMAIN chains, LookUpChain(c) PROVE NoVoteForgotten'
    BY <1>3, <1>8 DEF LookUpChain, scoreVars, memoryVars, historyVars
<1>9. ASSUME NEW p \in toScore, NEW main \in MainKeys, NEW row \in Row, SaveRow(p, main, row),
             row.by[2] # Absent =>
               \A h \in row.missed : <<row.by[1], h>> \notin DOMAIN heard
      PROVE  NoVoteForgotten'
  <2>1. heard' = heard /\ hourly' = Put(hourly, <<main, reported_at>>, row)
      BY <1>9 DEF SaveRow, memoryVars, historyVars
  <2>2. \A r \in DOMAIN hourly' :
            hourly'[r] = row \/ (r \in DOMAIN hourly /\ hourly'[r] = hourly[r])
      BY <2>1 DEF Put
  <2>. QED BY <1>9, <2>1, <2>2 DEF NoVoteForgotten
<1>10. ASSUME NEW p \in toScore, ScoreValidator(p[1], p[2]) PROVE NoVoteForgotten'
  <2>1. Score(p[1], p[2]).by[1] = p[1]
      BY DEF Score
  <2>2. \A h \in Score(p[1], p[2]).missed : <<p[1], h>> \notin DOMAIN heard
      BY <1>10, ScoredAreRemembered
  <2>. QED BY <1>9, <1>10, <2>1, <2>2, ScoreValidatorSaves
<1>11. ASSUME NEW p \in toScore, ScoreAbsent(p[1]) PROVE NoVoteForgotten'
    BY <1>9, <1>11, ScoreAbsentSaves
<1>12. ASSUME NEW p \in DOMAIN scored, UpdateScores(p) PROVE NoVoteForgotten'
    BY <1>3, <1>12 DEF UpdateScores, memoryVars, historyVars
<1>13. ASSUME NEW kept \in SUBSET DOMAIN chains, EndCalculation(kept) PROVE NoVoteForgotten'
    BY <1>13 DEF EndCalculation, memoryVars, historyVars, NoVoteForgotten
<1>14. ASSUME NEW p \in DOMAIN validationsByPublicKey, Purge(p) PROVE NoVoteForgotten'
    BY <1>3, <1>14 DEF Purge, scoreVars, historyVars
<1>15. ASSUME NEW v \in Validator, Revoke(v) PROVE NoVoteForgotten'
    BY <1>3, <1>15 DEF Revoke, scoreVars, memoryVars, historyVars
<1>16. CASE AgreementEnd \/ UNCHANGED vars
    BY <1>3, <1>16 DEF AgreementEnd, vars, scoreVars, memoryVars, historyVars
<1>. QED BY <1>2, <1>4, <1>5, <1>6, <1>7, <1>8, <1>10, <1>11, <1>12, <1>13, <1>14, <1>15, <1>16
         DEF AgreementNext, HandlersResume, Calculate

(* No validation that was recorded before a calculation started is ever    *)
(* counted as missed by a score for a chain, whatever handlers, purges and *)
(* the awaits of the calculation do in between.                            *)
THEOREM NoneForgotten == AgreementSpec => []NoVoteForgotten
<1>1. AgreementInit => NoVoteForgotten
    BY DEF AgreementInit, NoVoteForgotten
<1>. QED BY <1>1, NoneForgottenStep, InvAlways, PTL DEF AgreementSpec

-----------------------------------------------------------------------------
(* A ledger is counted once, or voted for again by two.                    *)

(* The votes of an entry were handed to the tracker, and more than one of  *)
(* them makes a ledger of the list.                                        *)
Entries ==
    /\ \A h \in DOMAIN ledgersByHash :
          /\ IsFiniteSet(ledgersByHash[h].validations)
          /\ \A v \in ledgersByHash[h].validations : <<v, h>> \in cast
    /\ \A h \in DOMAIN list :
          /\ IsFiniteSet(list[h].validations)
          /\ Cardinality(list[h].validations) > 1
          /\ \A v \in list[h].validations : <<v, h>> \in cast

AllLate(V, h, start) == \A v \in V : HandedLate(v, h, start)
TwoLate(h, start) ==
    \E v, w \in Validator : v # w /\ HandedLate(v, h, start) /\ HandedLate(w, h, start)

(* A ledger that is laid, or counted, and waits again has only votes that  *)
(* came after the calculation; so it is laid on later ones' account.       *)
Recounted ==
    /\ \A h \in DOMAIN ledgersByHash :
          h \in DOMAIN list \/ OnChain(h) => AllLate(ledgersByHash[h].validations, h, reported_at)
    /\ \A r \in DOMAIN hourly : \A h \in ledgersOf(hourly[r]) :
          /\ h \in DOMAIN ledgersByHash => AllLate(ledgersByHash[h].validations, h, r[2])
          /\ h \in DOMAIN list => AllLate(list[h].validations, h, r[2])
          /\ OnChain(h) /\ r[2] < reported_at => TwoLate(h, r[2])

CountedInv == AgreementInv /\ Entries /\ Recounted /\ NoLedgerCountedTwice

(* What was handed over late stays late.                                   *)
LEMMA LateStays ==
    ASSUME cast \subseteq cast', \A p \in cast : handed'[p] = handed[p]
    PROVE  /\ \A v, h, start : HandedLate(v, h, start) => HandedLate(v, h, start)'
           /\ \A V, h, start : AllLate(V, h, start) => AllLate(V, h, start)'
           /\ \A h, start : TwoLate(h, start) => TwoLate(h, start)'
<1>1. \A v, h, start : HandedLate(v, h, start) => HandedLate(v, h, start)'
    BY DEF HandedLate
<1>2. \A V, h, start : AllLate(V, h, start) => AllLate(V, h, start)'
    BY <1>1 DEF AllLate
<1>3. \A h, start : TwoLate(h, start) => TwoLate(h, start)'
    BY <1>1 DEF TwoLate
<1>. QED BY <1>1, <1>2, <1>3

(* Where late votes alone make a ledger, there are two of them.            *)
LEMMA TwoOfMany ==
    ASSUME NEW V \in SUBSET Validator, IsFiniteSet(V), Cardinality(V) > 1,
           NEW h, NEW start, AllLate(V, h, start)
    PROVE  TwoLate(h, start)
<1>1. PICK v \in V : TRUE
  <2>1. V # {}
      BY FS_EmptySet
  <2>. QED BY <2>1
<1>2. PICK w \in V : w # v
  <2>1. V # {v}
      BY FS_Singleton
  <2>. QED BY <1>1, <2>1
<1>. QED BY <1>1, <1>2 DEF AllLate, TwoLate

LEMMA HandsOverCounts ==
    ASSUME CountedInv, NEW v \in Validator, NEW h \in Ledger, HandsOver(v, h)
    PROVE  Entries' /\ Recounted'
<1>. USE DEF CountedInv
<1>1. /\ cast' = cast \cup {<<v, h>>} /\ handed'[<<v, h>>] = hour
      /\ \A p \in cast : handed'[p] = handed[p]
    BY HandsOverDates
<1>2. /\ DOMAIN ledgersByHash' = DOMAIN ledgersByHash \cup {h}
      /\ \A g \in DOMAIN ledgersByHash : g # h => ledgersByHash'[g] = ledgersByHash[g]
      /\ h \in DOMAIN ledgersByHash
           => ledgersByHash'[h].validations = ledgersByHash[h].validations \cup {v}
      /\ h \notin DOMAIN ledgersByHash => ledgersByHash'[h].validations = {v}
      /\ UNCHANGED <<list, chains, reported_at, hourly>>
  <2>1. \A g \in DOMAIN ledgersByHash : ledgersByHash[g] \in LedgerEntry
      BY DEF AgreementInv, ListTyped, TypeOK
  <2>. QED BY <2>1 DEF HandsOver, UpdateLedgers, LedgerEntry
<1>3. /\ \A u, g, start : HandedLate(u, g, start) => HandedLate(u, g, start)'
      /\ \A g, start : TwoLate(g, start) => TwoLate(g, start)'
    BY <1>1, LateStays
<1>4. /\ reported_at \in Nat
      /\ \A r \in DOMAIN hourly : r[2] \in Nat /\ r[2] < hour
    BY DEF AgreementInv, Scores
<1>5. ASSUME NEW g \in DOMAIN ledgersByHash', NEW start \in Nat, start < hour,
             g \in DOMAIN ledgersByHash => AllLate(ledgersByHash[g].validations, g, start),
             NEW u \in ledgersByHash'[g].validations
      PROVE  HandedLate(u, g, start)'
  <2>1. HandedLate(v, h, start)'
      BY <1>1, <1>5 DEF HandedLate
  <2>2. CASE g = h
      BY <1>2, <1>3, <1>5, <2>1, <2>2 DEF AllLate
  <2>3. CASE g # h
      BY <1>2, <1>3, <1>5, <2>3 DEF AllLate
  <2>. QED BY <2>2, <2>3
<1>6. ASSUME NEW g \in DOMAIN ledgersByHash', g \in DOMAIN list \/ OnChain(g)
      PROVE  \A u \in ledgersByHash'[g].validations : HandedLate(u, g, reported_at)'
  <2>1. step # "off"
      BY <1>6 DEF AgreementInv, Cycle, ListTyped, TypeOK, Recent, OnChain
  <2>2. reported_at < hour
      BY <1>4, <2>1 DEF AgreementInv, Cycle
  <2>3. g \in DOMAIN ledgersByHash => AllLate(ledgersByHash[g].validations, g, reported_at)
      BY <1>6 DEF Recounted
  <2>4. PICK start \in Nat : start = reported_at /\ start = reported_at'
      BY <1>2, <1>4
  <2>5. \A u \in ledgersByHash'[g].validations : HandedLate(u, g, start)'
      BY <1>5, <2>2, <2>3, <2>4
  <2>. QED BY <2>4, <2>5 DEF HandedLate
<1>7. ASSUME NEW r \in DOMAIN hourly, NEW g \in ledgersOf(hourly[r])
      PROVE  /\ g \in DOMAIN ledgersByHash'
                  => \A u \in ledgersByHash'[g].validations : HandedLate(u, g, r[2])'
             /\ g \in DOMAIN list => \A u \in list[g].validations : HandedLate(u, g, r[2])'
             /\ OnChain(g) /\ r[2] < reported_at => TwoLate(g, r[2])'
  <2>1. g \in DOMAIN ledgersByHash => AllLate(ledgersByHash[g].validations, g, r[2])
      BY DEF Recounted
  <2>2. g \in DOMAIN ledgersByHash'
          => \A u \in ledgersByHash'[g].validations : HandedLate(u, g, r[2])'
      BY <1>4, <1>5, <2>1
  <2>3. /\ g \in DOMAIN list => \A u \in list[g].validations : HandedLate(u, g, r[2])
        /\ OnChain(g) /\ r[2] < reported_at => TwoLate(g, r[2])
      BY DEF Recounted, AllLate
  <2>. QED BY <1>3, <2>2, <2>3
<1>8. Recounted'
  <2>1. \A g : OnChain(g)' <=> OnChain(g)
      BY <1>2 DEF OnChain
  <2>2. \A g \in DOMAIN ledgersByHash' : g \in DOMAIN list \/ OnChain(g)
          => \A u \in ledgersByHash'[g].validations : HandedLate(u, g, reported_at)'
      BY <1>6
  <2>. QED BY <1>2, <1>7, <2>1, <2>2 DEF Recounted, AllLate
<1>9. Entries'
  <2>1. \A g \in DOMAIN ledgersByHash' : IsFiniteSet(ledgersByHash'[g].validations)
    <3>1. IsFiniteSet({v})
        BY FS_Singleton
    <3>2. h \in DOMAIN ledgersByHash => IsFiniteSet(ledgersByHash[h].validations \cup {v})
        BY FS_AddElement DEF Entries
    <3>. QED BY <1>2, <3>1, <3>2 DEF Entries
  <2>2. ASSUME NEW g \in DOMAIN ledgersByHash', NEW w \in ledgersByHash'[g].validations
        PROVE  <<w, g>> \in cast'
      BY <1>1, <1>2, <2>2 DEF Entries
  <2>. QED BY <1>1, <1>2, <2>1, <2>2 DEF Entries
<1>. QED BY <1>8, <1>9

(* The hour starts: no chain counts a ledger, and none is laid that waits. *)
LEMMA StartCounts ==
    ASSUME CountedInv, NEW settled \in SUBSET DOMAIN ledgersByHash, StartCalculation(settled)
    PROVE  Entries' /\ Recounted'
<1>. USE DEF CountedInv
<1>1. /\ DOMAIN ledgersByHash' = DOMAIN ledgersByHash \ settled
      /\ \A h \in DOMAIN ledgersByHash' : ledgersByHash'[h] = ledgersByHash[h]
      /\ DOMAIN list' \subseteq settled
      /\ \A h \in DOMAIN list' : list'[h] = ledgersByHash[h] /\ Agreed(ledgersByHash[h])
      /\ UNCHANGED <<chains, cast, handed, reported_at, hourly>>
      /\ step = "off"
    BY DEF StartCalculation, CalculateChainsFromLedgers, memoryVars, historyVars, scoreVars
<1>2. \A h : ~OnChain(h)
    BY <1>1 DEF AgreementInv, Recent, OnChain
<1>3. \A h : ~OnChain(h)'
    BY <1>1, <1>2 DEF OnChain
<1>4. \A V, h, start : AllLate(V, h, start) => AllLate(V, h, start)'
    BY <1>1, LateStays
<1>5. Recounted'
    BY <1>1, <1>3, <1>4 DEF Recounted
<1>6. Entries'
    BY <1>1 DEF Entries, Agreed
<1>. QED BY <1>5, <1>6

(* A ledger is laid: on account of its votes, which are two at least.      *)
LEMMA LayCounts ==
    ASSUME CountedInv, NEW h \in Ledger, LayLedger(h)
    PROVE  Entries' /\ Recounted'
<1>. USE DEF CountedInv
<1>1. /\ UNCHANGED <<ledgersByHash, cast, handed, reported_at, hourly>>
      /\ DOMAIN list' \subseteq DOMAIN list
      /\ \A g \in DOMAIN list' : list'[g] = list[g]
    BY DEF LayLedger, UpdateChains, ExtendChain, PassLedger, JumpChain, AddNewChain, Taken,
           memoryVars, historyVars, calcVars, scoreVars
<1>2. ASSUME NEW g, OnChain(g)' PROVE g \in DOMAIN list \/ OnChain(g)
  <2>1. [Next]_chainVars
      BY DEF LayLedger, Next
  <2>2. PICK c \in DOMAIN chains' : g \in chains'[c].ledgers
      BY <1>2 DEF OnChain
  <2>. QED BY <2>1, <2>2, LedgersStep DEF AgreementInv, OnChain
<1>3. /\ \A V, g, start : AllLate(V, g, start) => AllLate(V, g, start)'
      /\ \A g, start : TwoLate(g, start) => TwoLate(g, start)'
    BY <1>1, LateStays
<1>4. ASSUME NEW r \in DOMAIN hourly, NEW g \in ledgersOf(hourly[r]), g \in DOMAIN list
      PROVE  TwoLate(g, r[2])
  <2>1. list[g].validations \in SUBSET Validator
      BY <1>4 DEF AgreementInv, ListTyped, TypeOK, LedgerEntry
  <2>2. AllLate(list[g].validations, g, r[2])
      BY <1>4 DEF Recounted
  <2>. QED BY <1>4, <2>1, <2>2, TwoOfMany DEF Entries
<1>5. Recounted'
    BY <1>1, <1>2, <1>3, <1>4 DEF Recounted
<1>6. Entries'
    BY <1>1 DEF Entries
<1>. QED BY <1>5, <1>6

(* A row is saved: what it counts waits only for votes of this hour.       *)
LEMMA SaveCounts ==
    ASSUME CountedInv, NEW p \in toScore, NEW main \in MainKeys, NEW row \in Row,
           SavesRow(p, main, row)
    PROVE  Entries' /\ Recounted'
<1>. USE DEF CountedInv
<1>1. /\ UNCHANGED <<ledgersByHash, list, chains, cast, handed, reported_at>>
      /\ hourly' = Put(hourly, <<main, reported_at>>, row)
    BY DEF SavesRow, SaveRow, chainVars, memoryVars, historyVars
<1>2. DOMAIN list = {}
    BY DEF AgreementInv, Cycle, AllScored, ListTyped, TypeOK
<1>3. /\ \A V, g, start : AllLate(V, g, start) => AllLate(V, g, start)'
      /\ \A g, start : TwoLate(g, start) => TwoLate(g, start)'
      /\ \A g : OnChain(g)' <=> OnChain(g)
    BY <1>1, LateStays DEF OnChain
<1>4. ASSUME NEW r \in DOMAIN hourly', NEW h \in ledgersOf(hourly'[r])
      PROVE  /\ h \in DOMAIN ledgersByHash => AllLate(ledgersByHash[h].validations, h, r[2])
             /\ OnChain(h) /\ r[2] < reported_at => TwoLate(h, r[2])
  <2>1. CASE r = <<main, reported_at>>
    <3>1. OnChain(h) /\ r[2] = reported_at /\ reported_at \in Nat
        BY <1>1, <1>4, <2>1 DEF Put, SavesRow, AgreementInv, Scores
    <3>. QED BY <3>1 DEF Recounted
  <2>2. CASE r # <<main, reported_at>>
      BY <1>1, <1>4, <2>2 DEF Put, Recounted
  <2>. QED BY <2>1, <2>2
<1>5. Recounted'
    BY <1>1, <1>2, <1>3, <1>4 DEF Recounted
<1>6. Entries'
    BY <1>1 DEF Entries
<1>. QED BY <1>5, <1>6

LEMMA EndCounts ==
    ASSUME CountedInv, NEW kept \in SUBSET DOMAIN chains, EndCalculation(kept)
    PROVE  Entries' /\ Recounted'
<1>. USE DEF CountedInv
<1>1. /\ UNCHANGED <<ledgersByHash, list, cast, handed>>
      /\ DOMAIN hourly' \subseteq DOMAIN hourly
      /\ \A r \in DOMAIN hourly' : hourly'[r] = hourly[r]
    BY DEF EndCalculation, PurgeChains, memoryVars, historyVars
<1>2. DOMAIN list = {}
    BY DEF EndCalculation, PurgeChains, AgreementInv, ListTyped, TypeOK
<1>3. \A h : ~OnChain(h)'
    BY DEF EndCalculation, PurgeChains, Purged, OnChain, AgreementInv, ListTyped, TypeOK, Chain
<1>4. \A V, h, start : AllLate(V, h, start) => AllLate(V, h, start)'
    BY <1>1, LateStays
<1>5. Recounted'
    BY <1>1, <1>2, <1>3, <1>4 DEF Recounted
<1>6. Entries'
    BY <1>1 DEF Entries
<1>. QED BY <1>5, <1>6

(* The property needs the rows of two hours: only a new row makes a pair,  *)
(* as the later of the two, and its ledgers are on chains.                 *)
LEMMA CountedOnceStep ==
    ASSUME CountedInv, [AgreementNext]_vars
    PROVE  NoLedgerCountedTwice'
<1>. USE DEF CountedInv
<1>1. ASSUME cast \subseteq cast', \A p \in cast : handed'[p] = handed[p],
             DOMAIN hourly' \subseteq DOMAIN hourly,
             \A r \in DOMAIN hourly' : hourly'[r] = hourly[r]
      PROVE  NoLedgerCountedTwice'
  <2>1. \A v, h, start : HandedLate(v, h, start) => HandedLate(v, h, start)'
      BY <1>1, LateStays
  <2>. SUFFICES ASSUME NEW r \in DOMAIN hourly', NEW q \in DOMAIN hourly', r[2] < q[2],
                       NEW h \in ledgersOf(hourly'[r]) \cap ledgersOf(hourly'[q])
       PROVE  \E v, w \in Validator : v # w /\ HandedLate(v, h, r[2])' /\ HandedLate(w, h, r[2])'
      BY DEF NoLedgerCountedTwice
  <2>2. PICK v, w \in Validator : v # w /\ HandedLate(v, h, r[2]) /\ HandedLate(w, h, r[2])
      BY <1>1 DEF NoLedgerCountedTwice
  <2>. QED BY <2>1, <2>2
<1>2. ASSUME NEW v \in Validator, NEW h \in Ledger, HandsOver(v, h) PROVE NoLedgerCountedTwice'
  <2>1. cast \subseteq cast' /\ \A p \in cast : handed'[p] = handed[p]
      BY <1>2, HandsOverDates
  <2>2. hourly' = hourly
      BY <1>2 DEF HandsOver
  <2>. QED BY <1>1, <2>1, <2>2
<1>3. ASSUME NEW settled \in SUBSET DOMAIN ledgersByHash, StartCalculation(settled)
      PROVE  NoLedgerCountedTwice'
    BY <1>1, <1>3, OthersHandNothing DEF StartCalculation, scoreVars
<1>4. ASSUME NEW h \in Ledger, LayLedger(h) PROVE NoLedgerCountedTwice'
    BY <1>1, <1>4, OthersHandNothing DEF LayLedger, scoreVars
<1>5. ASSUME NEW kept \in SUBSET DOMAIN chains, EndCalculation(kept)
      PROVE  NoLedgerCountedTwice'
    BY <1>1, <1>5, OthersHandNothing DEF EndCalculation
<1>6. ASSUME NEW p \in toScore, NEW main \in MainKeys, NEW row \in Row, SavesRow(p, main, row)
      PROVE  NoLedgerCountedTwice'
  <2>1. UNCHANGED <<cast, handed>> /\ hourly' = Put(hourly, <<main, reported_at>>, row)
      BY <1>6 DEF SavesRow, SaveRow, chainVars, memoryVars, historyVars
  <2>2. reported_at \in Nat /\ \A r \in DOMAIN hourly : r[2] \in Nat /\ r[2] <= reported_at
    <3>1. hour = reported_at \/ hour = reported_at + 1
        BY DEF AgreementInv, Cycle
    <3>. QED BY <3>1 DEF AgreementInv, Scores
  <2>. SUFFICES ASSUME NEW r \in DOMAIN hourly', NEW q \in DOMAIN hourly', r[2] < q[2],
                       NEW h \in ledgersOf(hourly'[r]) \cap ledgersOf(hourly'[q])
       PROVE  \E v, w \in Validator : v # w /\ HandedLate(v, h, r[2]) /\ HandedLate(w, h, r[2])
      BY <2>1 DEF NoLedgerCountedTwice, HandedLate
  <2>3. DOMAIN hourly' = DOMAIN hourly \cup {<<main, reported_at>>}
      BY <2>1 DEF Put
  <2>4. r # <<main, reported_at>>
      BY <2>2, <2>3
  <2>5. r \in DOMAIN hourly /\ hourly'[r] = hourly[r]
      BY <2>1, <2>3, <2>4 DEF Put
  <2>6. CASE q = <<main, reported_at>>
    <3>1. OnChain(h) /\ r[2] < reported_at
        BY <1>6, <2>1, <2>3, <2>6 DEF Put, SavesRow
    <3>. QED BY <2>5, <3>1 DEF Recounted, TwoLate
  <2>7. CASE q # <<main, reported_at>>
    <3>1. q \in DOMAIN hourly /\ hourly'[q] = hourly[q]
        BY <2>1, <2>3, <2>7 DEF Put
    <3>. QED BY <2>5, <3>1 DEF NoLedgerCountedTwice
  <2>. QED BY <2>6, <2>7
<1>7. ASSUME UNCHANGED <<cast, handed, hourly>> PROVE NoLedgerCountedTwice'
    BY <1>1, <1>7
<1>. QED BY <1>2, <1>3, <1>4, <1>5, <1>6, <1>7, StepKinds

LEMMA CountedStep == CountedInv /\ [AgreementNext]_vars => CountedInv'
<1>. SUFFICES ASSUME CountedInv, [AgreementNext]_vars PROVE CountedInv'
    OBVIOUS
<1>1. AgreementInv'
    BY InvStep DEF CountedInv
<1>2. NoLedgerCountedTwice'
    BY CountedOnceStep
<1>3. ASSUME UNCHANGED <<ledgersByHash, list, chains, cast, handed, reported_at, hourly>>
      PROVE  Entries' /\ Recounted'
    BY <1>3 DEF CountedInv, Entries, Recounted, OnChain, AllLate, TwoLate, HandedLate
<1>4. Entries' /\ Recounted'
    BY <1>3, StepKinds, HandsOverCounts, StartCounts, LayCounts, SaveCounts, EndCounts
       DEF CountedInv
<1>. QED BY <1>1, <1>2, <1>4 DEF CountedInv

LEMMA CountedInit == AgreementInit => CountedInv
<1>. SUFFICES ASSUME AgreementInit PROVE CountedInv
    OBVIOUS
<1>1. Entries
    BY DEF AgreementInit, Init, Entries
<1>2. Recounted /\ NoLedgerCountedTwice
    BY DEF AgreementInit, Init, Recounted, NoLedgerCountedTwice
<1>. QED BY <1>1, <1>2, InvInit DEF CountedInv

(* A ledger that is in the rows of two hours was voted for by two          *)
(* validators since the calculation of the first began.                    *)
THEOREM CountedOnce == AgreementSpec => []NoLedgerCountedTwice
<1>1. CountedInv => NoLedgerCountedTwice
    BY DEF CountedInv
<1>. QED BY <1>1, CountedInit, CountedStep, PTL DEF AgreementSpec

-----------------------------------------------------------------------------
(* Every validator on a chain is scored, and its columns say its row.      *)

Voted(v) == \E h \in Ledger : <<v, h>> \in DOMAIN heard

(* Who is on a chain or in the table has voted; a key that follows another *)
(* in order has not voted before that one was revoked.                     *)
Voters ==
    /\ \A c \in DOMAIN chains : \A v \in chains[c].validators : Voted(v)
    /\ \A v \in DOMAIN lastLedger : Voted(v)
    /\ Orderly => \A r \in Rotations : Voted(r[2]) => r[1] \in revoked

(* A promise scores a member of a chain that has been looked up, or one    *)
(* key of those that follow each other as absent.  A key that was scored   *)
(* for its master has no follower on a chain.                              *)
Promised(p) ==
    IF step = "absent" THEN p[2] = Absent
    ELSE p[2] \in DOMAIN chains \ agreementChains /\ p[1] \in chains[p[2]].validators

Promises ==
    /\ phase = "updating" =>
          /\ step = "chains"
          /\ activeSigningKeys = {}
          /\ \A r \in DOMAIN hourly : r[2] < reported_at
    /\ step = "absent" => agreementChains = {}
    /\ toScore \cap DOMAIN scored = {}
    /\ \A p \in toScore \cup DOMAIN scored : Promised(p)
    /\ \A p \in DOMAIN scored : scored[p].main \in {p[1], MainKey[p[1]]}
    /\ step = "absent" /\ Orderly =>
          \A p, q \in toScore \cup DOMAIN scored : <<p[1], q[1]>> \notin Rotations
    /\ step = "chains" /\ Orderly =>
          \A p \in DOMAIN scored : scored[p].main \notin Validator =>
              \A r \in Rotations : r[1] = p[1] =>
                  \A c \in DOMAIN chains : r[2] \notin chains[c].validators

(* What has been written of the hour, and what the promises still write.   *)
Written ==
    phase = "scoring" =>
        /\ \A v \in activeSigningKeys :
              \/ \E main \in {v, MainKey[v]} : <<main, reported_at>> \in DOMAIN hourly
              \/ \E p \in toScore : p[1] = v /\ p[2] # Absent
        /\ \A p \in DOMAIN scored :
              /\ <<scored[p].main, reported_at>> \in DOMAIN hourly
              /\ OneWriter(scored[p].main) =>
                    hourly[<<scored[p].main, reported_at>>] = scored[p].agreement
        /\ \A r \in DOMAIN hourly : r[2] = reported_at /\ OneWriter(r[1]) =>
              ColumnsSayTheRow(r) \/ \E p \in DOMAIN scored : scored[p].main = r[1]

ScoredInv == CountedInv /\ Voters /\ Promises /\ Written

(* A validator that voted has voted, a revoked key stays revoked.          *)
LEMMA HistoryGrows ==
    ASSUME AgreementInv, [AgreementNext]_vars
    PROVE  /\ DOMAIN heard \subseteq DOMAIN heard'
           /\ revoked \subseteq revoked'
<1>. DEFINE Grows == DOMAIN heard \subseteq DOMAIN heard' /\ revoked \subseteq revoked'
<1>1. ASSUME NEW v \in Validator, NEW h \in Ledger, Deliver(v, h) PROVE Grows
  <2>1. Record(v, h) /\ revoked' = revoked
      BY <1>1 DEF Deliver, HandleValidation, HandleFlagValidation, FlagValidationThrows, tableVars
  <2>. QED BY <2>1 DEF Record, Put
<1>2. ASSUME NEW v \in Validator, NEW h \in Ledger, BallotSaved(v, h) \/ ValidatorSaved(v, h)
      PROVE  Grows
    BY <1>2 DEF BallotSaved, ValidatorSaved, historyVars
<1>3. CASE Calculate
  <2>1. heard' = heard
      BY <1>3, CalculateForgetsNothing DEF memoryVars, historyVars
  <2>2. revoked' = revoked
      BY <1>3 DEF Calculate, StartCalculation, LayLedger, ChainsReturned, LookUpChain,
              ScoreValidator, ScoreAbsent, SaveRow, UpdateScores, QueryAbsent, EndCalculation,
              tableVars
  <2>. QED BY <2>1, <2>2
<1>4. ASSUME NEW p \in DOMAIN validationsByPublicKey, Purge(p) PROVE Grows
    BY <1>4 DEF Purge, historyVars, tableVars
<1>5. ASSUME NEW v \in Validator, Revoke(v) PROVE Grows
    BY <1>5 DEF Revoke, memoryVars, historyVars
<1>6. CASE AgreementEnd \/ UNCHANGED vars
    BY <1>6 DEF AgreementEnd, vars, memoryVars, historyVars, tableVars
<1>. QED BY <1>1, <1>2, <1>3, <1>4, <1>5, <1>6 DEF AgreementNext, HandlersResume

LEMMA VotersStep == ScoredInv /\ [AgreementNext]_vars => Voters'
<1>. SUFFICES ASSUME ScoredInv, [AgreementNext]_vars PROVE Voters'
    OBVIOUS
<1>. USE DEF ScoredInv, CountedInv
<1>1. DOMAIN heard \subseteq DOMAIN heard' /\ revoked \subseteq revoked'
    BY HistoryGrows
<1>2. \A v : Voted(v) => Voted(v)'
    BY <1>1 DEF Voted
<1>3. \A c \in DOMAIN chains' : \A v \in chains'[c].validators : Voted(v)'
  <2>. SUFFICES ASSUME NEW c \in DOMAIN chains', NEW v \in chains'[c].validators PROVE Voted(v)
      BY <1>2
  <2>1. [Next]_chainVars
      BY StepTracks
  <2>2. CASE c \in DOMAIN chains /\ v \in chains[c].validators
      BY <2>2 DEF Voters
  <2>3. ASSUME NEW h \in DOMAIN list, v \in list[h].validations PROVE Voted(v)
    <3>1. <<v, h>> \in DOMAIN heard
        BY <2>3 DEF Entries, AgreementInv, Memory
    <3>2. h \in Ledger
        BY DEF AgreementInv, ListTyped, TypeOK
    <3>. QED BY <3>1, <3>2 DEF Voted
  <2>. QED BY <2>1, <2>2, <2>3, MembersStep DEF AgreementInv
<1>4. \A v \in DOMAIN lastLedger' : Voted(v)'
  <2>1. ASSUME NEW v \in Validator, NEW h \in Ledger, ValidatorSaved(v, h)
        PROVE  \A w \in DOMAIN lastLedger' : Voted(w)
    <3>1. DOMAIN lastLedger' = DOMAIN lastLedger \cup {v}
        BY <2>1 DEF ValidatorSaved, Put
    <3>2. Voted(v)
        BY <2>1 DEF ValidatorSaved, AgreementInv, Memory, Voted
    <3>. QED BY <3>1, <3>2 DEF Voters
  <2>2. CASE lastLedger' = lastLedger
      BY <1>2, <2>2 DEF Voters
  <2>3. (\E v \in Validator, h \in Ledger : ValidatorSaved(v, h)) \/ lastLedger' = lastLedger
      BY DEF AgreementNext, Deliver, HandleValidation, HandleFlagValidation, FlagValidationThrows,
             HandlersResume, BallotSaved, Calculate, StartCalculation, LayLedger, ChainsReturned,
             LookUpChain, ScoreValidator, ScoreAbsent, SaveRow, UpdateScores, QueryAbsent,
             EndCalculation, Purge, Revoke, AgreementEnd, vars, tableVars
  <2>. QED BY <1>2, <2>1, <2>2, <2>3
<1>5. ASSUME Orderly, NEW r \in Rotations, Voted(r[2])' PROVE r[1] \in revoked'
  <2>1. CASE Voted(r[2])
      BY <1>1, <1>5, <2>1 DEF Voters
  <2>2. ASSUME NEW v \in Validator, NEW h \in Ledger, Deliver(v, h), ~Voted(r[2])
        PROVE  r[1] \in revoked
    <3>1. Record(v, h)
        BY <2>2 DEF Deliver, HandleValidation, HandleFlagValidation, FlagValidationThrows
    <3>2. DOMAIN heard' = DOMAIN heard \cup {<<v, h>>}
        BY <3>1 DEF Record, Put
    <3>3. r[2] = v
        BY <1>5, <2>2, <3>2 DEF Voted
    <3>. QED BY <1>5, <2>2, <3>3 DEF Deliver
  <2>3. CASE heard' = heard
      BY <1>5, <2>1, <2>3 DEF Voted
  <2>4. (\E v \in Validator, h \in Ledger : Deliver(v, h)) \/ heard' = heard
      BY CalculateForgetsNothing
         DEF AgreementNext, HandlersResume, BallotSaved, ValidatorSaved, Purge, Revoke,
             AgreementEnd, vars, memoryVars, historyVars
  <2>. QED BY <1>1, <2>1, <2>2, <2>3, <2>4
<1>. QED BY <1>3, <1>4, <1>5 DEF Voters

(* If a main key has one writer, no promise that is still to write a row   *)
(* of it follows one that has written it and not yet its columns.          *)
LEMMA WriterIsAlone ==
    ASSUME ScoredInv, NEW p \in toScore, NEW main \in {p[1], MainKey[p[1]]},
           step = "chains" => main = main_key(p[1]),
           OneWriter(main), NEW q \in DOMAIN scored, scored[q].main = main
    PROVE  FALSE
<1>. USE DEF ScoredInv, CountedInv
<1>1. /\ p \in Validator \X (Nat \cup {Absent}) /\ q \in Validator \X (Nat \cup {Absent})
      /\ p # q /\ Promised(p) /\ Promised(q)
    BY DEF AgreementInv, Scores, Promise, Promises
<1>2. p = <<p[1], p[2]>> /\ q = <<q[1], q[2]>> /\ p[1] \in Validator /\ q[1] \in Validator
    BY <1>1
<1>3. step \in {"chains", "absent"}
    BY DEF AgreementInv, Cycle, AllScored
<1>4. main \in {q[1], MainKey[q[1]]} /\ p[1] \in KeysOf(main) /\ q[1] \in KeysOf(main)
    BY <1>2 DEF Promises, KeysOf
<1>5. CASE p[1] = q[1]
  <2>1. p[2] # q[2]
      BY <1>1, <1>2, <1>5
  <2>2. CASE step = "absent"
      BY <1>1, <2>1, <2>2 DEF Promised
  <2>3. CASE step = "chains"
    <3>1. /\ p[2] \in DOMAIN chains /\ q[2] \in DOMAIN chains
          /\ p[1] \in chains[p[2]].validators \cap chains[q[2]].validators
        BY <1>1, <1>5, <2>3 DEF Promised
    <3>. QED BY <1>4, <2>1, <3>1 DEF OneWriter, OnOneChain
  <2>. QED BY <1>3, <2>2, <2>3
<1>6. CASE p[1] # q[1]
  <2>1. Orderly /\ (<<p[1], q[1]>> \in Rotations \/ <<q[1], p[1]>> \in Rotations)
      BY <1>4, <1>6 DEF OneWriter, OnOneChain
  <2>2. CASE step = "absent"
      BY <2>1, <2>2 DEF Promises
  <2>3. CASE step = "chains"
    <3>1. MainKey[p[1]] = MainKey[q[1]] /\ MainKey[p[1]] \notin Validator
        BY <2>1, AgreementAssumption
    <3>2. main \notin Validator
        BY <1>2, <1>4, <1>6, <3>1
    <3>3. p[1] \notin revoked
        BY <1>2, <2>3, <3>2 DEF main_key, Active
    <3>4. /\ p[2] \in DOMAIN chains /\ p[1] \in chains[p[2]].validators
          /\ q[2] \in DOMAIN chains /\ q[1] \in chains[q[2]].validators
        BY <1>1, <2>3 DEF Promised
    <3>5. CASE <<p[1], q[1]>> \in Rotations
      <4>1. Voted(q[1])
          BY <3>4 DEF Voters
      <4>. QED BY <2>1, <3>3, <3>5, <4>1 DEF Voters
    <3>6. CASE <<q[1], p[1]>> \in Rotations
        BY <2>1, <2>3, <3>2, <3>4, <3>6 DEF Promises
    <3>. QED BY <2>1, <3>5, <3>6
  <2>. QED BY <1>3, <2>2, <2>3
<1>. QED BY <1>5, <1>6

(* A promise writes its row.                                               *)
LEMMA SaveKeepsPromise ==
    ASSUME ScoredInv, NEW p \in toScore, NEW main \in {p[1], MainKey[p[1]]}, NEW row,
           step = "chains" => main = main_key(p[1]), SaveRow(p, main, row)
    PROVE  Promises' /\ Written'
<1>. USE DEF ScoredInv, CountedInv
<1>1. /\ UNCHANGED <<phase, chains, reported_at, step, agreementChains, activeSigningKeys,
                     agreement_1hour, agreement_window>>
      /\ toScore' = toScore \ {p}
      /\ phase = "scoring" /\ p \notin DOMAIN scored /\ Promised(p)
    BY DEF SaveRow, chainVars, AgreementInv, Cycle, AllScored, Promises
<1>2. /\ DOMAIN scored' = DOMAIN scored \cup {p}
      /\ scored'[p].main = main /\ scored'[p].agreement = row
      /\ \A q \in DOMAIN scored : scored'[q] = scored[q]
    BY <1>1 DEF SaveRow, Put
<1>3. /\ DOMAIN hourly' = DOMAIN hourly \cup {<<main, reported_at>>}
      /\ hourly'[<<main, reported_at>>] = row
      /\ \A r \in DOMAIN hourly : r # <<main, reported_at>> => hourly'[r] = hourly[r]
    BY DEF SaveRow, Put
<1>4. ASSUME step = "chains", Orderly, main \notin Validator, NEW r \in Rotations, r[1] = p[1],
             NEW c \in DOMAIN chains
      PROVE  r[2] \notin chains[c].validators
  <2>1. p[1] \in Validator
      BY DEF AgreementInv, Scores, Promise
  <2>2. p[1] \notin revoked
      BY <1>4, <2>1 DEF main_key, Active
  <2>. QED BY <1>4, <2>2 DEF Voters
<1>5. Promises'
  <2>1. /\ toScore' \cap DOMAIN scored' = {}
        /\ toScore' \cup DOMAIN scored' = toScore \cup DOMAIN scored
      BY <1>1, <1>2 DEF Promises
  <2>2. \A q : Promised(q)' <=> Promised(q)
      BY <1>1 DEF Promised
  <2>3. \A q \in DOMAIN scored' : scored'[q].main \in {q[1], MainKey[q[1]]}
      BY <1>2 DEF Promises
  <2>4. step = "chains" /\ Orderly =>
          \A q \in DOMAIN scored' : scored'[q].main \notin Validator =>
              \A r \in Rotations : r[1] = q[1] =>
                  \A c \in DOMAIN chains : r[2] \notin chains[c].validators
      BY <1>2, <1>4 DEF Promises
  <2>. QED BY <1>1, <2>1, <2>2, <2>3, <2>4 DEF Promises
<1>6. \A m : OneWriter(m)' <=> OneWriter(m)
    BY <1>1 DEF OneWriter, OnOneChain
<1>7. ASSUME NEW v \in activeSigningKeys
      PROVE  \/ \E m \in {v, MainKey[v]} : <<m, reported_at>> \in DOMAIN hourly'
             \/ \E q \in toScore' : q[1] = v /\ q[2] # Absent
    BY <1>1, <1>3 DEF Written
<1>8. ASSUME NEW q \in DOMAIN scored'
      PROVE  /\ <<scored'[q].main, reported_at>> \in DOMAIN hourly'
             /\ OneWriter(scored'[q].main) =>
                   hourly'[<<scored'[q].main, reported_at>>] = scored'[q].agreement
  <2>1. CASE q = p
      BY <1>2, <1>3, <2>1
  <2>2. CASE q # p
    <3>1. q \in DOMAIN scored /\ scored'[q] = scored[q]
        BY <1>2, <2>2
    <3>2. ~(OneWriter(main) /\ scored[q].main = main)
        BY <3>1, WriterIsAlone
    <3>. QED BY <1>1, <1>3, <3>1, <3>2 DEF Written
  <2>. QED BY <2>1, <2>2
<1>9. ASSUME NEW r \in DOMAIN hourly', r[2] = reported_at, OneWriter(r[1])
      PROVE  ColumnsSayTheRow(r)' \/ \E q \in DOMAIN scored' : scored'[q].main = r[1]
  <2>1. CASE r = <<main, reported_at>>
      BY <1>2, <2>1
  <2>2. CASE r # <<main, reported_at>>
    <3>1. r \in DOMAIN hourly /\ hourly'[r] = hourly[r]
        BY <1>3, <2>2
    <3>2. ColumnsSayTheRow(r) => ColumnsSayTheRow(r)'
        BY <1>1, <3>1 DEF ColumnsSayTheRow
    <3>. QED BY <1>1, <1>2, <1>9, <3>1, <3>2 DEF Written
  <2>. QED BY <2>1, <2>2
<1>10. Written'
  <2>1. ASSUME NEW q \in DOMAIN scored', OneWriter(scored[q].main)'
        PROVE  hourly'[<<scored'[q].main, reported_at>>] = scored'[q].agreement
      BY <1>1, <1>8, <2>1 DEF OneWriter, OnOneChain
  <2>. QED BY <1>1, <1>6, <1>7, <1>8, <1>9, <2>1 DEF Written
<1>. QED BY <1>5, <1>10

LEMMA StartPromises ==
    ASSUME ScoredInv, NEW settled \in SUBSET DOMAIN ledgersByHash, StartCalculation(settled)
    PROVE  Promises' /\ Written'
<1>. USE DEF ScoredInv, CountedInv
<1>1. /\ phase' = "updating" /\ step' = "chains" /\ activeSigningKeys' = {}
      /\ UNCHANGED <<reported_at, toScore, scored, hourly>>
      /\ step = "off"
    BY DEF StartCalculation, CalculateChainsFromLedgers, scoreVars
<1>2. toScore = {} /\ DOMAIN scored = {} /\ \A r \in DOMAIN hourly : r[2] < reported_at
    BY <1>1 DEF AgreementInv, Cycle, AllScored, Scores
<1>3. Promises'
    BY <1>1, <1>2 DEF Promises
<1>. QED BY <1>1, <1>3 DEF Written

LEMMA LayPromises ==
    ASSUME ScoredInv, NEW h \in Ledger, LayLedger(h)
    PROVE  Promises' /\ Written'
<1>. USE DEF ScoredInv, CountedInv
<1>1. /\ phase = "updating" /\ phase' = "updating"
      /\ UNCHANGED <<calcVars, scoreVars>>
    BY DEF LayLedger, UpdateChains, ExtendChain, PassLedger, JumpChain, AddNewChain, IsNext
<1>2. AllScored
    BY <1>1 DEF AgreementInv, Cycle
<1>3. Promises'
    BY <1>1, <1>2 DEF Promises, AllScored, calcVars, scoreVars
<1>. QED BY <1>1, <1>3 DEF Written

LEMMA ReturnPromises ==
    ASSUME ScoredInv, ChainsReturned
    PROVE  Promises' /\ Written'
<1>. USE DEF ScoredInv, CountedInv
<1>1. /\ phase = "updating" /\ phase' = "scoring"
      /\ UNCHANGED <<reported_at, step, activeSigningKeys, toScore, scored, hourly>>
    BY DEF ChainsReturned, ReturnChains, scoreVars
<1>2. /\ step = "chains" /\ activeSigningKeys = {} /\ toScore = {} /\ DOMAIN scored = {}
      /\ \A r \in DOMAIN hourly : r[2] # reported_at
    BY <1>1 DEF AgreementInv, Cycle, AllScored, Promises, Scores
<1>3. Promises'
    BY <1>1, <1>2 DEF Promises
<1>4. Written'
    BY <1>1, <1>2 DEF Written
<1>. QED BY <1>3, <1>4

(* The name of a chain is there: its validators are active, and promised.  *)
LEMMA LookUpPromises ==
    ASSUME ScoredInv, NEW c \in DOMAIN chains, LookUpChain(c)
    PROVE  Promises' /\ Written'
<1>. USE DEF ScoredInv, CountedInv
<1>1. /\ phase = "scoring" /\ c \in agreementChains
      /\ agreementChains' = agreementChains \ {c}
      /\ activeSigningKeys' = activeSigningKeys \cup chains[c].validators
      /\ toScore' = toScore \cup (chains[c].validators \X {c})
      /\ UNCHANGED <<phase, chains, reported_at, step, scored, hourly, agreement_1hour,
                     agreement_window>>
    BY DEF LookUpChain, chainVars, scoreVars
<1>2. step = "chains"
    BY <1>1 DEF Promises, AgreementInv, Cycle
<1>3. c \in Nat /\ c # Absent
    BY DEF AgreementInv, ListTyped, TypeOK, Absent
<1>4. \A p \in toScore \cup DOMAIN scored : Promised(p) /\ Promised(p)' /\ p[2] # c
    BY <1>1, <1>2 DEF Promises, Promised
<1>5. \A p \in chains[c].validators \X {c} : Promised(p)' /\ p[2] = c
    BY <1>1, <1>2 DEF Promised
<1>6. toScore' \cap DOMAIN scored = {}
    BY <1>1, <1>4, <1>5 DEF Promises
<1>7. Promises'
    BY <1>1, <1>2, <1>4, <1>5, <1>6 DEF Promises
<1>8. ASSUME NEW v \in activeSigningKeys'
      PROVE  \/ \E main \in {v, MainKey[v]} : <<main, reported_at>> \in DOMAIN hourly
             \/ \E p \in toScore' : p[1] = v /\ p[2] # Absent
  <2>1. CASE v \in activeSigningKeys
      BY <1>1, <2>1 DEF Written
  <2>2. CASE v \in chains[c].validators
    <3>1. <<v, c>> \in toScore'
        BY <1>1, <2>2
    <3>. QED BY <1>3, <3>1
  <2>. QED BY <1>1, <2>1, <2>2
<1>9. Written'
    BY <1>1, <1>8 DEF Written, OneWriter, OnOneChain, ColumnsSayTheRow
<1>. QED BY <1>7, <1>9

LEMMA ScorePromises ==
    ASSUME ScoredInv, NEW p \in toScore, ScoreValidator(p[1], p[2]) \/ ScoreAbsent(p[1])
    PROVE  Promises' /\ Written'
<1>. USE DEF ScoredInv, CountedInv
<1>1. CASE ScoreValidator(p[1], p[2])
  <2>1. SaveRow(p, main_key(p[1]), Score(p[1], p[2]))
      BY <1>1, ScoreValidatorSaves
  <2>2. main_key(p[1]) \in {p[1], MainKey[p[1]]}
      BY DEF main_key
  <2>. QED BY <2>1, <2>2, SaveKeepsPromise
<1>2. CASE ScoreAbsent(p[1])
  <2>1. PICK row \in Row : SaveRow(<<p[1], Absent>>, MainKey[p[1]], row)
      BY <1>2, ScoreAbsentSaves
  <2>2. <<p[1], Absent>> \in toScore
      BY <1>2, ScoreAbsentSaves
  <2>3. step # "chains"
    <3>1. Promised(<<p[1], Absent>>)
        BY <2>2 DEF Promises
    <3>. QED BY <3>1 DEF Promised, AgreementInv, ListTyped, TypeOK, Absent
  <2>. DEFINE q == <<p[1], Absent>>
  <2>4. q \in toScore /\ MainKey[q[1]] \in {q[1], MainKey[q[1]]} /\ SaveRow(q, MainKey[q[1]], row)
      BY <2>1, <2>2
  <2>. HIDE DEF q
  <2>. QED BY <2>3, <2>4, SaveKeepsPromise
<1>. QED BY <1>1, <1>2

(* The columns of a main key are computed from its rows: the one of this   *)
(* hour is among those of every window.                                    *)
LEMMA UpdatePromises ==
    ASSUME ScoredInv, NEW p \in DOMAIN scored, UpdateScores(p)
    PROVE  Promises' /\ Written'
<1>. USE DEF ScoredInv, CountedInv
<1>. DEFINE main == scored[p].main
            window == getAgreementScores(main)
<1>1. /\ agreement_1hour' = Put(agreement_1hour, main, scored[p].agreement)
      /\ agreement_window' = Put(agreement_window, main, window)
      /\ scored' = Drop(scored, p)
      /\ UNCHANGED <<phase, chains, reported_at, step, agreementChains, activeSigningKeys, toScore,
                     hourly>>
    BY DEF UpdateScores, chainVars
<1>2. phase = "scoring" /\ hour = reported_at + 1 /\ reported_at \in Nat
    BY DEF AgreementInv, Cycle, AllScored, Scores
<1>3. /\ DOMAIN scored' = DOMAIN scored \ {p}
      /\ \A q \in DOMAIN scored' : scored'[q] = scored[q]
    BY <1>1 DEF Drop
<1>4. Promises'
  <2>1. \A q : Promised(q)' <=> Promised(q)
      BY <1>1 DEF Promised
  <2>. QED BY <1>1, <1>3, <2>1 DEF Promises
<1>5. <<main, reported_at>> \in DOMAIN hourly
      => reported_at \in DOMAIN window /\ window[reported_at] = hourly[<<main, reported_at>>]
  <2>1. reported_at \in 0..hour /\ reported_at + Window >= hour
      BY <1>2, AgreementAssumption
  <2>. QED BY <2>1 DEF getAgreementScores
<1>. HIDE DEF window
<1>6. \A m : OneWriter(m)' <=> OneWriter(m)
    BY <1>1 DEF OneWriter, OnOneChain
<1>7. ASSUME NEW r \in DOMAIN hourly, r[2] = reported_at, OneWriter(r[1])
      PROVE  ColumnsSayTheRow(r)' \/ \E q \in DOMAIN scored' : scored'[q].main = r[1]
  <2>0. r = <<r[1], r[2]>>
      BY DEF AgreementInv, Scores
  <2>1. CASE r[1] = main
    <3>1. /\ hourly[r] = scored[p].agreement
          /\ reported_at \in DOMAIN window /\ window[reported_at] = hourly[r]
        BY <1>2, <1>5, <1>7, <2>0, <2>1 DEF Written
    <3>2. /\ r[1] \in DOMAIN agreement_1hour' /\ agreement_1hour'[r[1]] = scored[p].agreement
          /\ r[1] \in DOMAIN agreement_window' /\ agreement_window'[r[1]] = window
        BY <1>1, <2>1 DEF Put
    <3>. QED BY <1>1, <1>7, <3>1, <3>2 DEF ColumnsSayTheRow
  <2>2. CASE r[1] # main
    <3>1. ColumnsSayTheRow(r) \/ \E q \in DOMAIN scored : scored[q].main = r[1]
        BY <1>2, <1>7 DEF Written
    <3>2. ASSUME ColumnsSayTheRow(r) PROVE ColumnsSayTheRow(r)'
      <4>1. r[1] \in DOMAIN agreement_1hour' /\ agreement_1hour'[r[1]] = agreement_1hour[r[1]]
          BY <1>1, <2>2, <3>2 DEF Put, ColumnsSayTheRow
      <4>2. r[1] \in DOMAIN agreement_window' /\ agreement_window'[r[1]] = agreement_window[r[1]]
          BY <1>1, <2>2, <3>2 DEF Put, ColumnsSayTheRow
      <4>. QED BY <1>1, <3>2, <4>1, <4>2 DEF ColumnsSayTheRow
    <3>. QED BY <1>3, <2>2, <3>1, <3>2
  <2>. QED BY <2>1, <2>2
<1>8. ASSUME NEW q \in DOMAIN scored'
      PROVE  /\ <<scored'[q].main, reported_at>> \in DOMAIN hourly
             /\ OneWriter(scored[q].main)' =>
                   hourly[<<scored'[q].main, reported_at>>] = scored'[q].agreement
    BY <1>1, <1>2, <1>3 DEF Written, OneWriter, OnOneChain
<1>9. Written'
    BY <1>1, <1>2, <1>6, <1>7, <1>8 DEF Written
<1>. QED BY <1>4, <1>9

(* All validators on chains are scored; the absent ones are: no two of     *)
(* them follow each other in order, for the older would be revoked.        *)
LEMMA AbsentPromises ==
    ASSUME ScoredInv, QueryAbsent
    PROVE  Promises' /\ Written'
<1>. USE DEF ScoredInv, CountedInv
<1>1. /\ step = "chains" /\ step' = "absent" /\ phase = "scoring" /\ AllScored
      /\ toScore' \subseteq absentValidators \X {Absent}
      /\ UNCHANGED <<phase, chains, reported_at, agreementChains, activeSigningKeys, scored, hourly,
                     agreement_1hour, agreement_window>>
    BY DEF QueryAbsent, chainVars, scoreVars
<1>2. ASSUME Orderly, NEW p \in toScore', NEW q \in toScore', <<p[1], q[1]>> \in Rotations
      PROVE  FALSE
  <2>1. /\ p[1] \in absentValidators /\ q[1] \in absentValidators
      BY <1>1
  <2>2. p[1] \notin revoked /\ q[1] \in DOMAIN lastLedger
      BY <2>1 DEF absentValidators, Active
  <2>3. Voted(q[1])
      BY <2>2 DEF Voters
  <2>. QED BY <1>2, <2>2, <2>3 DEF Voters
<1>3. Promises'
  <2>1. \A p \in toScore' : Promised(p)'
      BY <1>1 DEF Promised
  <2>. QED BY <1>1, <1>2, <2>1 DEF Promises, AllScored
<1>4. Written'
    BY <1>1 DEF Written, AllScored, OneWriter, OnOneChain, ColumnsSayTheRow
<1>. QED BY <1>3, <1>4

LEMMA EndPromises ==
    ASSUME ScoredInv, NEW kept \in SUBSET DOMAIN chains, EndCalculation(kept)
    PROVE  Promises' /\ Written'
<1>1. /\ AllScored /\ phase' = "idle" /\ step' = "off"
      /\ UNCHANGED <<toScore, scored>>
    BY DEF EndCalculation, PurgeChains
<1>2. Promises'
    BY <1>1 DEF Promises, AllScored
<1>. QED BY <1>1, <1>2 DEF Written

LEMMA ScoredStep == ScoredInv /\ [AgreementNext]_vars => ScoredInv'
<1>. SUFFICES ASSUME ScoredInv, [AgreementNext]_vars PROVE ScoredInv'
    OBVIOUS
<1>1. CountedInv' /\ Voters'
    BY CountedStep, VotersStep DEF ScoredInv
<1>2. ASSUME UNCHANGED <<phase, chains>>, UNCHANGED calcVars, UNCHANGED scoreVars
      PROVE  Promises' /\ Written'
    BY <1>2 DEF ScoredInv, Promises, Promised, Written, OneWriter, OnOneChain, ColumnsSayTheRow, calcVars,
                scoreVars
<1>3. ASSUME NEW v \in Validator, NEW h \in Ledger, Deliver(v, h) PROVE Promises' /\ Written'
  <2>1. UNCHANGED <<phase, chains>>
      BY <1>3 DEF Deliver, HandleValidation, HandleFlagValidation, FlagValidationThrows,
                  CountAndSave, UpdateLedgers, chainVars
  <2>2. UNCHANGED calcVars /\ UNCHANGED scoreVars
      BY <1>3 DEF Deliver, HandleValidation, HandleFlagValidation, FlagValidationThrows
  <2>. QED BY <1>2, <2>1, <2>2
<1>4. ASSUME NEW v \in Validator, NEW h \in Ledger, BallotSaved(v, h) \/ ValidatorSaved(v, h)
      PROVE  Promises' /\ Written'
  <2>1. UNCHANGED <<phase, chains>>
      BY <1>4 DEF BallotSaved, ValidatorSaved, CountAndSave, UpdateLedgers, chainVars
  <2>2. UNCHANGED calcVars /\ UNCHANGED scoreVars
      BY <1>4 DEF BallotSaved, ValidatorSaved
  <2>. QED BY <1>2, <2>1, <2>2
<1>5. ASSUME Calculate PROVE Promises' /\ Written'
  <2>1. ASSUME NEW settled \in SUBSET DOMAIN ledgersByHash, StartCalculation(settled)
        PROVE  Promises' /\ Written'
      BY <2>1, StartPromises
  <2>2. ASSUME NEW h \in Ledger, LayLedger(h) PROVE Promises' /\ Written'
      BY <2>2, LayPromises
  <2>3. ASSUME NEW c \in DOMAIN chains, LookUpChain(c) PROVE Promises' /\ Written'
      BY <2>3, LookUpPromises
  <2>4. ASSUME NEW p \in toScore, ScoreValidator(p[1], p[2]) \/ ScoreAbsent(p[1])
        PROVE  Promises' /\ Written'
      BY <2>4, ScorePromises
  <2>5. ASSUME NEW p \in DOMAIN scored, UpdateScores(p) PROVE Promises' /\ Written'
      BY <2>5, UpdatePromises
  <2>6. ASSUME NEW kept \in SUBSET DOMAIN chains, EndCalculation(kept)
        PROVE  Promises' /\ Written'
      BY <2>6, EndPromises
  <2>. QED BY <1>5, <2>1, <2>2, <2>3, <2>4, <2>5, <2>6, ReturnPromises, AbsentPromises
           DEF Calculate
<1>6. ASSUME NEW p \in DOMAIN validationsByPublicKey, Purge(p) PROVE Promises' /\ Written'
    BY <1>2, <1>6 DEF Purge, chainVars
<1>7. ASSUME NEW v \in Validator, Revoke(v) PROVE Promises' /\ Written'
    BY <1>2, <1>7 DEF Revoke, chainVars
<1>8. ASSUME AgreementEnd \/ UNCHANGED vars PROVE Promises' /\ Written'
    BY <1>2, <1>8 DEF AgreementEnd, vars, chainVars, calcVars, scoreVars
<1>9. Promises' /\ Written'
    BY <1>3, <1>4, <1>5, <1>6, <1>7, <1>8 DEF AgreementNext, HandlersResume
<1>. QED BY <1>1, <1>9 DEF ScoredInv

(* Which row a validator has that shares its main key with no other: the   *)
(* one its own promise wrote, over the ledgers of its chain.  All members  *)
(* of the chains that were looked up are active, and not absent.           *)
Accounts(r, v) ==
    LET by == hourly[r].by
    IN  /\ r \in DOMAIN hourly
        /\ by[1] = v
        /\ by[2] \in DOMAIN chains
        /\ v \in chains[by[2]].validators
        /\ ledgersOf(hourly[r]) = chains[by[2]].ledgers

Accounted ==
    /\ phase = "scoring" =>
          \A c \in DOMAIN chains \ agreementChains : chains[c].validators \subseteq activeSigningKeys
    /\ step = "absent" => \A p \in toScore : p[1] \notin activeSigningKeys
    /\ phase = "scoring" =>
          \A v \in activeSigningKeys : Alone(v) =>
              \/ \E p \in toScore : p[1] = v /\ p[2] # Absent
              \/ \E main \in {v, MainKey[v]} : Accounts(<<main, reported_at>>, v)

AccountedInv == ScoredInv /\ NoVoteForgotten /\ Accounted

(* A promise writes the row of its own validator, and no other's.          *)
LEMMA SaveAccounts ==
    ASSUME AccountedInv, NEW p \in toScore, NEW main \in {p[1], MainKey[p[1]]}, NEW row,
           SavesRow(p, main, row), p[2] # Absent => ledgersOf(row) = chains[p[2]].ledgers
    PROVE  Accounted'
<1>. USE DEF AccountedInv, ScoredInv, CountedInv
<1>1. /\ UNCHANGED <<phase, chains, reported_at, step, agreementChains, activeSigningKeys>>
      /\ toScore' = toScore \ {p}
      /\ phase = "scoring" /\ Promised(p)
    BY DEF SavesRow, SaveRow, chainVars, AgreementInv, Cycle, AllScored, Promises
<1>2. /\ <<main, reported_at>> \in DOMAIN hourly' /\ hourly'[<<main, reported_at>>] = row
      /\ \A r \in DOMAIN hourly : r \in DOMAIN hourly'
                                  /\ (r # <<main, reported_at>> => hourly'[r] = hourly[r])
    BY DEF SavesRow, SaveRow, Put
<1>3. step \in {"chains", "absent"} /\ p[1] \in Validator /\ row.by = p
    BY <1>1 DEF AgreementInv, Cycle, Scores, Promise, SavesRow
<1>4. ASSUME NEW v \in activeSigningKeys, Alone(v)
      PROVE  \/ \E q \in toScore' : q[1] = v /\ q[2] # Absent
             \/ \E m \in {v, MainKey[v]} : Accounts(<<m, reported_at>>, v)'
  <2>1. v \in Validator
      BY DEF AgreementInv, Scores
  <2>2. CASE p[1] = v
    <3>1. step = "chains"
        BY <1>3, <2>2 DEF Accounted
    <3>2. p[2] \in DOMAIN chains /\ v \in chains[p[2]].validators
        BY <1>1, <2>2, <3>1 DEF Promised
    <3>3. p[2] # Absent
        BY <3>2 DEF AgreementInv, ListTyped, TypeOK, Absent
    <3>4. Accounts(<<main, reported_at>>, v)'
        BY <1>1, <1>2, <1>3, <2>2, <3>2, <3>3 DEF Accounts
    <3>. QED BY <2>2, <3>4
  <2>3. CASE p[1] # v
    <3>1. main \notin {v, MainKey[v]}
        BY <1>3, <1>4, <2>1, <2>3 DEF Alone
    <3>2. ASSUME NEW m \in {v, MainKey[v]}, Accounts(<<m, reported_at>>, v)
          PROVE  Accounts(<<m, reported_at>>, v)'
      <4>1. <<m, reported_at>> \in DOMAIN hourly' /\ hourly'[<<m, reported_at>>] = hourly[<<m, reported_at>>]
          BY <1>2, <3>1, <3>2 DEF Accounts
      <4>. QED BY <1>1, <3>2, <4>1 DEF Accounts
    <3>3. CASE \E q \in toScore : q[1] = v /\ q[2] # Absent
        BY <1>1, <2>3, <3>3
    <3>. QED BY <1>1, <1>4, <3>2, <3>3 DEF Accounted
  <2>. QED BY <2>2, <2>3
<1>5. \A v : Alone(v)' <=> Alone(v)
    BY <1>1 DEF Alone, OnOneChain
<1>. QED BY <1>1, <1>4, <1>5 DEF Accounted

LEMMA AccountedStep == AccountedInv /\ [AgreementNext]_vars => Accounted'
<1>. SUFFICES ASSUME AccountedInv, [AgreementNext]_vars PROVE Accounted'
    OBVIOUS
<1>. USE DEF AccountedInv, ScoredInv, CountedInv
<1>1. ASSUME UNCHANGED <<phase, step, chains, agreementChains, activeSigningKeys, toScore,
                         reported_at, hourly>>
      PROVE  Accounted'
    BY <1>1 DEF Accounted, Accounts, Alone, OnOneChain
<1>2. ASSUME NEW v \in Validator, NEW h \in Ledger, Deliver(v, h) PROVE Accounted'
  <2>1. UNCHANGED <<phase, chains>>
      BY <1>2 DEF Deliver, HandleValidation, HandleFlagValidation, FlagValidationThrows,
                  CountAndSave, UpdateLedgers, chainVars
  <2>2. UNCHANGED calcVars /\ UNCHANGED scoreVars
      BY <1>2 DEF Deliver, HandleValidation, HandleFlagValidation, FlagValidationThrows
  <2>. QED BY <1>1, <2>1, <2>2 DEF calcVars, scoreVars
<1>3. ASSUME NEW v \in Validator, NEW h \in Ledger, BallotSaved(v, h) \/ ValidatorSaved(v, h)
      PROVE  Accounted'
  <2>1. UNCHANGED <<phase, chains>>
      BY <1>3 DEF BallotSaved, ValidatorSaved, CountAndSave, UpdateLedgers, chainVars
  <2>2. UNCHANGED calcVars /\ UNCHANGED scoreVars
      BY <1>3 DEF BallotSaved, ValidatorSaved
  <2>. QED BY <1>1, <2>1, <2>2 DEF calcVars, scoreVars
<1>4. ASSUME NEW settled \in SUBSET DOMAIN ledgersByHash, StartCalculation(settled)
      PROVE  Accounted'
    BY <1>4 DEF StartCalculation, CalculateChainsFromLedgers, Accounted
<1>5. ASSUME NEW h \in Ledger, LayLedger(h) PROVE Accounted'
  <2>1. phase' = "updating" /\ phase = "updating" /\ step' = step
      BY <1>5 DEF LayLedger, calcVars, UpdateChains, ExtendChain, PassLedger, JumpChain, AddNewChain,
                  IsNext
  <2>2. step = "chains"
      BY <2>1 DEF Promises
  <2>. QED BY <2>1, <2>2 DEF Accounted
<1>6. ASSUME ChainsReturned PROVE Accounted'
  <2>1. /\ phase = "updating" /\ agreementChains' = DOMAIN chains /\ chains' = chains
        /\ UNCHANGED <<step, activeSigningKeys>>
      BY <1>6 DEF ChainsReturned, ReturnChains
  <2>2. step = "chains" /\ activeSigningKeys = {}
      BY <2>1 DEF Promises
  <2>. QED BY <2>1, <2>2 DEF Accounted
<1>7. ASSUME NEW c \in DOMAIN chains, LookUpChain(c) PROVE Accounted'
  <2>1. /\ phase = "scoring" /\ c \in agreementChains
        /\ agreementChains' = agreementChains \ {c}
        /\ activeSigningKeys' = activeSigningKeys \cup chains[c].validators
        /\ toScore' = toScore \cup (chains[c].validators \X {c})
        /\ UNCHANGED <<phase, chains, reported_at, step, hourly>>
      BY <1>7 DEF LookUpChain, chainVars, scoreVars
  <2>2. step # "absent" /\ c # Absent
      BY <2>1 DEF Promises, AgreementInv, ListTyped, TypeOK, Absent
  <2>3. \A d \in DOMAIN chains \ agreementChains' : chains[d].validators \subseteq activeSigningKeys'
      BY <2>1 DEF Accounted
  <2>4. ASSUME NEW v \in activeSigningKeys', Alone(v)
        PROVE  \/ \E p \in toScore' : p[1] = v /\ p[2] # Absent
               \/ \E main \in {v, MainKey[v]} : Accounts(<<main, reported_at>>, v)
    <3>1. CASE v \in activeSigningKeys
        BY <2>1, <2>4, <3>1 DEF Accounted
    <3>2. CASE v \in chains[c].validators
      <4>1. <<v, c>> \in toScore'
          BY <2>1, <3>2
      <4>. QED BY <2>2, <4>1
    <3>. QED BY <2>1, <3>1, <3>2
  <2>. QED BY <2>1, <2>2, <2>3, <2>4 DEF Accounted, Accounts, Alone, OnOneChain
<1>8. ASSUME NEW p \in toScore, ScoreValidator(p[1], p[2]) PROVE Accounted'
  <2>1. /\ SavesRow(p, main_key(p[1]), Score(p[1], p[2]))
        /\ main_key(p[1]) \in {p[1], MainKey[p[1]]}
      BY <1>8, ScoreValidatorSavesRow DEF main_key
  <2>2. ledgersOf(Score(p[1], p[2])) = chains[p[2]].ledgers
    <3>1. chains[p[2]].ledgers \subseteq Ledger
        BY <1>8, ScoreValidatorSaves DEF AgreementInv, ListTyped, TypeOK, Chain
    <3>. QED BY <3>1 DEF ledgersOf, Score, setIntersection, setDifference
  <2>. QED BY <2>1, <2>2, SaveAccounts
<1>9. ASSUME NEW p \in toScore, ScoreAbsent(p[1]) PROVE Accounted'
  <2>1. PICK row \in Row : SavesRow(<<p[1], Absent>>, MainKey[p[1]], row)
      BY <1>9, ScoreAbsentSavesRow
  <2>2. PICK q \in toScore : q = <<p[1], Absent>>
      BY <1>9, ScoreAbsentSaves
  <2>3. SavesRow(q, MainKey[q[1]], row) /\ q[2] = Absent
      BY <2>1, <2>2
  <2>. QED BY <2>3, SaveAccounts
<1>10. ASSUME NEW p \in DOMAIN scored, UpdateScores(p) PROVE Accounted'
    BY <1>1, <1>10 DEF UpdateScores, chainVars
<1>11. ASSUME QueryAbsent PROVE Accounted'
  <2>1. /\ toScore' \subseteq absentValidators \X {Absent} /\ toScore = {} /\ phase = "scoring"
        /\ UNCHANGED <<phase, chains, reported_at, agreementChains, activeSigningKeys, hourly>>
      BY <1>11 DEF QueryAbsent, AllScored, chainVars, scoreVars
  <2>2. \A p \in toScore' : p[1] \notin activeSigningKeys
      BY <2>1 DEF absentValidators
  <2>. QED BY <2>1, <2>2 DEF Accounted, Accounts, Alone, OnOneChain
<1>12. ASSUME NEW kept \in SUBSET DOMAIN chains, EndCalculation(kept) PROVE Accounted'
    BY <1>12 DEF EndCalculation, PurgeChains, Accounted
<1>13. ASSUME NEW p \in DOMAIN validationsByPublicKey, Purge(p) PROVE Accounted'
    BY <1>1, <1>13 DEF Purge, chainVars, calcVars, scoreVars
<1>14. ASSUME NEW v \in Validator, Revoke(v) PROVE Accounted'
    BY <1>1, <1>14 DEF Revoke, chainVars, calcVars, scoreVars
<1>15. CASE AgreementEnd \/ UNCHANGED vars
    BY <1>1, <1>15 DEF AgreementEnd, vars, chainVars, calcVars, scoreVars
<1>16. CASE Calculate
    BY <1>4, <1>5, <1>6, <1>7, <1>8, <1>9, <1>10, <1>11, <1>12, <1>16 DEF Calculate
<1>. QED BY <1>2, <1>3, <1>13, <1>14, <1>15, <1>16 DEF AgreementNext, HandlersResume

(* A row a validator's own promise wrote misses no ledger that it signed   *)
(* before the calculation: no vote is forgotten.                           *)
LEMMA AloneIsValidated ==
    ASSUME AccountedInv, phase = "scoring", AllScored,
           NEW c \in DOMAIN chains, NEW v \in chains[c].validators, Alone(v)
    PROVE  \E main \in {v, MainKey[v]} :
              /\ <<main, reported_at>> \in DOMAIN hourly
              /\ \A h \in chains[c].ledgers :
                    Signed(v, h) => h \in hourly[<<main, reported_at>>].validated
<1>. USE DEF AccountedInv, ScoredInv, CountedInv
<1>1. v \in activeSigningKeys
    BY DEF Accounted, AllScored
<1>2. PICK main \in {v, MainKey[v]} : Accounts(<<main, reported_at>>, v)
    BY <1>1 DEF Accounted, AllScored
<1>. DEFINE row == hourly[<<main, reported_at>>]
<1>3. /\ <<main, reported_at>> \in DOMAIN hourly
      /\ row.by[1] = v /\ row.by[2] \in DOMAIN chains
      /\ v \in chains[row.by[2]].validators
      /\ ledgersOf(row) = chains[row.by[2]].ledgers
    BY <1>2 DEF Accounts
<1>4. row.by[2] = c
    BY <1>3 DEF Alone, OnOneChain
<1>5. row.by[2] # Absent
    BY <1>3 DEF AgreementInv, ListTyped, TypeOK, Absent
<1>6. hour = reported_at + 1 /\ reported_at \in Nat
    BY DEF AgreementInv, Cycle, Scores
<1>7. ASSUME NEW h \in chains[c].ledgers, Signed(v, h) PROVE h \in row.validated
  <2>1. h \in row.validated \/ h \in row.missed
      BY <1>3, <1>4 DEF ledgersOf
  <2>2. ASSUME h \in row.missed PROVE FALSE
    <3>1. <<v, h>> \in DOMAIN heard /\ heard[<<v, h>>] < hour /\ heard[<<v, h>>] \in Nat
        BY <1>7 DEF Signed, AgreementInv, Memory
    <3>2. heard[<<v, h>>] > reported_at
        BY <1>3, <1>5, <2>2, <3>1 DEF NoVoteForgotten
    <3>. QED BY <1>6, <3>1, <3>2
  <2>. QED BY <2>1, <2>2
<1>. QED BY <1>3, <1>7

(* When a calculation closes an hour, every validator that is on a chain   *)
(* has a row; that of a validator on one chain, with a main key of its     *)
(* own, has as validated whatever of the chain it signed; and the columns  *)
(* of a main key with one writer say what its rows say.                    *)
THEOREM AllAreScored == AgreementSpec => []EveryoneIsScored
<1>1. AgreementInit => AccountedInv
  <2>. SUFFICES ASSUME AgreementInit PROVE AccountedInv
      OBVIOUS
  <2>1. CountedInv
      BY CountedInit
  <2>2. Voters
      BY DEF AgreementInit, Init, Voters, Voted
  <2>3. Promises /\ Written /\ NoVoteForgotten /\ Accounted
      BY DEF AgreementInit, Init, Promises, Written, NoVoteForgotten, Accounted
  <2>. QED BY <2>1, <2>2, <2>3 DEF ScoredInv, AccountedInv
<1>2. AccountedInv /\ [AgreementNext]_vars => AccountedInv'
    BY ScoredStep, NoneForgottenStep, AccountedStep DEF AccountedInv, ScoredInv, CountedInv
<1>3. AccountedInv => EveryoneIsScored
  <2>. SUFFICES ASSUME AccountedInv, step = "absent", AllScored PROVE EveryoneIsScored
      BY DEF EveryoneIsScored
  <2>1. phase = "scoring"
      BY DEF AccountedInv, ScoredInv, CountedInv, AgreementInv, Cycle, ListTyped, TypeOK, Promises
  <2>2. \A r \in DOMAIN hourly : r[2] = reported_at /\ OneWriter(r[1]) => ColumnsSayTheRow(r)
      BY <2>1 DEF AccountedInv, ScoredInv, Written, AllScored
  <2>3. ASSUME NEW c \in DOMAIN chains, NEW v \in chains[c].validators
        PROVE  \E main \in {v, MainKey[v]} :
                  /\ <<main, reported_at>> \in DOMAIN hourly
                  /\ Alone(v) => \A h \in chains[c].ledgers :
                         Signed(v, h) => h \in hourly[<<main, reported_at>>].validated
    <3>1. v \in activeSigningKeys
        BY <2>1 DEF AccountedInv, Accounted, AllScored
    <3>2. \E main \in {v, MainKey[v]} : <<main, reported_at>> \in DOMAIN hourly
        BY <2>1, <3>1 DEF AccountedInv, ScoredInv, Written, AllScored
    <3>. QED BY <2>1, <3>2, AloneIsValidated
  <2>. QED BY <2>2, <2>3 DEF EveryoneIsScored
<1>. QED BY <1>1, <1>2, <1>3, PTL DEF AgreementSpec
=============================================================================
