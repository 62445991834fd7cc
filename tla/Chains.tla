------------------------------- MODULE Chains -------------------------------
(***************************************************************************)
(* The chain tracker of the connection manager:                            *)
(* src/src/connection-manager/chains.ts.                                   *)
(*                                                                         *)
(* Validations are grouped by ledger hash as they arrive.  Once per hour   *)
(* the ledgers that more than one validator voted for, and that were first *)
(* seen more than ten seconds before, are laid in index order on chains: a *)
(* chain is a set of validators with the ledgers they have been validating *)
(* since the last purge.  The agreement score of a validator is counted    *)
(* over the ledgers of its chain (module Agreement).                       *)
(*                                                                         *)
(* Time is counted in calculations, which setInterval starts once per      *)
(* hour: first_seen and updated hold the number of calculations started    *)
(* before.  The hourly loop over the sorted list is one step per ledger;   *)
(* it is synchronous code, so no other action is enabled in phase          *)
(* "updating".  Phase "scoring" is the span of awaits between the          *)
(* calculation and purgeChains, in which validations keep arriving.        *)
(***************************************************************************)
EXTENDS Naturals, FiniteSets

CONSTANTS
    Validator,      \* signing keys
    Ledger,         \* ledger hashes
    IndexOf,        \* the ledger_index signed in the validations of a hash
    Network,        \* the rows of the networks table
    Unl,            \* the signing keys on the list the node publishes
    MaxIndex,       \* 10000 in getNextChainID
    MaxHours,       \* bound on the number of calculations
    Votes           \* the validations, as <<key, hash>>, that can come in

ASSUME ChainsAssumption ==
    /\ IndexOf \in [Ledger -> Nat]
    /\ Unl \subseteq Validator
    /\ MaxIndex \in Nat
    /\ MaxHours \in Nat
    /\ Votes \subseteq Validator \X Ledger

VARIABLES
    ledgersByHash,  \* the Map of ledgers not yet laid on a chain
    list,           \* the ledgers being laid: the local list of the calculation
    chains,         \* the array of chains, each under its creation number
    index,          \* chains created so far: the source's index before it wraps
    chainOf,        \* the chain column of the validators table
    hour,           \* calculations started
    phase,          \* where the hourly cycle is
    since,          \* history: the index that follows the chain's last purge
    cast            \* history: the validations handed to updateLedgers

chainVars == <<ledgersByHash, list, chains, index, chainOf, hour, phase, since, cast>>

-----------------------------------------------------------------------------
(* Data. *)

LedgerEntry == [validations : SUBSET Validator, first_seen : Nat]

Chain == [first : Nat, current : Nat, validators : SUBSET Validator,
          updated : Nat, ledgers : SUBSET Ledger, incomplete : BOOLEAN]

(* A chain is saved under a network's name or under its own chain.<number>. *)
ChainId == ({"network"} \X Network) \cup ({"chain"} \X (0..MaxIndex))
NoChain == <<"none", 0>>

overlaps(set1, set2) == set1 \cap set2 # {}

(* getNextChainID counts 0..10000 and starts again.  Mutant: it wraps one  *)
(* number late.                                                            *)
WrapsLate(n) == <<"chain", n % (MaxIndex + 2)>>
getNextChainID(n) == <<"chain", n % (MaxIndex + 1)>>

(* The head of the chains left by sort(sortChainLength): the longest, and  *)
(* among equals the first of the array, which keeps creation order.        *)
length(c) == chains[c].current - chains[c].first
longestOf(S) == CHOOSE c \in S : \A d \in S : length(c) > length(d) \/ (length(c) = length(d) /\ c <= d)
firstOf(S) == CHOOSE c \in S : \A d \in S : c <= d

-----------------------------------------------------------------------------
(* Validations arriving. *)

(* A validation by v of ledger h: its entry is made if the map has none. *)
UpdateLedgers(v, h) ==
    /\ phase # "updating"
    /\ ledgersByHash' =
         [g \in DOMAIN ledgersByHash \cup {h} |->
            IF g # h THEN ledgersByHash[g]
            ELSE IF h \in DOMAIN ledgersByHash
                 THEN [ledgersByHash[h] EXCEPT !.validations = @ \cup {v}]
                 ELSE [validations |-> {v}, first_seen |-> hour]]
    /\ cast' = cast \cup {<<v, h>>}
    /\ UNCHANGED <<list, chains, index, chainOf, hour, phase, since>>

-----------------------------------------------------------------------------
(* The hourly calculation. *)

(* More than one validator voted for it. *)
Agreed(entry) == Cardinality(entry.validations) > 1

(* settled is the set of entries more than ten seconds old.  An entry that *)
(* was there at the previous calculation, an hour before, has settled.     *)
CalculateChainsFromLedgers(settled) ==
    /\ phase = "idle"
    /\ hour < MaxHours
    /\ \A h \in DOMAIN ledgersByHash \ settled : ledgersByHash[h].first_seen = hour
    /\ list' = [h \in {g \in settled : Agreed(ledgersByHash[g])} |-> ledgersByHash[h]]
    /\ ledgersByHash' = [h \in DOMAIN ledgersByHash \ settled |-> ledgersByHash[h]]
    /\ hour' = hour + 1
    /\ phase' = "updating"
    /\ UNCHANGED <<chains, index, chainOf, since, cast>>

(* The loop takes the sorted list from its front.  The order of two        *)
(* ledgers of one index is that of their arrival: either.                  *)
IsNext(h) ==
    /\ phase = "updating"
    /\ h \in DOMAIN list
    /\ \A g \in DOMAIN list : IndexOf[h] <= IndexOf[g]

Taken(h) == list' = [g \in DOMAIN list \ {h} |-> list[g]]

Overlapping(h) == {c \in DOMAIN chains : overlaps(chains[c].validators, list[h].validations)}

AtNextIndex(h) == {c \in Overlapping(h) : IndexOf[h] = chains[c].current + 1}

AtThisIndex(h) == {c \in Overlapping(h) : IndexOf[h] = chains[c].current}

Holding(h) == {c \in DOMAIN chains : h \in chains[c].ledgers}

addLedgerToChain(h, chain) ==
    [chain EXCEPT !.ledgers = @ \cup {h},
                  !.validators = @ \cup list[h].validations,
                  !.current = IndexOf[h],
                  !.updated = list[h].first_seen]

(* The ledger follows the last one of a chain of its validators. *)
ExtendChain(h) ==
    /\ IsNext(h)
    /\ AtNextIndex(h) # {}
    /\ LET c == longestOf(AtNextIndex(h))
       IN  chains' = [chains EXCEPT ![c] = addLedgerToChain(h, @)]
    /\ Taken(h)
    /\ UNCHANGED <<ledgersByHash, index, chainOf, hour, phase, since, cast>>

(* A chain of its validators already has a ledger at this index, or is     *)
(* ahead of it, or a chain holds this very ledger: nothing is recorded.    *)
(* Mutants of Behind: a jump needs two ledgers between; a jump may go back.*)
JumpsTwoOnly(h, c) == IndexOf[h] > chains[c].current + 2
JumpsBack(h, c) == IndexOf[h] # chains[c].current + 1
Behind(h, c) == IndexOf[h] > chains[c].current + 1

PassLedger(h) ==
    /\ IsNext(h)
    /\ AtNextIndex(h) = {}
    /\ \/ AtThisIndex(h) # {}
       \/ Overlapping(h) # {} /\ ~Behind(h, firstOf(Overlapping(h)))
       \/ Overlapping(h) = {} /\ Holding(h) # {}
    /\ Taken(h)
    /\ UNCHANGED <<ledgersByHash, chains, index, chainOf, hour, phase, since, cast>>

(* Ledgers were missed: the chain jumps over them and is incomplete until  *)
(* its next purge.  Mutant: the jump is not marked.                        *)
Unmarked(chain) == chain
MarkedIncomplete(chain) == [chain EXCEPT !.incomplete = TRUE]

JumpChain(h) ==
    /\ IsNext(h)
    /\ AtNextIndex(h) = {}
    /\ AtThisIndex(h) = {}
    /\ Overlapping(h) # {}
    /\ LET c == firstOf(Overlapping(h))
       IN  /\ Behind(h, c)
           /\ chains' = [chains EXCEPT ![c] = addLedgerToChain(h, MarkedIncomplete(@))]
    /\ Taken(h)
    /\ UNCHANGED <<ledgersByHash, index, chainOf, hour, phase, since, cast>>

AddNewChain(h) ==
    /\ IsNext(h)
    /\ Overlapping(h) = {}
    /\ Holding(h) = {}
    /\ chains' =
         [c \in DOMAIN chains \cup {index} |->
            IF c # index THEN chains[c]
            ELSE [first |-> IndexOf[h], current |-> IndexOf[h],
                  validators |-> list[h].validations, updated |-> list[h].first_seen,
                  ledgers |-> {h}, incomplete |-> TRUE]]
    /\ since' = [c \in DOMAIN chains \cup {index} |-> IF c # index THEN since[c] ELSE IndexOf[h]]
    /\ index' = index + 1
    /\ Taken(h)
    /\ UNCHANGED <<ledgersByHash, chainOf, hour, phase, cast>>

UpdateChains(h) == ExtendChain(h) \/ PassLedger(h) \/ JumpChain(h) \/ AddNewChain(h)

(* The list is done; the awaits of calculateAgreement follow. *)
ReturnChains ==
    /\ phase = "updating"
    /\ DOMAIN list = {}
    /\ phase' = "scoring"
    /\ UNCHANGED <<ledgersByHash, list, chains, index, chainOf, hour, since, cast>>

-----------------------------------------------------------------------------
(* purgeChains, the last step of the hour. *)

(* A chain is dropped an hour after the first validation of its last       *)
(* ledger.  One that was not extended since the previous calculation, or   *)
(* by a ledger that calculation held back only, is that old for sure.      *)
MayKeep(c) == chains[c].updated + 1 >= hour

(* Mutant: the ledgers stay.                                               *)
KeepsLedgers(chain) == [chain EXCEPT !.incomplete = FALSE]
Purged(chain) == [chain EXCEPT !.ledgers = {}, !.incomplete = FALSE]

(* What saveValidatorChains may write for a chain: the name of a network   *)
(* whose list it could fetch, if the chain has a listed validator.  Each   *)
(* network gets the one list the node publishes; the last fetched wins.    *)
SavedIds(c) ==
    {getNextChainID(c)}
    \cup {id \in {"network"} \X Network : overlaps(chains[c].validators, Unl)}

(* The updates of two chains that share a validator race. *)
SaveValidatorChains(kept) ==
    LET members == UNION {chains[c].validators : c \in kept}
        ids == UNION {SavedIds(c) : c \in kept}
    IN  \E id \in [kept -> ids], last \in [members -> kept] :
          /\ \A c \in kept : id[c] \in SavedIds(c)
          /\ \A v \in members : v \in chains[last[v]].validators
          /\ chainOf' = [v \in Validator |-> IF v \in members THEN id[last[v]] ELSE chainOf[v]]

PurgeChains(kept) ==
    /\ phase = "scoring"
    /\ \A c \in kept : MayKeep(c)
    /\ chains' = [c \in kept |-> Purged(chains[c])]
    /\ since' = [c \in kept |-> chains[c].current + 1]
    /\ SaveValidatorChains(kept)
    /\ phase' = "idle"
    /\ UNCHANGED <<ledgersByHash, list, index, hour, cast>>

-----------------------------------------------------------------------------

Init ==
    /\ ledgersByHash = [h \in {} |-> {}]
    /\ list = [h \in {} |-> {}]
    /\ chains = [c \in {} |-> {}]
    /\ index = 0
    /\ chainOf = [v \in Validator |-> NoChain]
    /\ hour = 0
    /\ phase = "idle"
    /\ since = [c \in {} |-> {}]
    /\ cast = {}

(* handleValidation hands a validation over once. *)
HandOver(v, h) == <<v, h>> \in Votes \ cast /\ UpdateLedgers(v, h)

(* The bound on the hours ends a behaviour here; anywhere else a state      *)
(* without a step is a deadlock.                                           *)
EndOfRun == hour = MaxHours /\ phase = "idle" /\ UNCHANGED chainVars

Next ==
    \/ \E v \in Validator, h \in Ledger : HandOver(v, h)
    \/ \E settled \in SUBSET DOMAIN ledgersByHash : CalculateChainsFromLedgers(settled)
    \/ \E h \in Ledger : UpdateChains(h)
    \/ ReturnChains
    \/ \E kept \in SUBSET DOMAIN chains : PurgeChains(kept)
    \/ EndOfRun

Spec == Init /\ [][Next]_chainVars

-----------------------------------------------------------------------------
(* Properties. *)

TypeOK ==
    /\ DOMAIN ledgersByHash \subseteq Ledger
    /\ ledgersByHash \in [DOMAIN ledgersByHash -> LedgerEntry]
    /\ DOMAIN list \subseteq Ledger
    /\ list \in [DOMAIN list -> LedgerEntry]
    /\ DOMAIN chains \subseteq 0..(index - 1)
    /\ chains \in [DOMAIN chains -> Chain]
    /\ index \in Nat
    /\ chainOf \in [Validator -> ChainId \cup {NoChain}]
    /\ hour \in Nat
    /\ phase \in {"idle", "updating", "scoring"}
    /\ since \in [DOMAIN chains -> Nat]
    /\ cast \subseteq Validator \X Ledger
    /\ phase # "updating" => DOMAIN list = {}

IndexesOf(c) == {IndexOf[h] : h \in chains[c].ledgers}

(* A chain that is not marked incomplete counts one ledger for each index  *)
(* since its last purge, so its ledger count is the number of ledgers the  *)
(* chain closed: jumps over missed ledgers, forks at one index, ledgers    *)
(* that arrive late and chains carried from hour to hour never make a      *)
(* complete score out of a gap or of two ledgers of one index.             *)
CompleteMeansGapless ==
    \A c \in DOMAIN chains :
        /\ IndexesOf(c) \subseteq since[c]..chains[c].current
        /\ \A g, h \in chains[c].ledgers : IndexOf[g] = IndexOf[h] => g = h
        /\ ~chains[c].incomplete => since[c]..chains[c].current \subseteq IndexesOf(c)

(* A chain that stays goes forward only: its current index never falls, no *)
(* validator leaves it, and its ledgers leave together, in purgeChains.    *)
ChainsGoForward ==
    [][\A c \in DOMAIN chains \cap DOMAIN chains' :
          /\ chains'[c].current >= chains[c].current
          /\ chains[c].validators \subseteq chains'[c].validators
          /\ phase # "scoring" => chains[c].ledgers \subseteq chains'[c].ledgers]_chainVars

(* No ledger that more than one validator voted for falls through          *)
(* updateChains: once it is off the list it is held by a chain, or one of  *)
(* its validators is on a chain that has reached its index.                *)
AgreedLedgersArePlaced ==
    [][\A h \in DOMAIN list \ DOMAIN list' :
          \E c \in DOMAIN chains' :
             \/ h \in chains'[c].ledgers
             \/ /\ overlaps(chains'[c].validators, list[h].validations)
                /\ chains'[c].current >= IndexOf[h]]_chainVars
=============================================================================
