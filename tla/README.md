# Validator History Service: a verification project

TLA+ models of the validator history service, the TLC configurations that check
them on small instances, and proofs, checked by TLAPS, for instances of any
size. The models are translations of `src/src/**`; paths below are relative to
the repository.

## 1. The system

The service listens to validators of a PostFiat/XRPL network and publishes how
reliable they are. Three processes (crawler, connection manager, API) share one
PostgreSQL database. Each is a single Node process: code between two `await`s is
atomic, and whatever waits for the database or the network interleaves with
everything else.

| Component | State | Operations | Talks to |
|---|---|---|---|
| chain tracker (`connection-manager/chains.ts`) | ledgers by hash, chains, chain number | `updateLedgers`, `calculateChainsFromLedgers`, `purgeChains` | called by the agreement; writes `validators.chain` |
| agreement (`connection-manager/agreement.ts`, `shared/database/agreement*.ts`) | recorded validations, last known index, start of the hour; tables `hourly_agreement`, `daily_agreement`, score columns of `validators` | `handleValidation`, `calculateAgreement` (hourly), `purge` | chain tracker, tables |
| connections (`connection-manager/connections.ts`, `peer-selection.ts`, `shared/database/connectionHealth.ts`) | sockets, retry timers, heartbeats; table `connection_health` | `createConnections` (hourly), socket handlers | peers, tables `crawls`, `networks` |
| key rotation (`shared/database/index.ts`, jobs of `connection-manager/manifests.ts`) | tables `manifests`, `validators` | `saveManifest`, `saveValidator`, `jobs()` (five-minute) | agreement reads `revoked` and `master_key` |
| domain verification (`connection-manager/manifests.ts`, `shared/utils/domain-verification.ts`) | set of manifests in flight; verification columns | `handleManifest`, copy into `validators` | validators' web servers |
| stream messages (`connection-manager/wsHandling.ts`) | recent ledger hashes, fees | dispatch of messages | agreement, manifests, amendments |
| amendments (`wsHandling.ts`, `shared/database/amendments.ts`) | last flag+1 ledger handled; tables `amendments_*` | stream, backtrack, ledger entry | rippled |
| crawler (`crawler/*.ts`) | keys seen, connections; tables `crawls`, `location` | `crawl` (every two minutes), `locate` (daily) | peers, MaxMind |
| API caches (`api/routes/v1/{validator,nodes,amendments,daily-report}.ts`) | rows and time of each list; lists of votes by network, enabled amendments | request handlers, refreshes when a cache is a minute old | tables the other processes write |
| network look-up (`api/routes/v1/get-network.ts`) | greatest id; table `networks` | `getNetworkOrAdd`, `updateMaxNetwork` (hourly) | a crawl of its own for unknown networks |
| other API routes (`api/**`) | none | a query and a response | tables |

`connection-manager/index.ts` crawls every network, then awaits
`startConnections`, then starts the manifest jobs and the agreement: the first
`createConnections` gates everything that recurs.

### What is hard, and what correct means

- **Chain tracker.** Ledgers arrive in any order, are held back ten seconds, fork
  at one index and go missing. Correct: a score that is not marked incomplete is
  counted over an unbroken run of indexes; chains never move back; no ledger the
  network agreed on falls between the branches of `updateChains`.
- **Agreement.** `handleValidation` and `calculateAgreement` interleave at every
  await. Correct: each validation reaches the tracker once; a recorded vote is
  never counted as missed although votes are purged after two hours; no ledger
  counts in two hours; everyone on a chain has a row and columns that agree with
  it, through key rotations.
- **Connections.** Handlers, retries, heartbeats and unawaited queries race.
  Correct: the table says what the sockets are; a cycle ends whatever peers do;
  a peer that vanished is dropped.
- **Key rotation.** Four queries of each save and eight of each run of the jobs
  interleave, some fail. Correct: the revoked columns converge, rows of old keys
  go and stay away, rows of current keys stay.
- **Domain verification.** The same manifest comes from every node at once.
  Correct: no stale result overwrites a newer one; recovery within two cycles;
  an abandoned domain loses its mark.
- **Amendments.** The stream, the backtrack and the ledger entry write one row, in
  an order of their own. Correct: only what the ledger enabled is shown as
  enabled, and it stays so; the row is right once the last change was handled; what
  the stream missed is captured by a backtrack (it is not: section 3).
- **Crawler.** Parallel branches share sets; rows are inserted and updated by
  queries that nobody waits for. Correct: each node is asked once (the entry node,
  whose key is not known before it answers, a second time at most, as a peer) and none
  is left out; connections are counted exactly; every node gets a network.
- **Network look-up.** Check and insert are apart. Correct: ids are unique, answers
  name networks that exist, known nodes are not added again.
- **API caches.** Requests and refreshes overlap; rows come back older than those
  they replace; queries fail. Correct: a list that is told was the list of the table
  not long ago; a validator with a ballot is found, in the cache or beside it; an amendment
  that is enabled is shown so and never again as one in voting, and none is missing.

`PROJECT.json` lists each hazard at its line, with the properties about it.

## 2. Modules

`Chains` <- `Agreement` (which extends it and drives it); `SnapshotReads` <-
`ListCache` (which implements it). `Connections`, `Revocations`,
`DomainVerification`, `Amendments`, `Crawler`, `NetworkLookup`, `ListCache` and
`VoteCache` share only rows with the others, and what others write to them is an
action of the environment there (`Revoke` in `Agreement`, `SaveConnections` in
`NetworkLookup`, `Change` in `ListCache`, `Enable` and `ChangeBallots` in
`VoteCache`: that an enabled amendment stays so there is `EnabledStays` of
`Amendments`). Each `XProofs` extends `X`; `AgreementProofs` holds the proofs about
`Chains` too, which `Agreement` extends, and `ManifestsProofs` those about the two
modules of `manifests.ts`, `DomainVerification` and `Revocations`. `MC*` modules give the constants values, one
`.cfg` per question; `MCManifests` instantiates both of the latter, and a behaviour of
it is about one of them while the other rests.

### Chains

`ledgersByHash`, `chains` and `index` are the fields of the class; `list` is the
local array of the hourly calculation, `chainOf` the `chain` column. `since` and
`cast` are history. One action per branch of `updateChains` (`ExtendChain`,
`PassLedger`, `JumpChain`, `AddNewChain`), taken for the least index of the list,
one for the beginning of the calculation, one for `purgeChains` with
`saveValidatorChains`. Time is the number of calculations started: "ten seconds
old" becomes a choice of the settled entries that must contain those an hour old,
and "updated less than an hour ago" a choice of kept chains. `SaveValidatorChains`
lets the concurrent updates of a validator on two chains end either way, and lets
`getLists` miss a network.

### Agreement

An action is what runs between two awaits together with the query that the next
await is for. `handling` holds the validations whose handler awaits the ballot or
the validators row; `toScore` and `scored` are the promises of
`calculateValidatorAgreement` and `scoreAbsentValidators` before and after their
hourly row. Rows hold sets of ledgers where the table has their sizes, so that
properties can say which ledgers were counted. `agreement_window` stands for the
24-hour, 30-day and daily scores: each is computed from the rows of a window,
and the window's rows are kept in place of the sums. `BadVersion` are validators
whose `server_version` makes `decodeServerVersion` throw after their validation
was recorded.

`TrackerSpec` is the refinement: `Agreement`, which decides when the tracker's
operations run and with what, implements `Chains!Spec`, in which validations are
handed over once, never during the loop, and purges follow scoring.

### Connections

`sock` has the sockets that exist with what their handlers know, `writes` the
issued and uncommitted queries of each row, `timers` the reconnections. A socket
moves through `Open`, the answer of the query of its open handler
(`OpenIsDuplicate`, `OpenSubscribes`), `Ping`/`Pong`/`TerminateDead`, and `Close`,
which is the close handler with the error handler before it. `Commit` takes any
write of a row first. `Restart` ends the process.

### Revocations

One action per query of `saveManifest`, `saveValidator` and `jobs()`;
`SaveQueryFails`, `ValidatorQueryFails` and `JobQueryFails` are their caught errors. `OwnerOf` gives the
master of a signing key, `NoKey` is the signing key of a manifest that revokes its
master key.

### DomainVerification

One manifest. Timestamps are ages of the row, so that time needs no bound. `call`
holds the copies being handled with the row each read (`read`, `stale`): what a
call saves follows from what it read, as in the code. `Tick` does not pass the
limits `Lag` (how late in a cycle the job comes to this manifest) and `Duration`
(how long a verification may take).

### Amendments

The row of one amendment on one network. Time is counted in ledgers that close:
`flag` and `pos` are the quotient and the remainder of the index of the validated
ledger, and the flag+1 ledgers, the only ones with EnableAmendment transactions,
are those with `pos = 1`. `CloseLedger` closes one, with a transaction that the
rules of the network allow. `StreamLedger` is the first copy of a flag+1 ledger,
which marks it as seen before it is fetched (`ProcessEnableAmendment`,
`ProcessFails`). `toVisit` is what is left of the window of a running backtrack;
`StartBacktrack` starts one, at most `Interval` ledgers after the last, and
`BacktrackLedger` handles the next of it. `BacktrackFails` is a request that throws,
and ends the backtrack. `SaveAmendmentsStatus` is the hourly look at the ledger
entry. `sinceChange`, `failed` and `captured` are history.

`EnableAmendmentIn` is what the handler finds in an answer, which depends on the
version of the API its client asked for. The clients of the stream and of the ledger
entry set `RIPPLED_API_V1` (`wsHandling.ts:238`, `418`). That of the backtrack
(`wsHandling.ts:330`) sets none, and xrpl 4.2.5 then asks for version 2
(`DefaultVersion`), whose expanded transactions have their fields in `tx_json`; the
handler looks for `transaction.TransactionType` and finds nothing. So a backtrack of
the model, as of the code, goes through its ledgers and writes nothing.

### Crawler

`crawls` has the latest crawler of each network: the fields `seen`
(`publicKeysSeen`) and `connections`, the requests that await an answer
(`pending`), and as history how often each node was asked and who answered.
`Answer`, `Refuse` and `Fail` are the outcomes of a request; the last one of a
crawl also issues the queries of `saveConnections`, since nothing is awaited in
between. `writes` holds the queries of `saveNode` and `saveConnections` that are
not committed, `named` the `networks` column. Two nodes are in range of each other
if `RangeOf` agrees. Not modelled: two rounds that overlap (a round takes seconds
of two minutes) and a `wrong network` error, which nothing throws.

### NetworkLookup

`lookup` has the requests with the step whose answer they await. `SaveConnections`
is any crawl, that of `addNode` included. The id of the seeded network is a name;
it is 0 here, so that `MaxId` is what `updateMaxNetwork` computes. `QueryMaxNetwork`
and `UpdateMaxNetwork` are the two halves of that function; `raced` records that
the second one put back a maximum that was out of date. `LIKE` of a UNL is equality
here: no site is part of another's name. The first query of `updateMaxNetwork`,
sent when the module is loaded, is taken to be answered before a node has answered
the first request.

### ListCache and SnapshotReads

The caches of `validator.ts`, `nodes.ts`, `daily-report.ts` and `cacheInfo` of
`amendments.ts` share nothing and have one shape, so `kind` is the one a behaviour
is about, and each keeps its own handlers: only the validators refresh while they
are empty, await the network or UNL of the parameter, and look in the table for
what the cache lacks (`FindValidator`; that of the nodes, `FindNode`, fails, since
both tables of its join have the column `public_key` it asks for). `request` has
what each request awaits. `Evaluate` is the moment the database reads for a refresh
and `Refresh` the moment its answer arrives, dates the cache and answers the
request; `RefreshFails` leaves rows and date. `table` says of a row whether it is
listed, or stored and hidden (a revoked validator, a node not crawled for an hour).
List and look-up of the validators are joined with the ballots
(`validator.ts:111`, `217`), which `agreement.ts:283` saves only with a validation
that precedes a flag ledger: a validator without one is `unvoted`, and neither has
it. `docs/API.md:122` and `:160` do not mention that such a validator is left out of
the list and answered with 404.
Times are ages in ticks; `MaxDelay` bounds what one answer of the database takes.
`recent`, `outage` and `gone` are history.

`SnapshotReads` is the promise: an answer is one of the listings of the last
`limit` ticks, or a query has just failed. Its `limit` is `CACHE_INTERVAL_MILLIS`
with the time of the query, and for the validators that of the queries for the
parameter. `ListCache` implements it (`ReadsSpec`), with `listing` and `told` as
functions of its variables. A cache that was just loaded is empty and counts as
fresh, so the empty list is among the first listings. Requests for one row ask by
the key the list shows.

### VoteCache

One amendment on one network. `cacheVote` has its presence in the two lists,
`fresh` stands for `cacheVote.time`, `cacheEnabled` is the shared set, `refresh`
the running refreshes of this network, each two queries that are evaluated and then
answered. Several queries of `getVotingAmendments` are one: only the ballots decide
whether an amendment is in the list. `AnswerNetworks` starts a refresh, dates the
cache and answers the request from what is in it: after a time without requests
the first answer is as old as that time, where `docs/API.md` says 60 seconds.
`Ends` is the end of the process: nothing catches a query that fails in a refresh,
nor the second answer of `handleAmendmentVote` about a network that is not cached
(`amendments.ts:527` lacks a return). `kept`, `owed` and `shown` are history.

## 3. Runs

| Run | Shows | Bounds, and why they are enough |
|---|---|---|
| `MCChains` | chains without gaps, forward only, nothing falls through | 4 validators, 4 ledgers: two forks at index 1, one ledger that joins the two chains, a gap before the last; 3 calculations, so that a ledger can be held back, laid and purged; `MaxIndex` 0, so that the number wraps |
| `MCAgreement` | refinement of `Chains`, votes kept, nothing twice, all scored | 3 signing keys of 2 masters with a rotation, 2 ledgers of which one precedes a flag ledger, 3 calculations, 2 handlers at once, one version that throws |
| `MCHealed` | **fails**: two chains race for one row | 4 validators, 3 ledgers, 1 calculation |
| `MCConnections` | the table is truthful but for three named races; cycles end; silent peers go | 1 node, 3 sockets, 2 cycles, 1 retry, 2 closings, 1 restart. A row belongs to one URL and sockets of different URLs share nothing but `finding` |
| `MCManifests` | revoked columns settle, old keys leave; no flapping, recovery in two cycles, abandoned domains | Revocations: 2 manifests of one master, with a key each, so that one supersedes the other in either order of their saves, and each may be saved again and again; 2 runs of the jobs, 1 validation, 1 failure. Rows of different masters share nothing. A third manifest, a revocation of the master, takes liveness beyond five minutes; the theorems hold for any. Verification: 2 copies at once, a cycle of 3 parts of which the job and a verification take one each, re-verification after two cycles (6 parts) and stale after 8, the order the intervals of the code have |
| `MCRevoked` | **fails**: a purged key returns unrevoked | 2 manifests, 1 run of the jobs, 3 validations, no failure |
| `MCAmendments` | enabled is shown as enabled and stays so; the stream captures | a flag ledger every third one, so that a ledger is flag, flag+1 or another; `Interval` of three flag ledgers, as 10 to 15 minutes to each (`wsHandling.ts:338`) are in a backtrack interval; 11 flag ledgers and 3 transactions, so that a majority is got, lost or held for the 5 it takes, and leaves the window |
| `MCBacktrack` | **fails**: backtracks capture nothing | as `MCAmendments`. With `DefaultVersion` 1, a client that asks for the version the handler reads, TLC finds no violation |
| `MCCrawler` | each node asked once (the entry twice at most) and none left out; exact counts; nodes get networks | 2 networks that share a triangle, one with a UNL that refuses a node of it, an address that one of two reporters hides, a node on another port; any number of rounds |
| `MCNetworks` | unique ids, answers that exist, known nodes not added | 3 requests for 4 URLs: the seeded one, two of one node, two nodes of one UNL, one without UNL; any number of hourly updates |
| `MCListCache` | every list cache implements `SnapshotReads`; validators with a ballot are found | 2 rows, 1 of which changes, 2 requests and the first refresh, so that three refreshes overlap; interval and delay of one tick each, so that a cache expires while its answer is under way |
| `MCVoteCache` | enabled is shown and stays out of voting; nothing dropped but by overlapping refreshes | 1 request beside the first one, 2 refreshes at once, any number of changes, outages and restarts: a third refresh meets the same shared set |

The runs that fail are disagreements between the code and what a document or a
comment says of it; each is a finding in `PROJECT.json` with the line it
contradicts.

`MCChains` and `MCAgreement` check deadlock: `EndOfRun` allows a behaviour to stop
only between calculations, at the bound on the hours. `MCConnections` likewise at
the bound on the cycles.

### What a property leaves out

- `HealthIsTruthful` excepts the URLs in `raced`: those where a second socket of
  the URL closed while the first was subscribed, a socket closed while its open
  handler waited for its query, or two writes committed out of order. These are
  real races of the code; the property shows that there are no others. The first
  needs no rare timing: `isNodeConnectedByIp` looks for the host name in `ws_url`,
  the URL of an entry node has `ws.` for `rpc.`, and so every cycle opens a
  duplicate whose close marks the live URL as disconnected (`connections.ts:183`).
- `RevocationsSettle` is about the manifests. In `Revocations` a manifest inserted
  after the second query of `updateManifestRevocations` leaves two unrevoked, each
  superseding the other, and the rows of both keys are revoked and purged
  (`manifests.ts:459`); the row of the current one comes back with its next
  validation. `UnrotatedAreKept` (section 5) bounds this to validators that have
  changed or revoked their key.
- `RecoversWithinTwoCycles` allows for the lag of the job and the time of one
  verification, which the comment it cites does not count.
- `CapturedByBacktrack` is what `wsHandling.ts:373` says, but for behaviours in which
  a backtrack was cut short. It fails (`MCBacktrack`): the stream does not see the
  ledger of a majority, every backtrack visits it and none writes the row.
  `CapturedByStream` is what is left of it: a change that the stream missed is missed
  until another one comes that it handles, and then nothing of it remains.
- `BallotedIsFound` is about validators that have voted. One that is stored and has no
  ballot is answered with "not found", as the join has it.
- `TypeOK` of `Chains` bounds the number of a chain; two living chains may have the
  same name once the number has wrapped (`chains.ts:155`). `TypeOK` of `Connections`
  bounds the retries; a retry may open a socket beside a live one, which
  `HealthIsTruthful` counts among its races. No property of `VoteCache` bounds the age
  of the votes: `EnabledIsShown` supposes that requests keep coming.
- `EveryPeerIsCrawled` excepts nodes that a node hides. If it is the first to
  report them, they are in `publicKeysSeen` and are never asked.
- `NodesGetNamed` says that a node gets a network, not which: `removeConnection`
  is given a host where the map has keys and removes nothing (`crawl.ts:176`), and
  a node on a foreign port is in `connections` too. A node two networks report has
  the network of the crawl that ended last.
- `IdsAreUnique` excepts `raced`; `KnownNodesAreNotAdded` speaks of networks known
  before the request came. The seeded network's UNL is `rpc`, so a node with a UNL
  is known by its row only.
- `NothingIsDropped` promises one of the two lists unless refreshes overlapped. Of two that overlap, one may have read the amendment as
  not enabled and leaves it out of voting because the other has found it enabled
  (`amendments.ts:333`); if its lists come last, the amendment is in neither until
  the next refresh.
- `ReadsSpec` excuses answers in the `MaxDelay` ticks after a failed query, when the
  rows of any earlier refresh are told.
- `NoLedgerCountedTwice` excepts a ledger that two validators voted for after the
  calculation that counted it had begun. Two that are on no chain and sign that
  late, in the span of awaits of the calculation, make a chain of their own an hour
  later, and they, and whoever joins that chain, have the ledger in two hours
  (`chains.ts:88`: the entry of a ledger that was laid is made anew). It takes four
  validators, so in the three of `MCAgreement` the property says that no ledger is
  counted twice at all; the theorem covers the rest.
- `EveryoneIsScored` promises a row to everyone on a chain. That the row has every
  ledger the validator signed is promised to the `Alone`: validators on one chain
  whose main key is shared with no other key. `MCHealed` shows what becomes of one on
  two chains, and two keys of one master write the same row. That the columns say
  the row is promised to rows of `OneWriter`: a key on one chain, or keys of one
  master that follow each other `Orderly`, a new one voting only after the old one
  was revoked, as in `MCAgreement`.
- `NoVoteForgotten` assumes what `TwoHours`, `InTime` and `Prompt` say: validations
  of one ledger come within seconds of each other, and no handler waits an hour.

## 4. Fairness

Safety runs use no fairness. `Connections!FairSpec`: queries are answered
(`Commit`, `OpenIsDuplicate`, `OpenSubscribes`, `Cycle`), timers fire (`Ping`,
`TerminateDead`, `Reconnect`), `handshakeTimeout` and the close timeout of the
library pass (`HandshakeFails`, `CloseCompletes`). Nothing is assumed of peers:
`Open`, `PeerCloses` and `PeerVanishes` have no fairness, and a peer that has
vanished answers no ping. `Revocations!RevocationsFairSpec`: queries are answered, and every
run of the jobs is followed by another one, by `setInterval`; validations and new
manifests may come or not. `DomainVerification!FairSpec`: time passes and
verifications end; the domain may change or not. `Crawler!CrawlerSpec`: requests
end (by the timeout of six seconds), queries commit, and rounds follow each other
by `setInterval`; nodes need not answer. `VoteCache!FairSpec`: answers of the
database come while it is reachable, time passes (`Expire`) and the process is
restarted (`Restart`); that the database is reachable, the process runs and
requests come from some time on are premises of `EnabledIsShown`. All of it is
weak fairness, of which `MCManifests` takes that of its two modules together:
a single-threaded event loop gets to every ready callback.

## 5. Proofs

`AgreementProofs` proves of `Chains`, for all sets of validators, ledgers and
networks, any number of hours and any indexes:

- `TypeCorrect`: `Spec => []TypeOK`
- `CompleteChainsAreGapless`: `Spec => []CompleteMeansGapless`
- `ForwardOnly`: `Spec => ChainsGoForward`
- `AgreedArePlaced`: `Spec => AgreedLedgersArePlaced`

and of `Agreement`, for all sets of validators and validations, any rotation of keys,
any number of hours and of handlers at once:

- `RunsTheTracker`: `AgreementSpec => TrackerSpec`, the refinement of `Chains`
- `ScoredChainsAreGapless`: `AgreementSpec => []CompleteMeansGapless`
- `AgreementTypeCorrect`: `AgreementSpec => []AgreementTypeOK`
- `NoneForgotten`: `AgreementSpec => []NoVoteForgotten`
- `CountedOnce`: `AgreementSpec => []NoLedgerCountedTwice`
- `AllAreScored`: `AgreementSpec => []EveryoneIsScored`

`AmendmentsProofs` proves, for any distance of flag ledgers, any time a majority
must be held beyond the window of four, and any number of ledgers and changes:

- `TypeCorrect`: `Spec => []TypeOK`
- `OnlyEnabledIsShown`: `Spec => []ShownEnabledIsEnabled`
- `EnabledForGood`: `Spec => EnabledStays`
- `StreamCaptures`: `Spec => []CapturedByStream`

The other modules are described below; every safety property that a passing run
checks is stated by a theorem.

### Chains

Assumed is `ChainsAssumption`, the types of the constants. Two CHOOSEs of the
module, the longest and the first of a set of chains, are shown to exist from the
well-foundedness of the naturals (`LeastNatural`, `FirstIsOne`, `LongestIsOne`).

The type invariant is not inductive alone: `longestOf` picks a chain of a set only
if the lengths have a maximum, and the types allow infinitely many chains.
`Bounded` (one bound on the index every chain has reached) is kept by every action,
so the invariant is `ListTyped == TypeOK /\ Bounded`. `CompleteMeansGapless` speaks
of chains marked incomplete too (their indexes are distinct and not before
`since`), and needs one more conjunct in `GaplessInv`: `since` is at most
`current + 1`, so that the first ledger laid after a purge is the first one
counted. The step proof has one lemma for the branches that lay a ledger on a
chain (`LaidGapless`): laid at `current + 1` it fills the next index, laid after a
jump the chain is marked. `ForwardOnly` and `AgreedArePlaced` follow from the
invariant by one case per action and branch of `updateChains`.

### Agreement

Assumed are the types of the constants, that a master key that has signing keys to
rotate is no signing key itself, and that a window has at least one hour; `InTime`,
`Prompt` and `TwoHours` say in the actions what is assumed of time. `AgreementInv`
has these parts:

- `Memory`: the map of recent validations is a part of the history `heard`; what was
  handed to the tracker was heard; a handler that awaits its ballot has not handed
  its validation over.
- `Forgotten`: what purge has taken from the map is two hours old between
  calculations, three within one. So a validation that is delivered, and not in the
  map, was never heard (`DeliveredIsNew`), which makes `UpdateLedgers` of this module
  `HandOver` of `Chains`; that is the whole of the refinement (`StepTracks`), as every
  other action changes the tracker by one of its own operations or not at all.
- `Cycle`: where the calculation is goes with the phase of the tracker, and outside
  scoring no promise is left, so chains never change under one.
- `Recent`: the validations of a ledger that waits are of the last hour, of one on the
  list or on a chain of the last two; between calculations chains hold no ledger.
  `Forgotten` says three hours and `Recent` two: no missed vote was ever heard
  (`ScoredAreRemembered`). Were the chains purged late, or the votes early, the two
  would meet.
- `FewLedgers`: one number bounds the ledgers of every chain; without it the longest
  set of `networkLedgers` need not exist, and the rows of the absent have no type.
- `Scores`: promises are for chains that exist, rows for hours that have begun.
- `Handed`: the history `handed` dates exactly the votes the tracker was handed.

`CountedInv` adds what `NoLedgerCountedTwice` rests on: the votes of an entry were
handed over and more than one of them puts a ledger on the list (`Entries`), and a
ledger that waits again after it was laid or counted has only votes that came later
(`Recounted`). So a second count has two late voters.

`ScoredInv` follows the promises of a calculation through its awaits, for the rows
and columns: who is on a chain has voted, and in order a key has not voted before its
predecessor was revoked (`Voters`); a promise scores a member of a chain that was
looked up, or one absent key of those that follow each other (`Promises`); everyone
looked up has a row or a promise, and a row that has one writer is what the pending
promise holds or what the columns say (`Written`). The crux is `WriterIsAlone`: two
promises that write one row of one writer are the same promise, since the row of a
master that was scored for a key on a chain has no other key there or among the
absent. `AccountedInv` adds which row accounts for which `Alone` validator
(`Accounted`: its row holds the ledgers of its chain); with `NoVoteForgotten`, a
ledger it signed is not among the missed of that row, and is validated. The theorem
bounds the finding of `MCHealed`: ledgers are lost only for validators on two chains
or two keys of one master.

### Amendments

Assumed is `AmendmentsAssumption`: a backtrack ends before the next flag ledger,
starts at most three flag ledgers after the last one, and a majority is held for
more than four flag ledgers before it enables: the window of a backtrack is four
(`wsHandling.ts:338`), an hour, and `AMENDMENT_MAJORITY_TIME` is longer.

`TypeOK` needs `RecentWindow`: a backtrack that is not over started with this flag
or the one before, so what it has yet to visit is recent. `EnabledLast` says that
nothing follows the transaction that enables and that the majority before it is
out of every window that may still be visited; this gives the two properties of
what is shown, since no ledger that is still fetched can take the mark away; the
lemmas behind them hold in any version of the API, so they do not rest on a backtrack
that writes nothing. For `CapturedByStream` the invariant is `CapturedInv`: with
`DatesEnabled`, that only an enabling transaction leaves a date, the row of the last
change does not depend on the row before it (`HandledRight`), a backtrack writes
nothing (`BacktrackWritesNothing`), and the ledger entry writes only where an enabling
was missed, which is not captured.

### Connections

`ConnectionsProofs` proves `ConnectionsTypeCorrect` and `TruthfulHealth`
(`HealthIsTruthful`), for any nodes and endpoints, any number of sockets, retries,
cycles, restarts and uncommitted writes. Assumed are the types of the constants.

`HealthIsTruthful` speaks of rows whose writes are committed and is not inductive:
`ConnectionsInv` says of every row what it will say when its writes are committed in
order, `Final`, which is that of its last write, and that this is so exactly if a
subscribed socket of the URL exists (`LastWrite`), unless a race has spoiled it.
Three lemmas about sequences (`AppendedWrite`, `RemovedWrite`, `IssuedWrite`) show
that a new write becomes the last, and that committing one keeps `Final` unless it
overtakes another, which is one of the races. `Stages` ties how far the open handler
of a socket is to the state of the socket: only one that closed under its handler is
closed and known, and its URL is in `raced`.

### Network look-up

`NetworkLookupProofs` proves `TypeCorrect`, `AnswersExist`
(`AnsweredNetworkExists`), `UniqueIds` (`IdsAreUnique`) and `KnownAreNotAdded`
(`KnownNodesAreNotAdded`), for any finite set of requests and any URLs, nodes and
UNLs. Assumed is `NetworkLookupAssumption`.

That no id exceeds the number of requests is not inductive over the ids alone: each
request takes at most one number, so `Counted` bounds every number, also those in
flight, by `Taken`, the cardinality of the requests that have taken one, which a
step can only raise. `Distinct`, for the unique ids, says of networks and of
numbers about to be inserted that they differ and are at most `maxNetwork`, unless
`raced`. `KnownInv` says that what made a node known when its request came is still
in the tables, so that one of the two look-ups finds it.

### Crawler

`CrawlerProofs` proves `TypeCorrect` (`CrawlerTypeOK`), `AskedOnce`
(`OncePerCrawl`), `NoneLeftOut` (`EveryPeerIsCrawled`) and `ExactCounts`
(`CountsAreExact`), for any graph, hidden addresses, ports, ranges and networks.
Assumed is `CrawlerAssumption`, and with `HostAssumption` that no host is a public
key. Crawls share only the rows, so the invariant is about one crawl, `Right`: who
is asked was seen (`AtMostOnce` counts the requests by that), whom an answer named
was seen, and who was seen was asked or left out (`SeenWereAsked`), and the
connections are exactly those with an end that has answered (`Counted`), which
gives the counts whatever the order of the answers.

`NamesStay` and `RoundNames` are the safety half of `NodesGetNamed`: a node that has a
network keeps one, whatever the order in which queries commit, and a node that has
its row while no crawl of the round has ended has a network once a crawl that found
it has ended and its queries are committed, in that round and in every later one. The
invariant is `NamedOrAboutToBe`: a crawl that has ended has named the nodes it found,
or the update is still on its way.

### Domain verification

`ManifestsProofs` proves of `DomainVerification` `TypeCorrect`, `RecoversInTime`
(`RecoversWithinTwoCycles`) and `NoFlap` (`NoFlapping`), for any cycle,
re-verification interval, staleness threshold, lag and duration in the order that
`DomainVerificationAssumption` gives them. `OneCall`: at most one copy is in
flight, and it has read the row as it still is; `NoFlapping` follows from this. The
rest of the invariant is a clock: `JobInTime` bounds when in its cycle the job is
done, `Denied` says that an answer that denies was given before the domain
recovered, and `Pending` and `Waiting` bound the time since the recovery in each
state of the call and of the job.

### Key rotation

`ManifestsProofs` proves of `Revocations`, for any manifests, masters and keys, any
number of validations, failures and overlapping runs of the jobs:

- `RevocationsTypeCorrect`: `RevocationsSpec => []RevocationsTypeOK`
- `LatestStaysCurrent`: `RevocationsSpec => []RevokedBySuccessor`; a manifest is marked
  revoked only if a newer one of its master was received
- `UnrotatedAreKept`: `RevocationsSpec => []OnlyRotatedAreRevoked`; the row of a
  validator that never changed or revoked its key is not revoked, and so not purged
- `SettledStays` and `OneRunRepairs`: while no query fails and no new manifest comes
  (`QuietStep`), columns of `manifests` that are right stay right, and one run of the
  jobs makes them right from any state of the tables, whatever other runs, saves of
  saved manifests and validations come between its queries
- `OldStayAway` and `OneRunPurges`: while moreover no validation comes with a key that
  a later manifest has replaced (`SilentStep`), rows of old keys that are gone stay
  away, and one run of the jobs purges them all, from any state of the tables and
  whatever interleaves with its queries

Assumed is `RevocationsAssumption`: a signing key has one master and is in one
manifest, as `rippled`, which refuses a manifest with a key already in use, sees to.
`RevocationsInv` says of a save under way that what it found is so (`FoundSuccessors`:
if it is about to insert its manifest as revoked, there is a newer one, and the keys
it is about to revoke have been given away) and of rows that their master key is that
of their key, or none (`OwnMaster`), without which `RevokeSuperseded` could revoke a
stranger. What was received stays so unless a save fails (`StaysReceived`), so no
step takes a successor away. `SettledStays` and `OneRunRepairs` are the safety half of
`RevocationsSettle`, which TLC checks: that the jobs do run, and that saves end, is
fairness. They need `OnlySavedAgain`, that what the saves under way have found of
newer manifests is so: a save that began before the last manifest was inserted may
still write an outdated column, which the next run of the jobs repairs.

`OldStayAway` and `OneRunPurges` are the safety half of `OldKeysLeave` in the same
way. They take one more hypothesis, `OneManifestPerSeq`: two manifests of one master
have different numbers. The jobs compare numbers only, so that of two with the same
number both are current and each supersedes the key of the other. A run leaves, query
by query, the columns of the old manifests right (`Settled`), the rows whose own
manifest is saved revoked (`SavedOldAreRevoked`), all rows of old keys revoked
(`OldAreRevoked`), and none of them (`NoneOutdated`); `SilentKeeps` says that no step
of anybody else undoes what is reached. A row is old for the jobs
(`Outdated`) only if its key is in fact replaced (`OutdatedIsRetired`), which takes
`OwnMaster`. TLC has checked what `LatestStaysCurrent` to `OneRunPurges` say on instances
of up to three manifests beforehand; they are in no run.

### List caches

`ListCacheProofs` proves, for any rows, requests, interval and delay, that the
caches implement `SnapshotReads` (`CachesAnswerSnapshots`: `Spec => ReadsSpec`),
with `TypeCorrect` and `BallotedAreFound` (`BallotedIsFound`). Assumed is
`ListCacheAssumption`. The invariant relates what is cached and what is under way
to the history: a cache of age `a` within the interval was a listing at most
`a + MaxDelay` ticks ago (`CacheSaid`), the answer a refresh holds was one within
the time it has waited (`AnswerSaid`), and a request that awaits the queries for
its parameter began with a fresh cache or a failed query (`ParamsSaid`). An answer
that overtakes a newer one keeps `CacheSaid`, since it is bound by its own delay.
`GoneIsKnown` ties the history of a requested row to the table.

### Vote cache

`VoteCacheProofs` proves `TypeCorrect`, `ShownStaysOut` (`NotBackInVoting`) and
`NoneIsDropped` (`NothingIsDropped`), for any number of requests and of refreshes
that overlap. The invariant follows a refresh through its queries: what it found
enabled is in `cacheEnabled` once it asks for the ballots (`Noted`), which only
grows (`ShownIsNoted`); what held all along it has found (`KeptIsFound`); one that
is `alone` shares `cacheEnabled` with nobody (`AloneIsAlone`), and what was found
enabled is so (`EnabledForGood`).

### Not proved

Every invariant and every action property of the passing runs is proved, and both
refinements. Model-checked only is liveness: `CyclesEnd`, `VanishedPeersAreDropped`,
`RevocationsSettle`, `OldKeysLeave`, `AbandonedIsDowngraded`, `NodesGetNamed` and
`EnabledIsShown` are beyond the proof system, which does not reason about ENABLED,
which fairness is defined by. The properties of `MCHealed`, `MCRevoked` and `MCBacktrack` fail.

## 6. Plan

Done: `Chains`, `Agreement`, `Connections`, `Revocations`, `DomainVerification`,
`Amendments`, `Crawler`, `NetworkLookup`, `ListCache` with `SnapshotReads` and
`VoteCache`, and the proofs of their safety. What would come next:

1. Safety halves of the other liveness properties, as `OneRunPurges` is that of
   `OldKeysLeave` and `RoundNames` that of `NodesGetNamed`: what a run of the jobs
   leaves of an abandoned domain (`AbandonedIsDowngraded`), and what a round of
   pings leaves of peers that vanished (`VanishedPeersAreDropped`).
2. `Scores`: the algorithm of `agreement-score.ts` with its coverage thresholds,
   against a definition over the hours of the window.

## 7. Not modelled

Signatures and parsing (of manifests, TOMLs and messages), the wording of rows
and responses, API routes that only query, the schema and its migrations,
geolocation, configuration and logging: they have no state of their own beyond a
row written once. The sums and coverage thresholds of `agreement-score.ts`, the
percentages of `calculateConsensus` and the filters of lists by network or UNL are
computed from rows anew each time and are left out. `updateUnls` and `updateHardCodedUnls` set columns no other
component acts on, nor do `amendments_info` and the script that loads it from
files. Failed queries are modelled in `Revocations` and `Amendments`, where the code
claims to repair them, and in the caches, where it answers all the same. A calculation that takes longer than an hour, and
runs of `createConnections` that overlap, are not modelled: seconds of work in an
hour.
