# canopy-rpc-mock in TLA+

canopy-rpc-mock prebuilds deterministic blockchain data for one or more chains
and serves each of them over HTTP, so that an indexer can be tested without a
node. This directory models the parts of it that decide something, checks them
with TLC on small instances, and proves the central properties with TLAPS for
every value of the constants.

Run everything from this directory: `tlc -config X.cfg M` for a row of the table
of runs, `tlapm M.tla` for a proof module.

## The system

| Component | State | Operations | Talks to |
|---|---|---|---|
| Chain builder (`internal/chain/mock_data.go`) | seven Go maps keyed by height (txs, events, blocks, dexBatches, nextDexBatches, states, certs), `lockedBatch`, validators and other fixed data | `newMockChain`: set up, genesis snapshot, then one loop over the heights that fills the maps | calls the generators; read by the blobs and the routes |
| Closed-form ledger (`internal/gen/ledger.go`) | none; five loops over the accounts per snapshot | `SnapshotBalancesAt`, `residualIndex`, `exchangeRate`, `rawValue` | called once per height by the builder |
| Lifecycle, counts and mixes (`lifecycle.go`, `txgen.go`, `eventgen.go`, `profile.go`) | none | unstaking height, transaction and event counts and labels | called by the builder and the blobs |
| Seeding and distributions (`distributions.go`, `ratetable.go`) | none | hash-derived seeds, samplers | called by all generators |
| Indexer blobs (`internal/chain/indexer_blob.go`) | none; reads blocks and states | `BuildIndexerBlob(s)` | called by the indexer-blobs route |
| Routes (`internal/rpc/server_routes.go`) | none | 27 read-only handlers, `paginate`, `buildPage`, `parseHeightReq` | read a finished chain; answer HTTP clients |
| Server (`mockserver/server.go`) and process (`main.go`) | listeners, goroutines | `New`: build, listen, start; main's loop and its empty `select` | host ports, HTTP clients |
| Mutable ledger state (`internal/chain/mock_state.go`) | accounts, validators, pools, delayed events | begin and end of block, batch orders, deposits, withdrawals | nothing in the program calls it |

### What is hard in it

- *Order inside the loop.* A certificate is built by reading back what earlier
  statements of the same iteration stored, and it is built twice: once for
  `certs`, at the end, and once for every `certResults` transaction, at the
  beginning, when the maps do not hold the height yet.
- *Bookkeeping across heights.* `TotalTxs` adds to the block before,
  `latestHeight` counts the blocks.
- *Unsigned and floating-point arithmetic.* The residual account gets an
  unsigned difference; evidence names `height - 1`; pages are int products.
- *Deltas.* A reader reassembles balances from blobs that hold only what
  changed since the height before, while requests are retried, answered out of
  order and served by a process that was restarted.
- *Seven maps, three ways to name a height.* A reader puts one height together
  from several routes, some of which read the query string and some only the
  body, and which disagree about height 0 and about a height that is unknown.
- *Shares of a pool.* A dex batch moves funds through two pools, in unsigned
  integers, with a total kept beside a list of points and a removal whose error
  is ignored.
- *One process, many chains.* Chains start one after the other, on ports other
  processes (and the server's own temporary listeners) may hold, and a panic
  ends all of them.

Concurrency among handlers is harmless: `New` builds the chain before it opens
a listener and no handler writes to it. So a handler is one action in the models.

## Modules

| Module | Models | Correspondence |
|---|---|---|
| `Archive` | what a chain promises its readers | abstract: heights are committed in order, each coherent and linked to its parent, never to change; handed out complete or not at all |
| `MockChain` | `newMockChain` | the maps are functions on the heights present; `pc` is the next statement; every store of the loop is an action. Sampled values are nondeterministic choices from what the profile can draw; the accounts of transactions and events are named by the number they are picked with, as the code picks them from one stream; a hash is the thing hashed |
| `MockChainProof` | - | theorems about `MockChain` |
| `Ledger` | `SnapshotBalancesAt` for the heights 0, 1, 2, ... | one action per iteration of each loop; raw values are exact fractions over `Denominator`; the noise of an active account is a choice from `Noises` |
| `MCLedger` | - | the base values TLC uses |
| `LedgerProof` | - | theorems about `Ledger` |
| `IndexerFeed` | the indexer-blobs route, `BuildIndexerBlobs`, and an indexer | the server is `up`/`head`; a worker is idle, has asked, or has an answer; `rows` is the indexer's table. `DeltaIndexerBlobs` and the indexer are external and follow delta_test.go, indexer_blob_test.go and required.md |
| `FeedProof` | - | theorems about `IndexerFeed` |
| `Paging` | `paginate` and `buildPage` | operators; items are their indexes; ints wrap at `IntLimit`; a slice outside the list panics |
| `Listing` | a reader's walk over the pages of one list | one action per page that is asked for, in turn or out of turn |
| `MCListing` | - | five-bit ints for TLC |
| `ListingProof` | - | theorems about `Listing` |
| `Routes` | the handlers that read a height, with the accessor each one calls, `parseHeightReq`, and a reader that assembles a height or walks a list | one action per handler; a request names its height in the query string, in the body or not at all; the server restarts with another number of blocks between requests |
| `MCRoutes` | - | lengths of the lists for TLC |
| `RoutesProof` | - | theorems about `Routes` |
| `Fleet` | main and `New`'s listener handling | `temporary`, `bound` and `serving` are the listeners the process holds; other processes move ports at any time |
| `MCFleet` | - | values of `-chains` for TLC |
| `FleetProof` | - | theorems about `Fleet` |
| `MockState` | `beginBlock`, `endBlock` and the three calls that apply a dex batch | one action per call, with any batch; pools by their role; the pool's points are a list, as in the code; `RemovePoints` is external, and which of an address's entries it takes from is a choice |
| `MockStateProof` | - | theorems about `MockState` |
| `FoldLemmas` | - | lemmas the proof modules share: induction, sums, folds of sequences, products and quotients |

`Listing` and `Routes` both use `Paging`: `Listing` for every page number and size
on one list that stays, `Routes` for lists that belong to heights of a server
that restarts. `MockChain` composes with `Archive` by refinement (`A == INSTANCE Archive WITH
...`): a height is committed when the last of its entries, the certificate, is
stored. `IndexerFeed` starts where `MockChain` ends: it assumes the two facts
`MockChain` establishes, that a head `n` means the heights 1 .. n are all there
(`CompleteWhenDone`, `HeadIsNewestBlock`), and that a height's content is a
function of the height alone: a restarted process serves the same snapshots, which
its `Start` assumes. `RepeatsAgree` is about what a delta is relative to, given that.

Definitions headed `Mutant:` are plausible bugs of the definition that follows.
No specification uses them. Putting one in place of its original makes TLC find
the property PROJECT.json names violated, which shows that the property can fail.

## Runs

| Run | Module, configuration | Question and result | States |
|---|---|---|---|
| chain | MockChain, MockChain_chain | Is every height coherent, linked, counted and complete, whatever was sampled; does the builder implement `Archive`; does it return, but for a chain of one validator? Yes | 167 000 |
| ledger_safety | MCLedger, Ledger_safety | Do one to three accounts conserve the supply, without wrapping, and stay put when inactive? Yes | 43 000 |
| feed_safety | IndexerFeed, IndexerFeed_safety | Do deltas add up to the snapshots under reordering, retries and restarts? Yes | 1 870 000 |
| feed_liveness | IndexerFeed, IndexerFeed_liveness | Is every block, the head included, stored in the end? Yes | 2 000 |
| listing_safety | MCListing, Listing_safety | Does a walk collect the list exactly; is every request with a size that is not negative and an offset that fits an int answered, with the page asked for? Yes | 26 000 |
| routes_safety | MCRoutes, Routes_safety | Does a reader that asks several routes, or walks a list while the server restarts, put one height together or see that it cannot? Yes; the non-signers of every tenth height are the exception, and the transactions and events of a height the process does not have | 691 000 |
| mockstate_safety | MockState, MockState_safety | Do points and pools stay in step whatever the batches, and events with their block; is no more burned, paid or made than the batch accounts for? Yes | 229 000 |
| fleet_safety | MCFleet, Fleet_safety | Are the first chains served or none, and has every panic a cause outside of the chains that serve? Yes | 1 000 |

Four more runs check what the README, a comment or a doc line says and find
that the code does otherwise; PROJECT.json quotes the lines under "findings".

| Run | Statement | What the code does |
|---|---|---|
| chain_txcert | certificate-result transactions carry dex batch info | they are built before the batch is stored |
| ledger_exact | the total lands on the supply exactly | the fallback's rounding loses units |
| feed_pairing | query height H pairs state@H with block H-1 | the lists are those of H-1, the totals those of H |
| routes_nonsigners | `/non-signers` reads from the snapshots | at every tenth height it answers none, whatever the snapshot lists |

A fifth disagreement is part of a passing property: `WithValidatorCount(1)` panics
(mock_data.go:267 indexes a second validator, although lines 368 and 573 guard
against there being none) where mock_data.go:76 says that the option overrides the
default. `Terminates` says that the builder panics for one validator and returns for
any other number, so that a fix of line 267 shows there as well as a new panic.

The README describes two more things the builder has no code for: a locked batch
that rotates at `height % 4 == 2` (README.md:20; `lockedBatch` is assigned once,
mock_data.go:145) and events that follow inclusion by four heights (README.md:35;
mock_data.go:515 draws their types independently of transactions). No run is spent
on them. The flag defaults in README.md:27-30 are not those of main.go:13-16.

### Bounds

- *MockChain*: three heights, evidence at every second, up to two transactions and
  one event each, so that a height with evidence and its neighbours occur, and
  validator options that fall on both sides of the guard at two. Everything a
  step reads is of its own height or the one before, so more heights repeat the
  same cases.
- *Ledger*: one account, which takes a branch of its own, two, and three, the
  least with two priced ones besides the residual, whose noise can be large enough for the fallback and small enough
  not to be; fractions that do not divide evenly, so that rounding shows.
- *IndexerFeed*: three heights (one without a previous blob, one with, and one
  whose previous has itself a previous), two accounts with two balances, so
  every pattern of change occurs; two workers, so that one can hold an old
  answer while the other stores or the server restarts. Liveness uses one worker
  and one balance: balances do not guard any action.
- *Listing*: lists of up to nine items with caps of five and a default of two,
  and every page size and number a five-bit int holds, so that the products wrap.
- *Routes*: servers without blocks, with one and with two, and one restart, so
  that a height that was known becomes unknown or the other way round; the least
  head with a parent that is not genesis, and one height beyond a smaller head;
  two answers, the least that can disagree; lists of none to four items in pages
  of one, two or three, so that the restart can fall between two pages, after the
  last full one and after the end. Every second height has no non-signers.
- *MockState*: two addresses, batches of up to two, so that one address
  withdraws twice in a batch; percents below and above the cap of 100; amounts
  that do not divide by what a point costs, a deposit worth no point, and one
  of exactly what the holding pool has; two entries of points at most, of one
  address or of two. Two heights, slashes at each and evidence at the second, so
  that the events of one block are there when the next begins.
- *Fleet*: -1 to 4 chains on ports 2, 3 and 4 of four: no chain, a negative
  count, the last port, a port beyond the last, and ephemeral ports that are
  chains' ports. Three ephemeral ports suffice for one to be taken, own or free.

What some properties say is partly the code's own answer. `PageIsTheOneAsked` leaves
out negative sizes and offsets that do not fit, which may panic. `RoutesAgreeOnHeight`
states for each route which part of the request it reads and whether zero is genesis
or the latest: the code's routes differ in it, and the property fails when one of
them changes sides. `DepositsMoveFunds` bounds the funds that a deposit makes out of
nothing, and `BurnsAreCovered` the points that a failed removal leaves; no line of the
repository says that there should be none.

Deadlock is checked in `IndexerFeed` and `MockState`, which never stop. It is not
in `MockChain` and `Ledger`, whose programs return, in `Listing` and `Routes`,
whose reader stops when it has what it asked for, and in `Fleet`, where the
process may end.

### Fairness

- `MockChain`: `WF_vars(Next)`. The builder is straight-line code of one
  goroutine without blocking operations.
- `Fleet`: `WF_vars(Main)`, for the same reason; `net.Listen` returns at once.
  Other processes and the kill are not fair.
- `IndexerFeed`: the server handles what it is asked (weak fairness; net/http
  runs every request in a goroutine). Of the indexer, which is not in this
  repository, it assumes that it keeps polling and asking and that a height is
  not met by a timeout every time (strong fairness per height). Start, Kill and
  AskLatest are not fair, and the property itself assumes that a process with all
  blocks stays up from some time on.

## Proofs

`MockChainProof` proves, for any number of blocks, validators, transactions and
events and any periods, `TypeOK`, `CertAgreesWithHeight`,
`TxCertNamesItsBlock`, `HeadIsNewestBlock`, `CompleteWhenDone`,
`EvidenceNamesBuiltBlocks`, and the refinement of `Archive`. None of them is
inductive. The invariant `Inv` adds

- `Progress`: the range of `height` at each `pc`;
- `Filled`: which heights each map holds at each `pc` (all before `height`, and
  `height` itself in the maps whose store has been passed);
- `Contents`: what an entry is once it is there, namely the value its generator
  gives for its own height.

With `Filled`, the certificate step knows that all the entries it reads are
present; with `Contents`, that they are those of its height, and that later
steps do not touch them. `TxCertNamesItsBlock` also needs `GuessedHashes`, a
second invariant about the hash the transaction generator guesses. The
refinement follows: only the certificate step changes `tip`, the mapped archive
at committed heights is untouched by every store of a later height, and all
other steps stutter.

`TotalTxsAreCounted` is about sums: `Contents` says that the total of a height is
that of the height before and the number of its own transactions, and the sum
over the heights up to it meets the same recursion.

Sums and folds are recursive functions over sets, and the induction theorems of
the library take a predicate as a parameter, which the installed provers cannot
instantiate. `FoldLemmas` states induction with the *set* of the numbers, or the
family of the sets, that a predicate holds of, from the least number outside it.
From there it derives what the proofs use: that the recursion of a fold has
exactly one solution, that any element may be taken out of a sum first, that
bounds on terms add up (`SumCompare`, with a slack per term for rounding), and
that a fold over a sequence has a history, the values it goes through from its
base to its result one element at a time (`LeftFoldHistory`).

`LedgerProof` proves all five properties of `Ledger` for any number of accounts,
base values, noises, supplies and heights. The invariant has a part per question:
`Loops` (where the control can be, and what is still untouched), `Sums` (each
accumulator is the sum over the accounts its loop has passed), `Priced` and
`Rounded` (what each loop has computed for an account it has passed) and
`Returned` (what is true of a snapshot when it is returned). Then

- `NoBalanceAboveSupply` and `Conservation` compare sums. Without the fallback the
  rounded balances add up to at most what was priced, which is at most the
  supply, so that the residual's difference does not wrap and makes the sum
  exact; after the fallback each priced account has lost less than one unit to
  the division.
- `QuietHeightsArePriced` and `InactiveAccountsUnmoved` relate heights: an
  inactive account's raw value is its base value times a unit that does not
  depend on the height, so a height without activity is worth at most the
  genesis supply.

`ListingProof` proves `TypeOK`, `WalkCollectsList` and `PageIsTheOneAsked` for any
int width, cap and default. The invariant `Walked` says that before the page
numbered p the reader holds exactly the first (p - 1) pages' items, and that the
products of a walk never wrap, because a page number that is reached is at most
the number of pages. A request out of turn panics only if its slice lies outside
the list (`Answered`), which `FittingPage` excludes when the offset fits.

`FeedProof` proves `TypeOK`, `RepeatsAgree` and `TableIsSnapshot` for any workers,
accounts, balances and heights. The invariant says of the table that a row of an
account at a height is there exactly if the height is indexed and the account
changed at it, and of every answer under way that it is the change of its
height. That the newest row up to a height is then the snapshot's balance is
because the first height after that row with another balance would be a change,
too; such a first height exists because the natural numbers are well-founded
(`WFMin`).

`FleetProof` proves `TypeOK`, `ServesFirstChains`, `NoListenerLeaks` and
`PanicsHaveACause` for any ports and any number of chains. The invariant gives the
listeners the process holds at each statement of `New`. When a port cannot be
opened, its holder is another process or this one; if it is this one, the ports of
the chains that serve are different from it by arithmetic (`OwnPort`) and nothing is
left of earlier temporary listeners, so it is the temporary listener of the chain
itself.

`RoutesProof` proves all four properties of `Routes` for any numbers of blocks,
restarts, requests and page sizes, and lists of any length, with two invariants.
`AnnouncedHeightsAreServed` and `RoutesAgreeOnHeight` compare two answers, which
may lie on two sides of a restart; the invariant `Inv` reduces them to one answer
at a time: it says which entry a route owes a request when the head is b
(`EntryFor`), that every answer is that entry or none, and that it is there if
the head is high enough. What is left of two answers is that one process has
one number of blocks. Both properties are stated with the height that each route
reads from the request (`Asked`), and `AnnouncedHeightsAreServed` with the exception
of the non-signers (`Owed`), which `routes_nonsigners` reports. `TypeOK` and
`WalkIsComplete` rest on `WInv`: the k-th answer of a walk is page k of the list that was there when it was given, the walk went
on from it because that list has more pages (`Walked`), and what the reader has
collected is a front of the list *if* all pages are of one list (`Gathered`).
The condition is needed because a restart in the middle of a walk may change the
list; at the end of the walk the exceptions of `WalkIsComplete` are exactly the
walks for which it fails. That the offsets do not wrap follows from `Walked`, too:
a page is only asked for when the pages before it fit into a list.

`MockStateProof` proves all seven properties of `MockState`, for any addresses,
pools, batches, percents and amounts. Each of its folds has a lemma that gives it
a history. The invariant says that every pool is in `Balanced`, a pool whose total
is the sum of its points, and that delayed events are of the height under way.
Four arguments are about a whole batch:

- No payment takes more than the pool has (part of `TypeOK`) and the reported
  payments leave the pool (`WithdrawalsArePaid`): withdrawals are priced from a
  lookup by address while the points are removed from a list that may hold
  several entries of one address. `FairStates` is the invariant of the fold: what
  has been paid is at most the share of what has been burned, and what has been
  burned with what the lookup still has is at most the total.
- `BurnsAreCovered`, with any number of entries of an address: the same invariant
  bounds what is burned and paid, and along the removals the total falls by at most
  what has been burned so far (`RemovalsTakeAtMost`).
- `DepositsMoveFunds`: along the deposits, what the liquidity pool has gained is what
  the holding pool has lost, or exceeds it by more than the holding pool has left
  (`Covered`).
- `SharesKeepTheirValue`, under its condition that no address has two entries:
  the removals run beside the payments (`TakingMatches`), so that the points burned
  are the points removed and the price of a point does not fall.

Assumed are only the named assumptions on the constants, which TLC evaluates in
the runs. Those that are more than the type of a constant: a cap of the page size
below the int range, and lists (`Listing`, `Routes`) short enough that an offset and
a page fit into an int; every list of the program is a slice in memory.

Every invariant and every action property of the passing runs is proved. Only
model-checked are the liveness properties `Terminates`, `EveryBlockIndexed` and
`AllServedOrEnded` (the prover does not reason about fairness), and, by their
nature, the four statements the code does not meet.

## Not modelled, and why

- The routes for parameters, poll and proposals, which answer with constants.
- Samplers and their frequencies (`distributions.go`, `ratetable.go`,
  `scale.go`): floating-point statistics, no control. The ledger uses exact
  fractions instead of float64; the rounding of float operations is not covered.
- Contents of messages, keys, parameters, polls, proposals and order books:
  constant data that no guard depends on.
- Protobuf and JSON encoding, HTTP itself, logging.
- Sharing of memory: a stored value is a copy in the models. The program stores one
  batch object for all heights and never writes to it again; that it does not is read
  off the code, not checked.
- `snapshot` and `computeSupply` of `mock_state.go`, which only read, and the
  certificate its `beginBlock` returns, which is data. Nothing in the program
  calls any of it; `MockState` models the rest as a library.
- The seeds of counts and labels, which are free choices in the model, and the hash
  of transactions. The text that is hashed has no separators, so that index 11 of height 1 and
  index 1 of height 11 have one transaction hash; nothing in the repository
  promises otherwise or looks a transaction up by it.

## Plan

Written: all modules above, and proofs of all their invariants and action
properties. What is left:

1. The steps of the liveness arguments that need no fairness: that a measure of
   `MockChain` and of `Fleet` falls with every step of the program, so that `Terminates`
   and `AllServedOrEnded` are down to the fairness alone.
2. The interface between `MockChain` and `IndexerFeed`: that the content of a height is
   a function of the height, stated and proved in `MockChain` rather than read off it.
3. The history lemmas of `MockStateProof` have one shape; a form that all folds of the
   module can share would make it shorter.
