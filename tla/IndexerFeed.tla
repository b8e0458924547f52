---------------------------- MODULE IndexerFeed ----------------------------
(***************************************************************************)
(* The indexer-blobs route of mockserver/internal/rpc/server_routes.go,    *)
(* the blobs mockserver/internal/chain/indexer_blob.go builds for it, and  *)
(* the canopy-indexer that reads them (required.md, delta_test.go and      *)
(* indexer_blob_test.go say how).                                          *)
(*                                                                         *)
(* The route answers query height q with the committed block q - 1 and,    *)
(* reduced to the accounts that differ, the snapshot of that block         *)
(* relative to the one before.  The server keeps nothing about its         *)
(* readers: several workers of the indexer fetch heights in any order,     *)
(* their requests time out and are repeated, and the process is killed and *)
(* started again with another -blocks.  The rows they collect must still   *)
(* add up to the snapshots.                                                *)
(*                                                                         *)
(* Every request runs in a goroutine of its own, but no handler writes to  *)
(* the chain, which is complete before the listener accepts: a handler is  *)
(* one action.                                                             *)
(***************************************************************************)
EXTENDS Integers, FiniteSets

CONSTANTS
  NumBlocks,       \* bound: the largest -blocks the server is started with
  Accounts,        \* the chain's accounts
  Amounts,         \* the balances the ledger may give them
  Validators,      \* the chain's validators
  UnstakeHeights,  \* heights UnstakeHeightFor may schedule
  Workers,         \* the indexer's workers
  Nil              \* Go's nil

ASSUME FeedAssumption ==
  /\ NumBlocks \in Nat \ {0}
  /\ IsFiniteSet(Validators)
  /\ UnstakeHeights \subseteq Nat
  /\ Nil \notin Amounts

VARIABLES
  generated,  \* what the closed-form ledger answers for each height
  unstakeAt,  \* what the closed-form lifecycle answers for each validator
  up,         \* the server process accepts requests
  head,       \* its number of blocks
  knownHead,  \* the head the indexer polled last
  worker,     \* per worker: its stage, the query it sent and the answer it got
  rows,       \* the indexer's account table
  indexed     \* the heights the indexer has stored

closedForm == <<generated, unstakeAt>>
server == <<up, head>>
vars == <<closedForm, server, knownHead, worker, rows, indexed>>

Heights == 1 .. NumBlocks

Idle == [stage |-> "idle", query |-> Nil, answer |-> Nil]

UnknownHeight == [status |-> 404]

Rows == [account : Accounts, height : Heights, amount : Amounts]

-----------------------------------------------------------------------------
(* The handler. *)

\* Mutant: the next height instead of the newest.
LatestHeightNext == head + 1

LatestHeight == head

ActiveAt(h) == Cardinality({v \in Validators : h < unstakeAt[v]})

\* Mutant: the accounts are taken from the query height.
BuildIndexerBlobAhead(blockHeight) ==
  [block    |-> blockHeight,
   accounts |-> generated[IF blockHeight < head THEN blockHeight + 1 ELSE blockHeight],
   listed   |-> ActiveAt(blockHeight),
   total    |-> ActiveAt(blockHeight + 1)]

\* The block and the snapshot of one height; the total of active validators
\* is not counted from the snapshot's list but derived again, one height on.
BuildIndexerBlob(blockHeight) ==
  [block    |-> blockHeight,
   accounts |-> generated[blockHeight],
   listed   |-> ActiveAt(blockHeight),
   total    |-> ActiveAt(blockHeight + 1)]

Known(blockHeight) == blockHeight \in 1 .. LatestHeight

\* Mutant: a query height is looked up as if it were a block height.
HasBlobsUpToHead(queryHeight) == queryHeight > 1 /\ Known(queryHeight)

\* Query height q is about block q - 1.
HasBlobs(queryHeight) == queryHeight > 1 /\ Known(queryHeight - 1)

\* The blob of the block, and the one before it, of which there is none for the
\* first block.
BuildIndexerBlobs(queryHeight) ==
  [current  |-> BuildIndexerBlob(queryHeight - 1),
   previous |-> IF queryHeight > 2 THEN {BuildIndexerBlob(queryHeight - 2)} ELSE {}]

\* fsm.DeltaIndexerBlobs: the accounts of the current blob that differ from
\* the previous one, all of them if there is none.
DeltaIndexerBlobs(blobs) ==
  {a \in Accounts : \A blob \in blobs.previous : blobs.current.accounts[a] # blob.accounts[a]}

\* The handler of /v1/query/indexer-blobs; height zero asks for the latest.
IndexerBlobs(height) ==
  LET queryHeight == IF height = 0 THEN LatestHeight ELSE height
      blobs == BuildIndexerBlobs(queryHeight)
  IN  IF HasBlobs(queryHeight)
      THEN [status  |-> 200,
            block   |-> blobs.current.block,
            changed |-> [a \in DeltaIndexerBlobs(blobs) |-> blobs.current.accounts[a]],
            listed  |-> blobs.current.listed,
            total   |-> blobs.current.total]
      ELSE UnknownHeight

-----------------------------------------------------------------------------
Init ==
  /\ generated \in [Heights -> [Accounts -> Amounts]]
  /\ unstakeAt \in [Validators -> UnstakeHeights]
  /\ up = FALSE
  /\ head = 0
  /\ knownHead = 0
  /\ worker = [w \in Workers |-> Idle]
  /\ rows = {}
  /\ indexed = {}

\* Mutant: a new process draws other balances.
StartReseeded(numBlocks) ==
  /\ ~up
  /\ up' = TRUE
  /\ head' = numBlocks
  /\ generated' \in [Heights -> [Accounts -> Amounts]]
  /\ UNCHANGED <<unstakeAt, knownHead, worker, rows, indexed>>

\* The process starts and builds its chain; the generators are seeded by the
\* chain alone, so that every start builds the same heights.
Start(numBlocks) ==
  /\ ~up
  /\ up' = TRUE
  /\ head' = numBlocks
  /\ UNCHANGED <<closedForm, knownHead, worker, rows, indexed>>

\* The process is killed and the requests it was serving fail; an answer
\* already received stays with its worker.
Kill ==
  /\ up
  /\ up' = FALSE
  /\ worker' = [w \in Workers |-> IF worker[w].stage = "asked" THEN Idle ELSE worker[w]]
  /\ UNCHANGED <<closedForm, head, knownHead, rows, indexed>>

\* The indexer reads /v1/query/height.
PollHead ==
  /\ up
  /\ knownHead' = LatestHeight
  /\ UNCHANGED <<closedForm, server, worker, rows, indexed>>

\* A worker asks for block h, which is query height h + 1, ...
Ask(w, h) ==
  /\ up
  /\ worker[w] = Idle
  /\ h <= knownHead
  /\ h \notin indexed
  /\ worker' = [worker EXCEPT ![w] = [stage |-> "asked", query |-> h + 1, answer |-> Nil]]
  /\ UNCHANGED <<closedForm, server, knownHead, rows, indexed>>

\* ... or leaves the height out and takes what the server gives.
AskLatest(w) ==
  /\ up
  /\ worker[w] = Idle
  /\ worker' = [worker EXCEPT ![w] = [stage |-> "asked", query |-> 0, answer |-> Nil]]
  /\ UNCHANGED <<closedForm, server, knownHead, rows, indexed>>

\* The goroutine of the request runs the handler and the worker gets the answer.
Handle(w) ==
  /\ up
  /\ worker[w].stage = "asked"
  /\ worker' = [worker EXCEPT ![w].stage = "answered",
                              ![w].answer = IndexerBlobs(worker[w].query)]
  /\ UNCHANGED <<closedForm, server, knownHead, rows, indexed>>

\* The worker writes a row for every account of the delta, at the block's height.
Store(w) ==
  /\ worker[w].stage = "answered"
  /\ worker[w].answer.status = 200
  /\ LET answer == worker[w].answer
     IN  /\ rows' = rows \cup {[account |-> a, height |-> answer.block,
                                amount  |-> answer.changed[a]] : a \in DOMAIN answer.changed}
         /\ indexed' = indexed \cup {answer.block}
  /\ worker' = [worker EXCEPT ![w] = Idle]
  /\ UNCHANGED <<closedForm, server, knownHead>>

\* An unknown height, a timeout, or a crash of the worker before it has stored:
\* the work is repeated later.
GiveUp(w) ==
  /\ worker[w].stage \in {"asked", "answered"}
  /\ worker' = [worker EXCEPT ![w] = Idle]
  /\ UNCHANGED <<closedForm, server, knownHead, rows, indexed>>

Next ==
  \/ \E numBlocks \in 0 .. NumBlocks : Start(numBlocks)
  \/ Kill
  \/ PollHead
  \/ \E w \in Workers : \/ \E h \in Heights : Ask(w, h)
                        \/ AskLatest(w)
                        \/ Handle(w)
                        \/ Store(w)
                        \/ GiveUp(w)

Spec == Init /\ [][Next]_vars

\* The server handles what it is asked (net/http runs a goroutine for every
\* request); the indexer keeps polling and repeats a height until it is stored,
\* and no height meets a timeout every time.  Starting and killing the process
\* and asking for the latest are not fair.
FairSpec ==
  /\ Spec
  /\ WF_vars(PollHead)
  /\ \A w \in Workers :
       /\ WF_vars(Handle(w))
       /\ WF_vars(Store(w))
       /\ WF_vars(GiveUp(w) /\ worker[w].answer = UnknownHeight)
       /\ \A h \in Heights :
            /\ SF_vars(Ask(w, h))
            /\ SF_vars(Handle(w) /\ worker[w].query = h + 1)
            /\ SF_vars(Store(w) /\ worker[w].query = h + 1)

-----------------------------------------------------------------------------
TypeOK ==
  /\ generated \in [Heights -> [Accounts -> Amounts]]
  /\ unstakeAt \in [Validators -> UnstakeHeights]
  /\ up \in BOOLEAN
  /\ head \in 0 .. NumBlocks
  /\ knownHead \in 0 .. NumBlocks
  /\ \A w \in Workers :
       /\ worker[w].stage \in {"idle", "asked", "answered"}
       /\ worker[w].stage # "idle" => worker[w].query \in 0 .. NumBlocks + 1
       /\ worker[w].stage = "answered" => worker[w].answer.status \in {200, 404}
  /\ rows \subseteq Rows
  /\ indexed \subseteq Heights

\* What the table says of account a as of height h: its newest row up to h.
View(a, h) ==
  LET upTo == {row \in rows : row.account = a /\ row.height <= h}
  IN  {row.amount : row \in {r \in upTo : \A s \in upTo : s.height <= r.height}}

\* Deltas add up: once the heights 1 .. h are stored, in whatever order, by
\* whichever workers and from however many processes, the table holds exactly
\* the balances of the snapshot of h.
TableIsSnapshot ==
  \A h \in Heights :
    1 .. h \subseteq indexed => \A a \in Accounts : View(a, h) = {generated[h][a]}

\* Fetching a height again, from a process started later and with another
\* -blocks, writes the rows that are there already: an account has at most one
\* balance at a height.
RepeatsAgree ==
  \A r, s \in rows : r.account = s.account /\ r.height = s.height => r.amount = s.amount

\* If a process with all the blocks stays up, every block is stored in the end,
\* the head, which no query height up to the head reaches, among them.
EveryBlockIndexed ==
  <>[](up /\ head = NumBlocks) => <>(indexed = Heights)

-----------------------------------------------------------------------------
\* indexer_blob.go: query height H pairs state@H with committed block H-1.  An
\* answer lists the validators of state@H, and its totals count that list.
QueryPairsStateWithParentBlock ==
  \A w \in Workers :
    LET query == worker[w].query  answer == worker[w].answer
    IN  worker[w].stage = "answered" /\ answer.status = 200 /\ query # 0
          => /\ answer.block = query - 1
             /\ answer.total = ActiveAt(query)
             /\ answer.listed = ActiveAt(query)
=============================================================================
