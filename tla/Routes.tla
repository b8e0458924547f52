------------------------------- MODULE Routes -------------------------------
(***************************************************************************)
(* The routes of mockserver/internal/rpc/server_routes.go that answer from *)
(* one height of a finished chain, and the accessors of mock_data.go they  *)
(* call.                                                                   *)
(*                                                                         *)
(* A reader makes one request of several routes, or walks the pages of one *)
(* route, while the server may be killed and started again with another    *)
(* number of blocks.  A chain is complete before its server listens, and a *)
(* height's content does not depend on the number of blocks (MockChain):   *)
(* so a process is the number of its blocks, and an answer is the height   *)
(* of the entries it was made from.  A page size is not negative here; see *)
(* Listing for those that panic.                                           *)
(***************************************************************************)
EXTENDS Paging, Sequences

CONSTANTS
  BlockOptions,     \* values of -blocks the server is started with
  MaxHeight,        \* bound: the largest of them, and the heights clients name
  MaxProcesses,     \* bound: how often the server is started
  MaxAnswers,       \* bound: how many routes a reader asks
  PageSizes,        \* page sizes of the readers that walk a list
  BlockLists,       \* the lengths of a block's lists, per route and height
  SnapshotLists,    \* the lengths of a snapshot's lists, per route
  NonSignerPeriod,  \* heights between two that have no non-signers (10 in the code)
  Absent, Garbage,  \* no query string or body, or one no height can be parsed from
  Missing           \* an answer without an entry

BlockRoutes == {"txs", "events"}
SnapshotRoutes == {"accounts", "pools", "validators"}

ASSUME RoutesAssumption ==
  /\ MaxHeight \in Nat
  /\ BlockOptions \subseteq 0 .. MaxHeight
  /\ MaxProcesses \in Nat \ {0} /\ MaxAnswers \in Nat
  /\ PageSizes \subseteq 0 .. IntLimit - 1
  /\ BlockLists \in [BlockRoutes -> [1 .. MaxHeight -> Nat]]
  /\ SnapshotLists \in [SnapshotRoutes -> Nat]
  /\ \A route \in BlockRoutes : \A h \in 1 .. MaxHeight :
       BlockLists[route][h] + MaxPerPage < IntLimit
  /\ \A route \in SnapshotRoutes : SnapshotLists[route] + MaxPerPage < IntLimit
  /\ NonSignerPeriod \in Nat \ {0, 1}
  /\ Absent \notin Nat /\ Garbage \notin Nat /\ Missing \notin Nat

VARIABLES
  up,         \* a process serves
  blocks,     \* the number of blocks of the process
  process,    \* how often the server was started
  request,    \* the height in the query string, the one in the body, and whether
              \* the route knows the committee, if the request names one
  walk,       \* the route and page size a reader walks; route Absent if it does not
  answers,    \* the answers the reader has got
  collected   \* the items a walking reader has

server == <<up, blocks, process>>
reader == <<request, walk>>
vars == <<server, reader, answers, collected>>

-----------------------------------------------------------------------------
(* The keys of the chain's maps, and the heights a request asks for. *)

\* Mutant: the head is not in the maps yet.
BlockKeysBelowHead == 1 .. blocks - 1

BlockKeys == 1 .. blocks

StateKeys == 0 .. blocks

\* decodeBody leaves the height zero when there is no body or it does not parse.
BodyHeight == IF request.body \in Nat THEN request.body ELSE 0

\* parseHeightReq: a query string that parses wins over the body.
HeightRequest == IF request.query \in Nat THEN request.query ELSE BodyHeight

\* Every handler but the one for the state asks for the head at height zero.
OrLatest(h) == IF h = 0 THEN blocks ELSE h

Last(seq) == seq[Len(seq)]

Walking == walk.route # Absent

NextPage == IF Walking /\ answers # <<>> THEN Last(answers).page.number + 1 ELSE 1

\* The reader asks a route: any, or the one it walks until it has all pages.
Asks(route) ==
  /\ up
  /\ IF Walking
     THEN /\ route = walk.route
          /\ answers # <<>> =>
               Last(answers).found /\ NextPage <= Last(answers).page.totalPages
     ELSE Len(answers) < MaxAnswers

NoPage == [first |-> 0, last |-> 0, number |-> 1, totalPages |-> 0]

\* An answer found or not found, made from the entry of a height.
Reply(route, found, entry, page) ==
  /\ Asks(route)
  /\ answers' = Append(answers,
                  [route |-> route, process |-> process, blocks |-> blocks,
                   found |-> found, entry |-> entry, page |-> page])
  /\ UNCHANGED <<server, reader>>

\* Mutant: what is not there is answered too.
ReplyEntryUnchecked(route, h, keys) ==
  /\ Reply(route, TRUE, h, NoPage)
  /\ UNCHANGED collected

\* A route that looks height h up among keys, and answers 404 without it.
ReplyEntry(route, h, keys) ==
  /\ Reply(route, h \in keys, IF h \in keys THEN h ELSE Missing, NoPage)
  /\ UNCHANGED collected

Items(h, first, last) == [i \in 1 .. last - first |-> [height |-> h, index |-> first + i]]

\* A route that answers with a page of a list of length items of height h.
ReplyPage(route, h, known, length) ==
  LET page == PageOf(length, NextPage, walk.size)
  IN  /\ Reply(route, TRUE, IF known THEN h ELSE Missing, page)
      /\ collected' = IF Walking THEN collected \o Items(h, page.first, page.last)
                      ELSE collected

-----------------------------------------------------------------------------
(* The handlers. *)

QueryHeight == ReplyEntry("height", blocks, StateKeys)

QueryBlock == ReplyEntry("block", OrLatest(HeightRequest), BlockKeys)

QueryCert == ReplyEntry("cert", OrLatest(HeightRequest), BlockKeys)

\* A request that names height zero, in whatever way, gets genesis; so does
\* one whose query string or body does not parse.
QueryState ==
  LET nameless == HeightRequest = 0 /\ request.query = Absent /\ request.body = Absent
  IN  ReplyEntry("state", IF nameless THEN blocks ELSE HeightRequest, StateKeys)

\* Mutant: a request without a height gets the supply of genesis.
QuerySupplyAsGiven == ReplyEntry("supply", HeightRequest, StateKeys)

QuerySupply == ReplyEntry("supply", OrLatest(HeightRequest), StateKeys)

\* A height without a block has an empty list.
QueryBlockList(route) ==
  LET h == OrLatest(BodyHeight)
  IN  ReplyPage(route, h, h \in BlockKeys,
                IF h \in BlockKeys THEN BlockLists[route][h] ELSE 0)

\* Mutant: an unknown height is answered with the latest.
QuerySnapshotListOrLatest(route) ==
  LET asked == OrLatest(BodyHeight)
      h == IF asked \in StateKeys THEN asked ELSE blocks
  IN  ReplyPage(route, h, TRUE, SnapshotLists[route])

\* A height without a snapshot is not found.
QuerySnapshotList(route) ==
  LET h == OrLatest(BodyHeight)
  IN  \/ h \in StateKeys /\ ReplyPage(route, h, TRUE, SnapshotLists[route])
      \/ h \notin StateKeys /\ ReplyEntry(route, h, StateKeys)

\* All the order books of a height, or the one of the committee.
QueryOrders ==
  ReplyEntry("orders", OrLatest(BodyHeight), IF request.known THEN StateKeys ELSE {})

\* The prices are filtered: those of an unknown committee are an empty list.
QueryDexPrice ==
  LET h == OrLatest(BodyHeight)
  IN  /\ Reply("dexPrice", h \in BlockKeys,
               IF h \in BlockKeys /\ request.known THEN h ELSE Missing, NoPage)
      /\ UNCHANGED collected

\* The locked batch and the next one; either only of the chain's own committee.
QueryDexBatch(route) ==
  ReplyEntry(route, OrLatest(BodyHeight), IF request.known THEN BlockKeys ELSE {})

\* nonSigners knows none at every tenth height, whatever the snapshot says.
QueryNonSigners ==
  LET h == OrLatest(HeightRequest)
      listed == h \in StateKeys /\ (h = 0 \/ h % NonSignerPeriod # 0)
  IN  /\ Reply("nonSigners", TRUE, IF listed THEN h ELSE Missing, NoPage)
      /\ UNCHANGED collected

QueryDoubleSigners ==
  LET h == OrLatest(HeightRequest)
  IN  /\ Reply("doubleSigners", TRUE, IF h \in StateKeys THEN h ELSE Missing, NoPage)
      /\ UNCHANGED collected

\* Committee data, subsidized and retired committees: always of the head.
QueryCommittees == ReplyEntry("committees", blocks, StateKeys)

-----------------------------------------------------------------------------
Init ==
  /\ up = TRUE
  /\ blocks \in BlockOptions
  /\ process = 1
  /\ request \in [query : {Absent, Garbage} \cup (0 .. MaxHeight),
                  body : {Absent, Garbage} \cup (0 .. MaxHeight), known : BOOLEAN]
  /\ walk \in [route : {Absent}, size : {0}]
              \cup [route : BlockRoutes \cup SnapshotRoutes, size : PageSizes]
  /\ request.body = Absent => request.known /\ ~Walking  \* they are named in the body
  /\ answers = <<>>
  /\ collected = <<>>

Query ==
  \/ QueryHeight
  \/ QueryBlock
  \/ QueryCert
  \/ QueryState
  \/ QuerySupply
  \/ \E route \in BlockRoutes : QueryBlockList(route)
  \/ \E route \in SnapshotRoutes : QuerySnapshotList(route)
  \/ QueryOrders
  \/ QueryDexPrice
  \/ \E route \in {"dexBatch", "nextDexBatch"} : QueryDexBatch(route)
  \/ QueryNonSigners
  \/ QueryDoubleSigners
  \/ QueryCommittees

Kill ==
  /\ up
  /\ up' = FALSE
  /\ UNCHANGED <<blocks, process, reader, answers, collected>>

\* The process is started again, with any number of blocks.
Restart ==
  /\ ~up
  /\ process < MaxProcesses
  /\ up' = TRUE
  /\ blocks' \in BlockOptions
  /\ process' = process + 1
  /\ UNCHANGED <<reader, answers, collected>>

Next == Query \/ Kill \/ Restart

Spec == Init /\ [][Next]_vars

-----------------------------------------------------------------------------
QueryStringRoutes == {"block", "cert", "state", "supply", "nonSigners", "doubleSigners"}
HeightlessRoutes == {"height", "committees"}
BodyRoutes == {"orders", "dexPrice", "dexBatch", "nextDexBatch"} \cup BlockRoutes \cup SnapshotRoutes

Heights == 0 .. MaxHeight

Pages == [first : Nat, last : Nat, number : Nat \ {0}, totalPages : Nat]

Answers ==
  [route : QueryStringRoutes \cup HeightlessRoutes \cup BodyRoutes, process : 1 .. MaxProcesses,
   blocks : BlockOptions, found : BOOLEAN, entry : Heights \cup {Missing}, page : Pages]

\* An answer is made from an entry the process had, or from none, and its page
\* was sliced without a panic.
TypeOK ==
  /\ up \in BOOLEAN
  /\ blocks \in BlockOptions
  /\ process \in 1 .. MaxProcesses
  /\ answers \in Seq(Answers)
  /\ \A k \in DOMAIN answers :
       /\ answers[k].entry # Missing => answers[k].found /\ answers[k].entry <= answers[k].blocks
       /\ answers[k].page.first <= answers[k].page.last
  /\ collected \in Seq([height : Heights, index : Nat \ {0}])

\* The height the request asks a route for, zero if it names none the route reads.
Asked(route) ==
  CASE route \in HeightlessRoutes -> 0
    [] route \in QueryStringRoutes -> HeightRequest
    [] OTHER -> BodyHeight

\* The entry a route owes a request for a height up to the head: that height's,
\* but for the non-signers of every tenth height, which are none.
Owed(route) ==
  IF route = "nonSigners" /\ HeightRequest % NonSignerPeriod = 0 THEN Missing ELSE Asked(route)

\* Once a process has announced its head, each of its routes answers from its own
\* entry for every height up to the head; the non-signers of every tenth height
\* are the one exception, and there the answer is empty.
AnnouncedHeightsAreServed ==
  \A i, j \in DOMAIN answers :
    /\ answers[i].route = "height" /\ answers[j].process = answers[i].process
    /\ Asked(answers[j].route) \in 1 .. answers[i].entry /\ request.known
    => answers[j].entry = Owed(answers[j].route)

\* A request for genesis: to the state route only, and only if something in the
\* request names or could have named the height.
AsksForGenesis(route) ==
  route = "state" /\ HeightRequest = 0 /\ (request.query # Absent \/ request.body # Absent)

\* A request that leaves the height to the process.
AsksForLatest(route) == Asked(route) = 0 /\ ~AsksForGenesis(route)

\* Two routes asked for a height by its number, genesis included, answer from one
\* height exactly if they are asked for the same, whatever happens in between:
\* a route that reads the number elsewhere in the request than another does not
\* quietly join it.  Asked for the latest, they answer from one height if they
\* are asked of one process.
RoutesAgreeOnHeight ==
  \A i, j \in DOMAIN answers :
    answers[i].entry # Missing /\ answers[j].entry # Missing =>
      /\ ~AsksForLatest(answers[i].route) /\ ~AsksForLatest(answers[j].route) =>
           (answers[i].entry = answers[j].entry
              <=> Asked(answers[i].route) = Asked(answers[j].route))
      /\ /\ AsksForLatest(answers[i].route) /\ AsksForLatest(answers[j].route)
         /\ answers[i].process = answers[j].process
         => answers[i].entry = answers[j].entry

WalkEnded == Walking /\ answers # <<>> /\ NextPage > Last(answers).page.totalPages

\* The whole list of a height.
WholeList(route, h) ==
  Items(h, 0, IF route \in SnapshotRoutes THEN SnapshotLists[route] ELSE BlockLists[route][h])

\* A reader that has walked to the last page of a list has the whole list of
\* one height: of the height it named, across restarts, and of the head if it
\* named none and the number of blocks stayed the same.  Transactions and events
\* are the exception: a process that does not have the height yet, or not any
\* more, ends the walk as if the list ended there.
WalkIsComplete ==
  WalkEnded /\ Last(answers).found =>
    LET h == IF BodyHeight = 0 THEN Last(answers).blocks ELSE BodyHeight
        steady == \A k \in DOMAIN answers : answers[k].blocks = Last(answers).blocks
        shrunk == \E k \in DOMAIN answers : answers[k].blocks < BodyHeight
    IN  \/ collected = (IF h = 0 /\ walk.route \in BlockRoutes THEN <<>>
                        ELSE WholeList(walk.route, h))
        \/ BodyHeight = 0 /\ ~steady
        \/ walk.route \in BlockRoutes /\ shrunk

-----------------------------------------------------------------------------
(* What the README says and the code does not do. *)

\* README: the lists of accounts, pools, validators and orders, the supply and
\* both lists of signers are read from the snapshot of the height.
RoutesReadSnapshots ==
  \A j \in DOMAIN answers :
    /\ answers[j].route \in SnapshotRoutes \cup {"orders", "supply", "nonSigners", "doubleSigners"}
    /\ Asked(answers[j].route) \in 1 .. answers[j].blocks /\ request.known
    => answers[j].entry = Asked(answers[j].route)
=============================================================================
