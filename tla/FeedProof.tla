------------------------------ MODULE FeedProof ------------------------------
(***************************************************************************)
(* Proofs about IndexerFeed for every number of blocks, accounts, balances *)
(* and workers of the indexer.                                             *)
(*                                                                         *)
(* The invariant says what the table is: the rows of the accounts that     *)
(* changed at the heights indexed, with the balances of the snapshots.     *)
(* For that, every answer a worker holds, however old and from whatever    *)
(* process, must be the delta of a height.  That the rows add up to a      *)
(* snapshot is then a fact about least numbers: an account has the balance *)
(* of the newest height it changed at.                                     *)
(***************************************************************************)
EXTENDS IndexerFeed, FoldLemmas

\* The accounts of the delta of block h.
Changed(h) == {a \in Accounts : h = 1 \/ generated[h][a] # generated[h - 1][a]}

Delta(h) ==
  [status  |-> 200,
   block   |-> h,
   changed |-> [a \in Changed(h) |-> generated[h][a]],
   listed  |-> ActiveAt(h),
   total   |-> ActiveAt(h + 1)]

Answers == {UnknownHeight} \cup {Delta(h) : h \in Heights}

Requests ==
  [stage  : {"idle", "asked", "answered"},
   query  : 0 .. NumBlocks + 1 \cup {Nil},
   answer : Answers \cup {Nil}]

\* A worker holds the answer to a query, which is the delta of a height or
\* that the height is unknown.
Served ==
  /\ worker \in [Workers -> Requests]
  /\ \A w \in Workers :
       /\ worker[w].stage # "idle" => worker[w].query \in 0 .. NumBlocks + 1
       /\ worker[w].stage = "answered" => worker[w].answer \in Answers

Table ==
  rows = {row \in Rows : /\ row.height \in indexed
                         /\ row.account \in Changed(row.height)
                         /\ row.amount = generated[row.height][row.account]}

Inv == TypeOK /\ Served /\ Table

-----------------------------------------------------------------------------
LEMMA HeightFacts == /\ NumBlocks \in Nat \ {0} /\ Heights \subseteq Nat \ {0}
                     /\ \A h \in Heights : 1 .. h \subseteq Heights
  BY FeedAssumption DEF Heights

\* A set of numbers up to n has a largest one.
LEMMA LargestUpTo ==
  ASSUME NEW n \in Nat, NEW T \in SUBSET (1 .. n), T # {}
  PROVE  \E x \in T : \A y \in T : y <= x
<1> DEFINE D == {n - y : y \in T}
<1>1. D \in SUBSET Nat /\ D # {}
  <2>1. PICK y \in T : TRUE
    OBVIOUS
  <2>2. n - y \in D
    OBVIOUS
  <2>3. \A z \in T : n - z \in Nat
    OBVIOUS
  <2> QED
    BY <2>2, <2>3
<1>2. PICK d \in D : \A e \in D : d <= e
  <2> HIDE DEF D
  <2> QED
    BY <1>1, LeastNat
<1>3. PICK x \in T : d = n - x
  BY <1>2
<1>4. \A y \in T : n - x <= n - y
  BY <1>2, <1>3
<1> QED
  BY <1>3, <1>4

\* What the handler answers is the delta of a height, or that it is unknown.
LEMMA HandlerAnswers ==
  ASSUME TypeOK, NEW query \in 0 .. NumBlocks + 1
  PROVE  IndexerBlobs(query) \in Answers
<1> DEFINE queryHeight == IF query = 0 THEN LatestHeight ELSE query
           blobs == BuildIndexerBlobs(queryHeight)
           h == queryHeight - 1
<1>1. queryHeight \in Int /\ head \in 0 .. NumBlocks
  BY HeightFacts DEF TypeOK, LatestHeight
<1>2. CASE ~HasBlobs(queryHeight)
  BY <1>2 DEF IndexerBlobs, Answers
<1>3. CASE HasBlobs(queryHeight)
  <2>1. h \in Heights /\ queryHeight = h + 1 /\ queryHeight > 1
    BY <1>1, <1>3, HeightFacts DEF HasBlobs, Known, LatestHeight, Heights
  <2>2. /\ blobs.current = BuildIndexerBlob(h)
        /\ blobs.previous = IF h = 1 THEN {} ELSE {BuildIndexerBlob(h - 1)}
    <3>1. queryHeight > 2 <=> h # 1
      BY <1>1, <2>1
    <3>2. queryHeight - 2 = h - 1
      BY <1>1
    <3> QED
      BY <3>1, <3>2 DEF BuildIndexerBlobs
  <2> HIDE DEF blobs
  <2>3. /\ blobs.current.block = h
        /\ blobs.current.accounts = generated[h]
        /\ blobs.current.listed = ActiveAt(h)
        /\ blobs.current.total = ActiveAt(h + 1)
    BY <2>2 DEF BuildIndexerBlob
  <2>4. BuildIndexerBlob(h - 1).accounts = generated[h - 1]
    BY DEF BuildIndexerBlob
  <2>5. DeltaIndexerBlobs(blobs) = Changed(h)
    BY <2>2, <2>3, <2>4 DEF DeltaIndexerBlobs, Changed
  <2>6. IndexerBlobs(query) = Delta(h)
    BY <1>3, <2>3, <2>5 DEF IndexerBlobs, Delta, blobs
  <2> QED
    BY <2>1, <2>6 DEF Answers
<1> QED
  BY <1>2, <1>3

-----------------------------------------------------------------------------
(* The invariant. *)

LEMMA InitInv == Init => Inv
<1> SUFFICES ASSUME Init PROVE Inv
  OBVIOUS
<1> USE HeightFacts DEF Init
<1>1. TypeOK
  <2>1. \A w \in Workers : worker[w].stage = "idle"
    BY DEF Idle
  <2>2. 0 \in 0 .. NumBlocks
    OBVIOUS
  <2>3. \A w \in Workers : worker[w].stage \in {"idle", "asked", "answered"}
    BY <2>1
  <2>4. rows \subseteq Rows /\ indexed \subseteq Heights
    OBVIOUS
  <2> QED
    BY <2>1, <2>2, <2>3, <2>4 DEF TypeOK
<1>2. Served
  BY DEF Served, Requests, Idle
<1>3. Table
  <2>1. rows = {} /\ indexed = {}
    OBVIOUS
  <2> QED
    BY <2>1 DEF Table
<1> QED
  BY <1>1, <1>2, <1>3 DEF Inv

\* The deltas do not change: only the closed-form functions are in them.
LEMMA SameAnswers ==
  ASSUME UNCHANGED closedForm
  PROVE  /\ generated' = generated /\ unstakeAt' = unstakeAt
         /\ \A h : Changed(h)' = Changed(h)
         /\ Answers' = Answers /\ Requests' = Requests
<1>1. generated' = generated /\ unstakeAt' = unstakeAt
  BY DEF closedForm
<1>2. \A h : Changed(h)' = Changed(h) /\ ActiveAt(h)' = ActiveAt(h)
  BY <1>1 DEF Changed, ActiveAt
<1>3. \A h : Delta(h)' = Delta(h)
  BY <1>1, <1>2 DEF Delta
<1>4. Answers' = Answers
  BY <1>3 DEF Answers
<1> QED
  BY <1>1, <1>2, <1>4 DEF Requests

\* What a step must show of the variables a worker's step leaves alone.
LEMMA KeepsTable ==
  ASSUME Inv, UNCHANGED closedForm, UNCHANGED <<rows, indexed>>
  PROVE  Table'
  BY SameAnswers DEF Inv, Table

LEMMA Statuses == \A answer \in Answers : answer.status \in {200, 404}
  BY DEF Answers, UnknownHeight, Delta

\* One worker takes up a request, or none.
LEMMA OneWorkerServed ==
  ASSUME Inv, UNCHANGED closedForm, NEW w \in Workers, NEW request,
         worker' = [worker EXCEPT ![w] = request],
         request \in Requests,
         request.stage # "idle" => request.query \in 0 .. NumBlocks + 1,
         request.stage = "answered" => request.answer \in Answers
  PROVE  Served'
<1>1. worker' \in [Workers -> Requests]
  BY DEF Inv, Served
<1>2. \A v \in Workers : worker'[v] = IF v = w THEN request ELSE worker[v]
  BY DEF Inv, Served
<1>3. \A v \in Workers :
       /\ worker'[v].stage # "idle" => worker'[v].query \in 0 .. NumBlocks + 1
       /\ worker'[v].stage = "answered" => worker'[v].answer \in Answers
  BY <1>2 DEF Inv, Served
<1> QED
  BY <1>1, <1>3, SameAnswers DEF Served

\* The type invariant, from what the step does to the other variables.
LEMMA TypesKept ==
  ASSUME Inv, UNCHANGED closedForm, Served',
         up' \in BOOLEAN, head' \in 0 .. NumBlocks, knownHead' \in 0 .. NumBlocks,
         rows' \subseteq Rows, indexed' \subseteq Heights
  PROVE  TypeOK'
<1>1. \A w \in Workers :
       /\ worker'[w].stage \in {"idle", "asked", "answered"}
       /\ worker'[w].stage # "idle" => worker'[w].query \in 0 .. NumBlocks + 1
       /\ worker'[w].stage = "answered" => worker'[w].answer.status \in {200, 404}
  <2>1. /\ worker' \in [Workers -> Requests]
        /\ \A w \in Workers :
             /\ worker'[w].stage # "idle" => worker'[w].query \in 0 .. NumBlocks + 1
             /\ worker'[w].stage = "answered" => worker'[w].answer \in Answers
    BY SameAnswers DEF Served
  <2> QED
    BY <2>1, Statuses DEF Requests
<1> QED
  BY <1>1, SameAnswers DEF Inv, TypeOK

LEMMA IdleRequest == Idle \in Requests /\ Idle.stage = "idle"
  BY DEF Idle, Requests

LEMMA StepInv == Inv /\ [Next]_vars => Inv'
<1> SUFFICES ASSUME Inv, [Next]_vars PROVE Inv'
  OBVIOUS
<1> USE HeightFacts
<1>1. ASSUME NEW numBlocks \in 0 .. NumBlocks, Start(numBlocks) PROVE Inv'
  <2>1. Served'
    BY <1>1, SameAnswers DEF Start, Inv, Served
  <2>2. TypeOK'
    BY <1>1, <2>1, TypesKept DEF Start, Inv, TypeOK
  <2> QED
    BY <1>1, <2>1, <2>2, KeepsTable DEF Start, Inv
<1>2. ASSUME Kill PROVE Inv'
  <2>1. Served'
    BY <1>2, SameAnswers, IdleRequest DEF Kill, Inv, Served
  <2>2. TypeOK'
    BY <1>2, <2>1, TypesKept DEF Kill, Inv, TypeOK
  <2> QED
    BY <1>2, <2>1, <2>2, KeepsTable DEF Kill, Inv
<1>3. ASSUME PollHead PROVE Inv'
  <2>1. Served'
    BY <1>3, SameAnswers DEF PollHead, Inv, Served
  <2>2. TypeOK'
    BY <1>3, <2>1, TypesKept DEF PollHead, server, LatestHeight, Inv, TypeOK
  <2> QED
    BY <1>3, <2>1, <2>2, KeepsTable DEF PollHead, Inv
<1>4. ASSUME NEW w \in Workers, NEW h \in Heights, Ask(w, h) PROVE Inv'
  <2> DEFINE request == [stage |-> "asked", query |-> h + 1, answer |-> Nil]
  <2>1. request \in Requests /\ request.query \in 0 .. NumBlocks + 1
    BY DEF Requests, Heights
  <2>2. Served'
    BY <1>4, <2>1, OneWorkerServed DEF Ask
  <2>3. TypeOK'
    BY <1>4, <2>2, TypesKept DEF Ask, server, Inv, TypeOK
  <2> QED
    BY <1>4, <2>2, <2>3, KeepsTable DEF Ask, Inv
<1>5. ASSUME NEW w \in Workers, AskLatest(w) PROVE Inv'
  <2> DEFINE request == [stage |-> "asked", query |-> 0, answer |-> Nil]
  <2>1. request \in Requests /\ request.query \in 0 .. NumBlocks + 1
    BY DEF Requests
  <2>2. Served'
    BY <1>5, <2>1, OneWorkerServed DEF AskLatest
  <2>3. TypeOK'
    BY <1>5, <2>2, TypesKept DEF AskLatest, server, Inv, TypeOK
  <2> QED
    BY <1>5, <2>2, <2>3, KeepsTable DEF AskLatest, Inv
<1>6. ASSUME NEW w \in Workers, Handle(w) PROVE Inv'
  <2> DEFINE answer == IndexerBlobs(worker[w].query)
             request == [worker[w] EXCEPT !.stage = "answered", !.answer = answer]
  <2>1. worker[w] \in Requests /\ worker[w].query \in 0 .. NumBlocks + 1
    BY <1>6 DEF Handle, Inv, Served
  <2>2. answer \in Answers
    BY <2>1, HandlerAnswers DEF Inv
  <2> HIDE DEF answer
  <2>3. /\ request \in Requests
        /\ request.query \in 0 .. NumBlocks + 1
        /\ request.answer \in Answers
    BY <2>1, <2>2 DEF Requests
  <2>4. worker' = [worker EXCEPT ![w] = request]
    BY <1>6 DEF Handle, answer
  <2> HIDE DEF request
  <2>5. Served'
    BY <1>6, <2>3, <2>4, OneWorkerServed DEF Handle
  <2>6. TypeOK'
    BY <1>6, <2>5, TypesKept DEF Handle, server, Inv, TypeOK
  <2> QED
    BY <1>6, <2>5, <2>6, KeepsTable DEF Handle, Inv
<1>7. ASSUME NEW w \in Workers, Store(w) PROVE Inv'
  <2>1. PICK h \in Heights : worker[w].answer = Delta(h)
    <3>1. worker[w].answer \in Answers /\ worker[w].answer # UnknownHeight
      BY <1>7 DEF Store, Inv, Served, UnknownHeight
    <3> QED
      BY <3>1 DEF Answers
  <2>2. /\ worker[w].answer.block = h
        /\ DOMAIN worker[w].answer.changed = Changed(h)
        /\ \A a \in Changed(h) : worker[w].answer.changed[a] = generated[h][a]
    BY <2>1 DEF Delta
  <2> DEFINE stored == {[account |-> a, height |-> h, amount |-> generated[h][a]] : a \in Changed(h)}
  <2>3. rows' = rows \cup stored /\ indexed' = indexed \cup {h}
    BY <1>7, <2>2 DEF Store
  <2>4. stored = {row \in Rows : /\ row.height = h
                                 /\ row.account \in Changed(h)
                                 /\ row.amount = generated[h][row.account]}
    <3>1. stored \subseteq Rows
      BY DEF Inv, TypeOK, Rows, Changed
    <3>2. ASSUME NEW row \in Rows, row.height = h, row.account \in Changed(h),
                 row.amount = generated[h][row.account]
          PROVE  row \in stored
      <4>1. row = [account |-> row.account, height |-> h, amount |-> generated[h][row.account]]
        BY <3>2 DEF Rows
      <4> QED
        BY <3>2, <4>1
    <3>3. ASSUME NEW row \in stored
          PROVE  row.height = h /\ row.account \in Changed(h) /\ row.amount = generated[h][row.account]
      OBVIOUS
    <3> HIDE DEF stored
    <3> QED
      BY <3>1, <3>2, <3>3
  <2>5. Served'
    BY <1>7, IdleRequest, OneWorkerServed DEF Store
  <2> HIDE DEF stored
  <2>6. Table'
    <3>1. UNCHANGED closedForm
      BY <1>7 DEF Store
    <3>2. /\ rows = {row \in Rows : /\ row.height \in indexed
                                    /\ row.account \in Changed(row.height)
                                    /\ row.amount = generated[row.height][row.account]}
          /\ generated' = generated
          /\ \A k : Changed(k)' = Changed(k)
      BY <3>1, SameAnswers DEF Inv, Table
    <3>3. \A row : row \in rows' <=> /\ row \in Rows
                                     /\ row.height \in indexed'
                                     /\ row.account \in Changed(row.height)
                                     /\ row.amount = generated[row.height][row.account]
      BY <2>3, <2>4, <3>2
    <3>4. rows' = {row \in Rows : /\ row.height \in indexed'
                                  /\ row.account \in Changed(row.height)'
                                  /\ row.amount = generated'[row.height][row.account]}
      BY <3>2, <3>3
    <3> QED
      BY <3>4 DEF Table
  <2>7. TypeOK'
    <3>1. rows' \subseteq Rows /\ indexed' \subseteq Heights
      BY <2>3, <2>4 DEF Inv, TypeOK
    <3> QED
      BY <1>7, <2>5, <3>1, TypesKept DEF Store, server, Inv, TypeOK
  <2> QED
    BY <2>5, <2>6, <2>7 DEF Inv
<1>8. ASSUME NEW w \in Workers, GiveUp(w) PROVE Inv'
  <2>1. Served'
    BY <1>8, IdleRequest, OneWorkerServed DEF GiveUp
  <2>2. TypeOK'
    BY <1>8, <2>1, TypesKept DEF GiveUp, server, Inv, TypeOK
  <2> QED
    BY <1>8, <2>1, <2>2, KeepsTable DEF GiveUp, Inv
<1>9. ASSUME UNCHANGED vars PROVE Inv'
  <2>1. Served'
    BY <1>9, SameAnswers DEF vars, Inv, Served
  <2>2. TypeOK'
    BY <1>9, <2>1, TypesKept DEF vars, server, Inv, TypeOK
  <2> QED
    BY <1>9, <2>1, <2>2, KeepsTable DEF vars, Inv
<1> QED
  BY <1>1, <1>2, <1>3, <1>4, <1>5, <1>6, <1>7, <1>8, <1>9 DEF Next

\* The table is the deltas of the heights indexed, whatever the order they were
\* fetched in and the processes they came from.
THEOREM Invariance == Spec => []Inv
  BY InitInv, StepInv, PTL DEF Spec

-----------------------------------------------------------------------------
(* What the runs check. *)

\* Every variable has its type.
THEOREM TypeCorrect == Spec => []TypeOK
<1>1. Inv => TypeOK
  BY DEF Inv
<1> QED
  BY <1>1, Invariance, PTL

\* A height fetched again, from another process, writes the rows there are.
THEOREM RefetchingIsHarmless == Spec => []RepeatsAgree
<1>1. Inv => RepeatsAgree
  BY DEF Inv, Table, RepeatsAgree
<1> QED
  BY <1>1, Invariance, PTL

\* An account has, at height h, the balance of the newest height it changed at.
LEMMA NewestChange ==
  ASSUME NEW h \in Heights, NEW a \in Accounts
  PROVE  \E m \in 1 .. h : /\ a \in Changed(m)
                           /\ generated[m][a] = generated[h][a]
                           /\ \A k \in 1 .. h : a \in Changed(k) => k <= m
<1> USE HeightFacts
<1> DEFINE K == {k \in 1 .. h : a \in Changed(k)}
<1>1. K \in SUBSET (1 .. h) /\ 1 \in K
  BY DEF Changed
<1>2. PICK m \in K : \A k \in K : k <= m
  <2> HIDE DEF K
  <2> QED
    BY <1>1, LargestUpTo
<1> DEFINE D == {k \in m .. h : generated[k][a] # generated[m][a]}
<1>3. D = {}
  <2>1. SUFFICES ASSUME D # {} PROVE FALSE
    OBVIOUS
  <2>2. D \in SUBSET Nat
    OBVIOUS
  <2>3. PICK x \in D : \A y \in D : x <= y
    <3> HIDE DEF D
    <3> QED
      BY <2>1, <2>2, LeastNat
  <2>4. x \in m .. h /\ x # m /\ generated[x][a] # generated[m][a]
    BY <2>3
  <2>5. x - 1 \in m .. h /\ ~(x <= x - 1)
    BY <2>4
  <2>6. generated[x - 1][a] = generated[m][a]
    BY <2>3, <2>5
  <2>7. x \in K
    BY <2>4, <2>6 DEF Changed
  <2> QED
    BY <1>2, <2>4, <2>7
<1>4. h \in m .. h
  OBVIOUS
<1>5. generated[m][a] = generated[h][a]
  BY <1>3, <1>4
<1> QED
  BY <1>2, <1>5

LEMMA TableAddsUp ==
  ASSUME Inv
  PROVE  TableIsSnapshot
<1>1. SUFFICES ASSUME NEW h \in Heights, 1 .. h \subseteq indexed, NEW a \in Accounts
               PROVE  View(a, h) = {generated[h][a]}
  BY DEF TableIsSnapshot
<1>2. PICK m \in 1 .. h : /\ a \in Changed(m)
                          /\ generated[m][a] = generated[h][a]
                          /\ \A k \in 1 .. h : a \in Changed(k) => k <= m
  BY NewestChange
<1> DEFINE upTo == {row \in rows : row.account = a /\ row.height <= h}
           newest == [account |-> a, height |-> m, amount |-> generated[m][a]]
<1>3. newest \in upTo
  <2>1. m \in Heights /\ m \in indexed
    BY <1>1, HeightFacts
  <2>2. newest \in Rows
    BY <2>1 DEF Inv, TypeOK, Rows
  <2>3. newest \in rows
    BY <1>2, <2>1, <2>2 DEF Inv, Table
  <2>4. m <= h
    OBVIOUS
  <2> QED
    BY <2>3, <2>4
<1>4. \A row \in upTo : /\ row.height <= m
                        /\ row.height = m => row.amount = generated[h][a]
  <2>1. SUFFICES ASSUME NEW row \in upTo
                 PROVE  row.height <= m /\ (row.height = m => row.amount = generated[h][a])
    OBVIOUS
  <2>2. /\ row \in Rows /\ row.account = a /\ row.height <= h
        /\ a \in Changed(row.height) /\ row.amount = generated[row.height][a]
    BY DEF Inv, Table
  <2>3. row.height \in 1 .. h
    <3>1. row.height \in Heights
      BY <2>2 DEF Rows
    <3>2. row.height \in Nat \ {0} /\ h \in Nat
      BY <3>1, HeightFacts
    <3> QED
      BY <2>2, <3>2
  <2> QED
    BY <1>2, <2>2, <2>3
<1>5. newest.height = m /\ newest.amount = generated[h][a]
  BY <1>2
<1>6. \A row \in upTo : row.height \in Nat
  BY HeightFacts DEF Inv, TypeOK, Rows
<1> HIDE DEF newest, upTo
<1>7. {row.amount : row \in {r \in upTo : \A s \in upTo : s.height <= r.height}} = {generated[h][a]}
  <2>1. \A row \in upTo : (\A s \in upTo : s.height <= row.height) => row.amount = generated[h][a]
    BY <1>3, <1>4, <1>5, <1>6, HeightFacts
  <2>2. \A s \in upTo : s.height <= newest.height
    BY <1>4, <1>5
  <2> QED
    BY <1>3, <1>5, <2>1, <2>2
<1> QED
  BY <1>7 DEF View, upTo

\* Once the heights up to h are stored the table has the balances of h.
THEOREM DeltasAddUp == Spec => []TableIsSnapshot
<1>1. Inv => TableIsSnapshot
  BY TableAddsUp
<1> QED
  BY <1>1, Invariance, PTL
=============================================================================
