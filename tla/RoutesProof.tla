----------------------------- MODULE RoutesProof -----------------------------
(***************************************************************************)
(* Theorems about Routes, for any numbers of blocks, requests, restarts    *)
(* and readers: what the answers a reader collects have to do with one     *)
(* another.  The first invariant, Inv, says of every answer which entry it *)
(* was made from, given the blocks of the process that made it, and that a *)
(* process has one number of blocks.  The second, WInv, is about the pages *)
(* of a walk: the k-th answer is page k of the list there was when it was  *)
(* given, and what the reader has is one front of a list as long as the    *)
(* pages are of one list.  WalkIsComplete itself only speaks of the end of *)
(* a walk: it says nothing of the step that ends it.                       *)
(***************************************************************************)
EXTENDS Routes, FoldLemmas, SequenceTheorems

Unnamed == HeightRequest = 0 /\ request.query = Absent /\ request.body = Absent

\* The height a route answers for when the head is b.
EntryFor(route, b) ==
  CASE route \in HeightlessRoutes -> b
    [] route = "state" -> IF Unnamed THEN b ELSE HeightRequest
    [] OTHER -> IF Asked(route) = 0 THEN b ELSE Asked(route)

\* An entry the route may answer with when the head is b.
Right(route, entry, b) ==
  /\ entry # Missing => entry = EntryFor(route, b)
  /\ route = "height" => entry = b
  /\ Asked(route) \in 1 .. b /\ request.known => entry = Owed(route)

\* The processes an answer may come from.
FromProcess(answer) ==
  /\ answer.process \in Nat
  /\ answer.process <= process
  /\ answer.process = process => answer.blocks = blocks

Inv ==
  /\ blocks \in Nat
  /\ process \in Nat
  /\ \E S : answers \in Seq(S)
  /\ \A k \in DOMAIN answers :
       /\ Right(answers[k].route, answers[k].entry, answers[k].blocks)
       /\ FromProcess(answers[k])
  /\ \A j, k \in DOMAIN answers :
       answers[j].process = answers[k].process => answers[j].blocks = answers[k].blocks

LEMMA Options == BlockOptions \subseteq Nat
  BY RoutesAssumption

\* What a request asks for is a height.
LEMMA RequestedHeights == BodyHeight \in Nat /\ HeightRequest \in Nat
  BY DEF BodyHeight, HeightRequest

LEMMA InvInit == Init => Inv
<1> SUFFICES ASSUME Init PROVE Inv
  OBVIOUS
<1>1. answers = <<>> /\ blocks \in Nat /\ process \in Nat
  BY Options DEF Init
<1>2. answers \in Seq({}) /\ DOMAIN answers = {}
  BY <1>1
<1> QED
  BY <1>1, <1>2 DEF Inv

-----------------------------------------------------------------------------
(* Every handler replies with a right entry. *)

\* A reply with a right entry preserves the invariant.
LEMMA ReplyKeeps ==
  ASSUME Inv, NEW route, NEW found, NEW entry, NEW page,
         Reply(route, found, entry, page), Right(route, entry, blocks)
  PROVE  Inv'
<1> DEFINE answer == [route |-> route, process |-> process, blocks |-> blocks,
                      found |-> found, entry |-> entry, page |-> page]
<1>1. answers' = Append(answers, answer) /\ UNCHANGED <<blocks, process, request>>
  BY DEF Reply, server, reader
<1>2. PICK S : answers \in Seq(S)
  BY DEF Inv
<1>3. answers \in Seq(S \cup {answer}) /\ answer \in S \cup {answer}
  BY <1>2
<1>4. answer.route = route /\ answer.entry = entry
      /\ answer.blocks = blocks /\ answer.process = process
  OBVIOUS
<1> HIDE DEF answer
<1>5. /\ answers' \in Seq(S \cup {answer})
      /\ DOMAIN answers' = DOMAIN answers \cup {Len(answers) + 1}
      /\ \A k \in DOMAIN answers : answers'[k] = answers[k]
      /\ answers'[Len(answers) + 1] = answer
  BY <1>1, <1>3
<1>6. \A r, e, b : Right(r, e, b)' <=> Right(r, e, b)
  BY <1>1 DEF Right, EntryFor, Unnamed, Asked, Owed, HeightRequest, BodyHeight
<1>7. Right(answer.route, answer.entry, answer.blocks) /\ FromProcess(answer)
  BY <1>4 DEF FromProcess, Inv
<1>8. \A k \in DOMAIN answers' :
        /\ Right(answers'[k].route, answers'[k].entry, answers'[k].blocks)
        /\ FromProcess(answers'[k])
  BY <1>5, <1>7 DEF Inv
<1>9. \A j, k \in DOMAIN answers' :
        answers'[j].process = answers'[k].process => answers'[j].blocks = answers'[k].blocks
  BY <1>4, <1>5 DEF Inv, FromProcess
<1>10. \A a : FromProcess(a)' <=> FromProcess(a)
  BY <1>1 DEF FromProcess
<1>11. \A k \in DOMAIN answers' :
        /\ Right(answers[k].route, answers[k].entry, answers[k].blocks)'
        /\ FromProcess(answers[k])'
  BY <1>1, <1>8 DEF Right, EntryFor, Unnamed, Asked, Owed, HeightRequest, BodyHeight, FromProcess
<1> QED
  BY <1>1, <1>5, <1>9, <1>11 DEF Inv

LEMMA QueryKeeps == ASSUME Inv, Query PROVE Inv'
<1> USE RequestedHeights
<1>0. blocks \in Nat /\ Missing \notin Nat
  BY RoutesAssumption DEF Inv
<1> USE <1>0
<1> USE DEF Right, EntryFor, Asked, Owed, Unnamed, HeightlessRoutes, QueryStringRoutes
<1>1. ASSUME QueryHeight PROVE Inv'
  <2>1. Right("height", IF blocks \in StateKeys THEN blocks ELSE Missing, blocks)
    BY DEF StateKeys
  <2> QED
    BY <1>1, <2>1, ReplyKeeps DEF QueryHeight, ReplyEntry
<1>2. ASSUME QueryBlock PROVE Inv'
  <2> DEFINE h == OrLatest(HeightRequest)
  <2>1. Right("block", IF h \in BlockKeys THEN h ELSE Missing, blocks)
    BY DEF BlockKeys, OrLatest
  <2> QED
    BY <1>2, <2>1, ReplyKeeps DEF QueryBlock, ReplyEntry
<1>3. ASSUME QueryCert PROVE Inv'
  <2> DEFINE h == OrLatest(HeightRequest)
  <2>1. Right("cert", IF h \in BlockKeys THEN h ELSE Missing, blocks)
    BY DEF BlockKeys, OrLatest
  <2> QED
    BY <1>3, <2>1, ReplyKeeps DEF QueryCert, ReplyEntry
<1>4. ASSUME QueryState PROVE Inv'
  <2> DEFINE h == IF Unnamed THEN blocks ELSE HeightRequest
  <2>1. Right("state", IF h \in StateKeys THEN h ELSE Missing, blocks)
    BY DEF StateKeys
  <2> QED
    BY <1>4, <2>1, ReplyKeeps DEF QueryState, ReplyEntry
<1>5. ASSUME QuerySupply PROVE Inv'
  <2> DEFINE h == OrLatest(HeightRequest)
  <2>1. Right("supply", IF h \in StateKeys THEN h ELSE Missing, blocks)
    BY DEF StateKeys, OrLatest
  <2> QED
    BY <1>5, <2>1, ReplyKeeps DEF QuerySupply, ReplyEntry
<1>6. ASSUME NEW route \in BlockRoutes, QueryBlockList(route) PROVE Inv'
  <2> DEFINE h == OrLatest(BodyHeight)
  <2>1. Right(route, IF h \in BlockKeys THEN h ELSE Missing, blocks)
    BY DEF BlockKeys, OrLatest, BlockRoutes
  <2> QED
    BY <1>6, <2>1, ReplyKeeps DEF QueryBlockList, ReplyPage
<1>7. ASSUME NEW route \in SnapshotRoutes, QuerySnapshotList(route) PROVE Inv'
  <2> DEFINE h == OrLatest(BodyHeight)
  <2>1. Right(route, IF h \in StateKeys THEN h ELSE Missing, blocks)
    BY DEF StateKeys, OrLatest, SnapshotRoutes
  <2> QED
    BY <1>7, <2>1, ReplyKeeps DEF QuerySnapshotList, ReplyPage, ReplyEntry
<1>8. ASSUME QueryOrders PROVE Inv'
  <2> DEFINE h == OrLatest(BodyHeight)
             keys == IF request.known THEN StateKeys ELSE {}
  <2>1. Right("orders", IF h \in keys THEN h ELSE Missing, blocks)
    BY DEF StateKeys, OrLatest
  <2> QED
    BY <1>8, <2>1, ReplyKeeps DEF QueryOrders, ReplyEntry
<1>9. ASSUME QueryDexPrice PROVE Inv'
  <2> DEFINE h == OrLatest(BodyHeight)
  <2>1. Right("dexPrice", IF h \in BlockKeys /\ request.known THEN h ELSE Missing, blocks)
    BY DEF BlockKeys, OrLatest
  <2> QED
    BY <1>9, <2>1, ReplyKeeps DEF QueryDexPrice
<1>10. ASSUME NEW route \in {"dexBatch", "nextDexBatch"}, QueryDexBatch(route) PROVE Inv'
  <2> DEFINE h == OrLatest(BodyHeight)
             keys == IF request.known THEN BlockKeys ELSE {}
  <2>1. Right(route, IF h \in keys THEN h ELSE Missing, blocks)
    BY DEF BlockKeys, OrLatest
  <2> QED
    BY <1>10, <2>1, ReplyKeeps DEF QueryDexBatch, ReplyEntry
<1>11. ASSUME QueryNonSigners PROVE Inv'
  <2> DEFINE h == OrLatest(HeightRequest)
             listed == h \in StateKeys /\ (h = 0 \/ h % NonSignerPeriod # 0)
  <2>1. Right("nonSigners", IF listed THEN h ELSE Missing, blocks)
    BY DEF StateKeys, OrLatest
  <2> QED
    BY <1>11, <2>1, ReplyKeeps DEF QueryNonSigners
<1>12. ASSUME QueryDoubleSigners PROVE Inv'
  <2> DEFINE h == OrLatest(HeightRequest)
  <2>1. Right("doubleSigners", IF h \in StateKeys THEN h ELSE Missing, blocks)
    BY DEF StateKeys, OrLatest
  <2> QED
    BY <1>12, <2>1, ReplyKeeps DEF QueryDoubleSigners
<1>13. ASSUME QueryCommittees PROVE Inv'
  <2>1. Right("committees", IF blocks \in StateKeys THEN blocks ELSE Missing, blocks)
    BY DEF StateKeys
  <2> QED
    BY <1>13, <2>1, ReplyKeeps DEF QueryCommittees, ReplyEntry
<1> QED
  BY <1>1, <1>2, <1>3, <1>4, <1>5, <1>6, <1>7, <1>8, <1>9, <1>10, <1>11, <1>12, <1>13 DEF Query

-----------------------------------------------------------------------------
(* The end and the restart of a process. *)

\* A step that leaves the request and the answers, and the blocks of the process
\* unless it is a new one, preserves the invariant.
LEMMA RestKeeps ==
  ASSUME Inv, blocks' \in Nat, UNCHANGED <<request, answers>>,
         \/ UNCHANGED <<blocks, process>>
         \/ process' = process + 1
  PROVE  Inv'
<1>1. process' \in Nat /\ \E S : answers' \in Seq(S)
  BY DEF Inv
<1>2. \A k \in DOMAIN answers :
        Right(answers[k].route, answers[k].entry, answers[k].blocks)'
  BY DEF Inv, Right, EntryFor, Unnamed, Asked, Owed, HeightRequest, BodyHeight
<1>3. \A k \in DOMAIN answers : FromProcess(answers[k])'
  BY DEF Inv, FromProcess
<1> QED
  BY <1>1, <1>2, <1>3 DEF Inv

LEMMA InvNext == Inv /\ [Next]_vars => Inv'
<1> SUFFICES ASSUME Inv, [Next]_vars PROVE Inv'
  OBVIOUS
<1>1. CASE Query
  BY <1>1, QueryKeeps
<1>2. CASE Kill
  BY <1>2, RestKeeps DEF Kill, reader, Inv
<1>3. CASE Restart
  BY <1>3, RestKeeps, Options DEF Restart, reader
<1>4. CASE UNCHANGED vars
  BY <1>4, RestKeeps DEF vars, server, reader, Inv
<1> QED
  BY <1>1, <1>2, <1>3, <1>4 DEF Next

\* Every answer was made from the entry its route owes the reader.
THEOREM Invariance == Spec => []Inv
  BY InvInit, InvNext, PTL DEF Spec

-----------------------------------------------------------------------------
(* What the runs check. *)

\* A process that has announced its head answers every route for every height
\* up to it from that height, but for the non-signers of every tenth height,
\* where the answer is empty.
THEOREM AnnouncementsAreKept == Spec => []AnnouncedHeightsAreServed
<1>1. ASSUME Inv PROVE AnnouncedHeightsAreServed
  <2>1. SUFFICES ASSUME NEW i \in DOMAIN answers, NEW j \in DOMAIN answers,
                        answers[i].route = "height",
                        answers[j].process = answers[i].process,
                        Asked(answers[j].route) \in 1 .. answers[i].entry, request.known
                 PROVE  answers[j].entry = Owed(answers[j].route)
    BY DEF AnnouncedHeightsAreServed
  <2>2. answers[i].entry = answers[i].blocks /\ answers[i].blocks = answers[j].blocks
    BY <1>1, <2>1 DEF Inv, Right
  <2> QED
    BY <1>1, <2>1, <2>2 DEF Inv, Right
<1> QED
  BY <1>1, Invariance, PTL

\* Routes asked for heights by number answer from one height exactly if they are
\* asked for the same; routes of one process asked for the latest do too.
THEOREM RoutesAgree == Spec => []RoutesAgreeOnHeight
<1>1. ASSUME Inv PROVE RoutesAgreeOnHeight
  <2>1. SUFFICES ASSUME NEW i \in DOMAIN answers, NEW j \in DOMAIN answers,
                        answers[i].entry # Missing, answers[j].entry # Missing
                 PROVE  /\ ~AsksForLatest(answers[i].route) /\ ~AsksForLatest(answers[j].route) =>
                             (answers[i].entry = answers[j].entry
                                <=> Asked(answers[i].route) = Asked(answers[j].route))
                        /\ /\ AsksForLatest(answers[i].route) /\ AsksForLatest(answers[j].route)
                           /\ answers[i].process = answers[j].process
                           => answers[i].entry = answers[j].entry
    BY DEF RoutesAgreeOnHeight
  <2>2. /\ answers[i].entry = EntryFor(answers[i].route, answers[i].blocks)
        /\ answers[j].entry = EntryFor(answers[j].route, answers[j].blocks)
    BY <1>1, <2>1 DEF Inv, Right
  <2>3. \A route, b :
          EntryFor(route, b) = IF AsksForLatest(route) THEN b ELSE Asked(route)
    BY RequestedHeights
       DEF EntryFor, AsksForLatest, AsksForGenesis, Unnamed, Asked, HeightlessRoutes,
           QueryStringRoutes
  <2>4. answers[i].process = answers[j].process => answers[i].blocks = answers[j].blocks
    BY <1>1 DEF Inv
  <2> QED
    BY <2>2, <2>3, <2>4
<1> QED
  BY <1>1, Invariance, PTL

-----------------------------------------------------------------------------
(* The pages of a walk. *)

Full == EffectivePerPage(walk.size)

\* The height a list is asked for when the head is b, and the list's length.
HeightAt(b) == IF BodyHeight = 0 THEN b ELSE BodyHeight

LengthAt(route, b) ==
  IF route \in SnapshotRoutes THEN SnapshotLists[route]
  ELSE IF HeightAt(b) \in 1 .. b THEN BlockLists[route][HeightAt(b)] ELSE 0

\* A request, and what a reader may walk.
Requests ==
  /\ BodyHeight \in Heights /\ HeightRequest \in Heights
  /\ walk.size \in 0 .. IntLimit - 1
  /\ Walking => walk.route \in BlockRoutes \cup SnapshotRoutes

\* The k-th answer of a walk is page k of the list there was, and the walk went
\* on from it because it is not the last page of that list.
Walked ==
  Walking =>
    \A k \in DOMAIN answers :
      /\ answers[k].found =>
           answers[k].page = PageOf(LengthAt(walk.route, answers[k].blocks), k, walk.size)
      /\ k < Len(answers) => answers[k].found /\ k < answers[k].page.totalPages

\* All the pages are of one list.
OneList(h, length) ==
  \A k \in DOMAIN answers :
    HeightAt(answers[k].blocks) = h /\ LengthAt(walk.route, answers[k].blocks) = length

\* What the reader has is what the pages have, as far as they are of one list.
Gathered ==
  Walking =>
    /\ answers = <<>> => collected = <<>>
    /\ answers # <<>> /\ Last(answers).found =>
         \A h, length \in Nat :
           OneList(h, length) => collected = Items(h, 0, Last(answers).page.last)

AllRoutes == QueryStringRoutes \cup HeightlessRoutes \cup BodyRoutes

WInv == TypeOK /\ Requests /\ Walked /\ Gathered

-----------------------------------------------------------------------------
(* What paginate and buildPage return for the pages of a walk. *)

LEMMA WrapFits == ASSUME NEW k \in 0 .. IntLimit - 1 PROVE Wrap(k) = k
<1>1. /\ IntLimit \in Nat /\ k \in Nat
      /\ k + IntLimit \in Nat /\ k + IntLimit < 2 * IntLimit /\ 2 * IntLimit \in Nat \ {0}
  BY PagingAssumption
<1>2. \A a \in Nat, m \in Nat \ {0} : a < m => a % m = a
  OBVIOUS
<1>3. (k + IntLimit) % (2 * IntLimit) = k + IntLimit
  BY <1>1, <1>2
<1> QED
  BY <1>1, <1>3 DEF Wrap

LEMMA FullFacts ==
  ASSUME NEW size \in 0 .. IntLimit - 1
  PROVE  EffectivePerPage(size) \in 1 .. MaxPerPage
  BY PagingAssumption DEF EffectivePerPage, Lesser

LEMMA TotalPagesFacts ==
  ASSUME NEW size \in 0 .. IntLimit - 1, NEW t \in Nat
  PROVE  /\ TotalPages(t, size) \in Nat
         /\ \A k \in Nat : k < TotalPages(t, size) <=> k * EffectivePerPage(size) < t
<1> DEFINE full == EffectivePerPage(size)
<1>1. full \in Nat \ {0}
  BY FullFacts, PagingAssumption
<1>2. TotalPages(t, size) = (t + full - 1) \div full
  BY <1>1 DEF TotalPages
<1> QED
  BY <1>1, <1>2, CeilDiv

LEMMA PageFields ==
  ASSUME NEW t, NEW number \in Nat \ {0}, NEW size
  PROVE  /\ PageOf(t, number, size).first = Start(t, number, size)
         /\ PageOf(t, number, size).last = End(t, number, size)
         /\ PageOf(t, number, size).number = number
         /\ PageOf(t, number, size).totalPages = TotalPages(t, size)
         /\ PageOf(t, number, size) = [first |-> Start(t, number, size), last |-> End(t, number, size),
                                       number |-> number, totalPages |-> TotalPages(t, size)]
  BY DEF PageOf, EffectivePage

\* A page of a list begins after the pages before it, if their items can be
\* counted.
LEMMA PageFacts ==
  ASSUME NEW size \in 0 .. IntLimit - 1, NEW t \in Nat, t + MaxPerPage < IntLimit,
         NEW number \in Nat \ {0}, (number - 1) * EffectivePerPage(size) < IntLimit
  PROVE  LET skipped == (number - 1) * EffectivePerPage(size)
             page == PageOf(t, number, size)
         IN  /\ skipped \in Nat /\ page \in Pages
             /\ page.first = Lesser(skipped, t)
             /\ page.last = Lesser(Lesser(skipped, t) + EffectivePerPage(size), t)
             /\ page.first <= page.last /\ page.last <= t
<1> DEFINE full == EffectivePerPage(size)
           skipped == (number - 1) * full
           page == PageOf(t, number, size)
<1>1. full \in 1 .. MaxPerPage /\ MaxPerPage \in Nat /\ IntLimit \in Nat
  BY FullFacts, PagingAssumption
<1>2. EffectivePage(number) = number
  BY DEF EffectivePage
<1>3. Start(t, number, size) = Lesser(Wrap(skipped), t)
  BY <1>2 DEF Start
<1>4. End(t, number, size) = Lesser(Wrap(Lesser(Wrap(skipped), t) + full), t)
  BY <1>3 DEF End
<1> HIDE DEF full
<1>5. skipped \in Nat /\ skipped < IntLimit
  <2>1. skipped \in Nat
    BY <1>1
  <2> QED
    BY <2>1 DEF full
<1> HIDE DEF skipped
<1>6. Wrap(skipped) = skipped
  BY <1>1, <1>5, WrapFits
<1>7. Lesser(skipped, t) \in 0 .. t
  BY <1>5 DEF Lesser
<1>8. Wrap(Lesser(skipped, t) + full) = Lesser(skipped, t) + full
  <2> DEFINE k == Lesser(skipped, t) + full
  <2>1. k \in 0 .. IntLimit - 1
    BY <1>1, <1>7
  <2> HIDE DEF k
  <2>2. Wrap(k) = k
    BY <2>1, WrapFits
  <2> QED
    BY <2>2 DEF k
<1>9. /\ page = [first |-> Start(t, number, size), last |-> End(t, number, size),
                 number |-> number, totalPages |-> TotalPages(t, size)]
      /\ page.first = Start(t, number, size) /\ page.last = End(t, number, size)
  BY PageFields
<1>10. TotalPages(t, size) \in Nat
  BY TotalPagesFacts
<1> HIDE DEF page
<1>11. /\ page.first = Lesser(skipped, t) /\ page.last = Lesser(Lesser(skipped, t) + full, t)
  BY <1>3, <1>4, <1>6, <1>8, <1>9
<1>12. /\ page.first \in Nat /\ page.last \in Nat /\ page.first <= page.last /\ page.last <= t
  BY <1>1, <1>7, <1>11 DEF Lesser
<1>13. page \in Pages
  BY <1>9, <1>10, <1>12 DEF Pages
<1> QED
  BY <1>5, <1>11, <1>12, <1>13 DEF page, skipped, full

LEMMA ItemsAre ==
  ASSUME NEW S, NEW h \in S, NEW a \in Nat, NEW b \in Nat, a <= b
  PROVE  /\ Items(h, a, b) \in Seq([height : S, index : Nat \ {0}]) /\ Len(Items(h, a, b)) = b - a
         /\ \A i \in 1 .. b - a : Items(h, a, b)[i] = [height |-> h, index |-> a + i]
<1> DEFINE Item == [height : S, index : Nat \ {0}]
<1>1. b - a \in Nat
  OBVIOUS
<1>2. \A i \in 1 .. b - a : [height |-> h, index |-> a + i] \in Item
  OBVIOUS
<1> HIDE DEF Item
<1>3. Items(h, a, b) \in [1 .. b - a -> Item]
  BY <1>2 DEF Items
<1>4. Items(h, a, b) \in Seq(Item)
  BY <1>1, <1>3, SeqDef
<1>5. DOMAIN Items(h, a, b) = 1 .. b - a
  BY <1>3
<1>6. Len(Items(h, a, b)) = b - a
  BY <1>1, <1>4, <1>5, LenProperties
<1> QED
  BY <1>4, <1>6 DEF Items, Item

LEMMA ItemsJoin ==
  ASSUME NEW h, NEW a \in Nat, NEW b \in Nat, NEW c \in Nat, a <= b, b <= c
  PROVE  Items(h, a, b) \o Items(h, b, c) = Items(h, a, c)
<1>0. h \in {h}
  OBVIOUS
<1> DEFINE Item == [height : {h}, index : Nat \ {0}]
           front == Items(h, a, b)
           back == Items(h, b, c)
           whole == Items(h, a, c)
           joined == front \o back
<1>1. a <= c
  OBVIOUS
<1>2. /\ front \in Seq(Item) /\ Len(front) = b - a
      /\ \A i \in 1 .. b - a : front[i] = [height |-> h, index |-> a + i]
  BY <1>0, ItemsAre
<1>3. /\ back \in Seq(Item) /\ Len(back) = c - b
      /\ \A i \in 1 .. c - b : back[i] = [height |-> h, index |-> b + i]
  BY <1>0, ItemsAre
<1>4. /\ whole \in Seq(Item) /\ Len(whole) = c - a
      /\ \A i \in 1 .. c - a : whole[i] = [height |-> h, index |-> a + i]
  BY <1>0, <1>1, ItemsAre
<1> HIDE DEF Item, front, back, whole
<1>5. /\ joined \in Seq(Item) /\ Len(joined) = Len(front) + Len(back)
      /\ \A i \in 1 .. Len(joined) :
           joined[i] = IF i <= Len(front) THEN front[i] ELSE back[i - Len(front)]
  <2> HIDE DEF joined
  <2>1. /\ front \o back \in Seq(Item) /\ Len(front \o back) = Len(front) + Len(back)
        /\ \A i \in 1 .. Len(front) + Len(back) :
             (front \o back)[i] = IF i <= Len(front) THEN front[i] ELSE back[i - Len(front)]
    BY <1>2, <1>3, ConcatProperties
  <2> QED
    BY <2>1 DEF joined
<1> HIDE DEF joined
<1>6. Len(joined) = c - a
  BY <1>2, <1>3, <1>5
<1>7. ASSUME NEW i \in 1 .. c - a PROVE joined[i] = whole[i]
  <2>1. CASE i <= b - a
    <3>1. i \in 1 .. b - a
      BY <2>1
    <3> QED
      BY <1>2, <1>4, <1>5, <1>6, <2>1, <3>1
  <2>2. CASE ~(i <= b - a)
    <3>1. i - (b - a) \in 1 .. c - b /\ b + (i - (b - a)) = a + i
      BY <2>2
    <3>2. joined[i] = back[i - (b - a)]
      BY <1>2, <1>5, <1>6, <2>2
    <3> QED
      BY <1>3, <1>4, <3>1, <3>2
  <2> QED
    BY <2>1, <2>2
<1>8. joined = whole
  BY <1>4, <1>5, <1>6, <1>7, SeqEqual
<1> QED
  BY <1>8 DEF joined, front, back, whole

-----------------------------------------------------------------------------
(* What a step of the reader may use. *)

LEMMA ListFacts ==
  ASSUME Requests, NEW route \in BlockRoutes \cup SnapshotRoutes, NEW b \in Nat, b <= MaxHeight
  PROVE  /\ LengthAt(route, b) \in Nat /\ LengthAt(route, b) + MaxPerPage < IntLimit
         /\ HeightAt(b) \in Heights
         /\ route \in BlockRoutes /\ LengthAt(route, b) # 0 => HeightAt(b) \in 1 .. b
<1>1. /\ BodyHeight \in Nat /\ BodyHeight <= MaxHeight /\ MaxHeight \in Nat
      /\ MaxPerPage \in Nat /\ IntLimit \in Nat /\ MaxPerPage < IntLimit
  BY RoutesAssumption, PagingAssumption DEF Requests, Heights
<1>2. HeightAt(b) \in Heights
  BY <1>1 DEF HeightAt, Heights
<1>3. CASE route \in SnapshotRoutes
  <2>1. route \notin BlockRoutes
    BY <1>3 DEF BlockRoutes, SnapshotRoutes
  <2>2. SnapshotLists[route] \in Nat /\ SnapshotLists[route] + MaxPerPage < IntLimit
    BY <1>3, RoutesAssumption
  <2> QED
    BY <1>2, <1>3, <2>1, <2>2 DEF LengthAt
<1>4. CASE route \in BlockRoutes
  <2>1. route \notin SnapshotRoutes
    BY <1>4 DEF BlockRoutes, SnapshotRoutes
  <2>2. CASE HeightAt(b) \in 1 .. b
    <3> DEFINE h == HeightAt(b)
    <3>1. h \in 1 .. b
      BY <2>2
    <3> HIDE DEF h
    <3>2. h \in 1 .. MaxHeight
      BY <1>1, <3>1
    <3>3. BlockLists[route][h] \in Nat /\ BlockLists[route][h] + MaxPerPage < IntLimit
      BY <1>4, <3>2, RoutesAssumption
    <3>4. LengthAt(route, b) = BlockLists[route][h]
      BY <2>1, <2>2 DEF LengthAt, h
    <3> QED
      BY <1>2, <2>2, <3>3, <3>4
  <2>3. CASE HeightAt(b) \notin 1 .. b
    <3>1. LengthAt(route, b) = 0
      BY <2>1, <2>3 DEF LengthAt
    <3> QED
      BY <1>1, <1>2, <3>1
  <2> QED
    BY <2>2, <2>3
<1> QED
  BY <1>3, <1>4

LEMMA AnswerFacts ==
  ASSUME TypeOK
  PROVE  /\ answers \in Seq(Answers) /\ Len(answers) \in Nat /\ DOMAIN answers = 1 .. Len(answers)
         /\ answers = <<>> <=> Len(answers) = 0
         /\ answers # <<>> => Len(answers) \in DOMAIN answers /\ Last(answers) = answers[Len(answers)]
         /\ \A k \in DOMAIN answers : answers[k] \in Answers /\ answers[k].blocks \in Nat
                                      /\ answers[k].blocks <= MaxHeight
<1>1. answers \in Seq(Answers)
  BY DEF TypeOK
<1>2. Len(answers) \in Nat /\ DOMAIN answers = 1 .. Len(answers)
  BY <1>1, LenProperties
<1>3. answers = <<>> <=> Len(answers) = 0
  BY <1>1, EmptySeq
<1>4. \A k \in DOMAIN answers : answers[k] \in Answers
  BY <1>1, <1>2, ElementOfSeq
<1>5. \A k \in DOMAIN answers : answers[k].blocks \in BlockOptions
  BY <1>4 DEF Answers
<1>6. \A b \in BlockOptions : b \in Nat /\ b <= MaxHeight
  BY RoutesAssumption
<1>7. \A k \in DOMAIN answers : answers[k].blocks \in Nat /\ answers[k].blocks <= MaxHeight
  BY <1>5, <1>6
<1> QED
  BY <1>1, <1>2, <1>3, <1>4, <1>7 DEF Last

\* The page a reader asks for, and that a walk goes on from a page that is not
\* the last.
LEMMA AskedPage ==
  ASSUME WInv, NEW route, Asks(route)
  PROVE  /\ NextPage \in Nat \ {0} /\ (NextPage - 1) * Full < IntLimit
         /\ Full \in 1 .. MaxPerPage
         /\ Walking => /\ route = walk.route /\ NextPage = Len(answers) + 1
                       /\ answers # <<>> =>
                            /\ Last(answers).found /\ Len(answers) < Last(answers).page.totalPages
                            /\ Len(answers) * Full
                                 < LengthAt(walk.route, Last(answers).blocks)
<1>1. /\ walk.size \in 0 .. IntLimit - 1 /\ Requests /\ TypeOK /\ Walked
      /\ IntLimit \in Nat /\ MaxPerPage \in Nat /\ MaxPerPage < IntLimit
  BY PagingAssumption DEF WInv, Requests
<1>2. Full \in 1 .. MaxPerPage
  BY <1>1, FullFacts DEF Full
<1>3. Len(answers) \in Nat /\ (answers = <<>> <=> Len(answers) = 0)
  BY <1>1, AnswerFacts
<1>4. CASE ~(Walking /\ answers # <<>>)
  <2>1. NextPage = 1 /\ 0 * Full < IntLimit /\ (NextPage - 1) * Full < IntLimit
    <3>1. NextPage = 1
      BY <1>4 DEF NextPage
    <3>2. 0 * Full = 0 /\ (1 - 1) * Full = 0
      BY <1>2
    <3> QED
      BY <1>1, <3>1, <3>2
  <2> QED
    BY <1>2, <1>3, <1>4, <2>1 DEF Asks
<1>5. CASE Walking /\ answers # <<>>
  <2> DEFINE k == Len(answers)
             answer == answers[k]
             t == LengthAt(walk.route, answer.blocks)
  <2>1. k \in Nat \ {0} /\ k \in DOMAIN answers /\ Last(answers) = answer
    BY <1>1, <1>5, AnswerFacts
  <2>2. answer.found /\ NextPage = answer.page.number + 1 /\ NextPage <= answer.page.totalPages
        /\ route = walk.route
    BY <1>5, <2>1 DEF Asks, NextPage
  <2>3. answer.page = PageOf(t, k, walk.size)
    BY <1>1, <1>5, <2>1, <2>2 DEF Walked
  <2>4. walk.route \in BlockRoutes \cup SnapshotRoutes /\ answer.blocks \in Nat /\ answer.blocks <= MaxHeight
    BY <1>1, <1>5, <2>1, AnswerFacts DEF Requests
  <2>5. t \in Nat /\ t + MaxPerPage < IntLimit
    BY <1>1, <2>4, ListFacts
  <2> HIDE DEF k, answer, t
  <2>6. answer.page.number = k /\ answer.page.totalPages = TotalPages(t, walk.size)
    BY <2>1, <2>3, PageFields
  <2>7. /\ TotalPages(t, walk.size) \in Nat
        /\ \A j \in Nat : j < TotalPages(t, walk.size) <=> j * Full < t
    BY <1>1, <2>5, TotalPagesFacts DEF Full
  <2>8. k < TotalPages(t, walk.size)
    BY <2>1, <2>2, <2>6, <2>7
  <2>9. k * Full < t
    BY <2>1, <2>7, <2>8
  <2> DEFINE passed == k * Full
  <2>10. passed \in Nat /\ passed < IntLimit
    BY <1>1, <1>2, <2>1, <2>5, <2>9
  <2>11. NextPage = k + 1 /\ (k + 1) - 1 = k
    BY <2>1, <2>2, <2>6
  <2> QED
    BY <1>2, <2>1, <2>2, <2>6, <2>8, <2>9, <2>10, <2>11 DEF k, answer, t
<1> QED
  BY <1>4, <1>5

-----------------------------------------------------------------------------
(* A walk begins with nothing, and a reply adds the next page of its list. *)

LEMMA WInit == Init => WInv
<1> SUFFICES ASSUME Init PROVE WInv
  OBVIOUS
<1>1. /\ answers = <<>> /\ collected = <<>> /\ up = TRUE /\ process = 1 /\ blocks \in BlockOptions
      /\ answers \in Seq(Answers) /\ DOMAIN answers = {}
      /\ collected \in Seq([height : Heights, index : Nat \ {0}])
  BY DEF Init
<1>2. 1 \in 1 .. MaxProcesses /\ 0 \in Heights /\ 0 \in 0 .. IntLimit - 1
  BY RoutesAssumption, PagingAssumption DEF Heights
<1>3. TypeOK
  BY <1>1, <1>2 DEF TypeOK
<1>4. /\ request.query \in {Absent, Garbage} \cup Heights
      /\ request.body \in {Absent, Garbage} \cup Heights
  BY DEF Init, Heights
<1>5. BodyHeight \in Heights
  BY <1>2, <1>4, RoutesAssumption DEF BodyHeight
<1>6. HeightRequest \in Heights
  BY <1>4, <1>5, RoutesAssumption DEF HeightRequest
<1>7. walk.size \in 0 .. IntLimit - 1
  <2>1. walk.size \in {0} \cup PageSizes
    BY DEF Init
  <2> QED
    BY <1>2, <2>1, RoutesAssumption
<1>8. Walking => walk.route \in BlockRoutes \cup SnapshotRoutes
  BY DEF Init, Walking
<1>9. Requests
  BY <1>5, <1>6, <1>7, <1>8 DEF Requests
<1>10. Walked /\ Gathered
  BY <1>1 DEF Walked, Gathered
<1> QED
  BY <1>3, <1>9, <1>10 DEF WInv

\* What an answer added to those there are must be like.
LEMMA AnswerKeeps ==
  ASSUME WInv, NEW answer \in Answers, answers' = Append(answers, answer),
         UNCHANGED <<server, reader>>,
         answer.entry # Missing => answer.found /\ answer.entry <= answer.blocks,
         answer.page.first <= answer.page.last,
         collected' \in Seq([height : Heights, index : Nat \ {0}]),
         Walking /\ answer.found =>
           answer.page = PageOf(LengthAt(walk.route, answer.blocks), Len(answers) + 1, walk.size),
         Walking /\ answers # <<>> =>
           Last(answers).found /\ Len(answers) < Last(answers).page.totalPages,
         Walking /\ answer.found =>
           \A h, length \in Nat :
             /\ OneList(h, length)
             /\ HeightAt(answer.blocks) = h /\ LengthAt(walk.route, answer.blocks) = length
             => collected' = Items(h, 0, answer.page.last)
  PROVE  WInv'
<1> DEFINE n == Len(answers)
           new == answers'
<1>1. /\ UNCHANGED <<up, blocks, process, request, walk>>
      /\ TypeOK /\ Requests /\ Walked
  BY DEF server, reader, WInv
<1>2. /\ answers \in Seq(Answers) /\ n \in Nat /\ DOMAIN answers = 1 .. n
      /\ answers = <<>> <=> n = 0
      /\ answers # <<>> => Last(answers) = answers[n]
  BY <1>1, AnswerFacts
<1>3. /\ new \in Seq(Answers) /\ Len(new) = n + 1 /\ DOMAIN new = 1 .. n + 1
      /\ \A k \in 1 .. n : new[k] = answers[k]
      /\ new[n + 1] = answer
  BY <1>2
<1> HIDE DEF n, new
<1>4. \A k \in DOMAIN new : (k \in DOMAIN answers /\ new[k] = answers[k]) \/ (k = n + 1 /\ new[k] = answer)
  BY <1>2, <1>3
<1>5. TypeOK'
  <2>1. \A k \in DOMAIN new :
          /\ new[k].entry # Missing => new[k].found /\ new[k].entry <= new[k].blocks
          /\ new[k].page.first <= new[k].page.last
    BY <1>1, <1>4 DEF TypeOK
  <2> QED
    BY <1>1, <1>3, <2>1 DEF TypeOK, new
<1>6. Requests'
  BY <1>1 DEF Requests, BodyHeight, HeightRequest, Walking
<1>7. Walked'
  <2>1. ASSUME Walking, NEW k \in DOMAIN new
        PROVE  /\ new[k].found => new[k].page = PageOf(LengthAt(walk.route, new[k].blocks), k, walk.size)
               /\ k < Len(new) => new[k].found /\ k < new[k].page.totalPages
    <3>1. CASE k = n + 1
      BY <1>2, <1>3, <2>1, <3>1 DEF n
    <3>2. CASE k # n + 1
      <4>1. k \in 1 .. n /\ k \in DOMAIN answers /\ new[k] = answers[k] /\ k \in Nat
        BY <1>2, <1>3, <2>1, <3>2
      <4>2. /\ answers[k].found =>
                 answers[k].page = PageOf(LengthAt(walk.route, answers[k].blocks), k, walk.size)
            /\ k < n => answers[k].found /\ k < answers[k].page.totalPages
        BY <1>1, <2>1, <4>1 DEF Walked, n
      <4>3. CASE k = n
        <5>1. answers # <<>> /\ Last(answers) = answers[k]
          BY <1>2, <4>1, <4>3
        <5> QED
          BY <2>1, <4>1, <4>2, <4>3, <5>1 DEF n
      <4>4. CASE k # n
        BY <1>2, <4>1, <4>2, <4>4
      <4> QED
        BY <4>3, <4>4
    <3> QED
      BY <3>1, <3>2
  <2> QED
    BY <1>1, <2>1 DEF Walked, LengthAt, HeightAt, BodyHeight, Walking, new
<1>8. Gathered'
  <2>1. new # <<>> /\ Last(new) = answer
    BY <1>2, <1>3 DEF Last
  <2>2. ASSUME Walking, answer.found, NEW h \in Nat, NEW length \in Nat,
               \A k \in DOMAIN new :
                 HeightAt(new[k].blocks) = h /\ LengthAt(walk.route, new[k].blocks) = length
        PROVE  collected' = Items(h, 0, answer.page.last)
    <3>1. n + 1 \in DOMAIN new /\ \A k \in DOMAIN answers : k \in DOMAIN new /\ new[k] = answers[k]
      BY <1>2, <1>3
    <3>2. OneList(h, length)
      BY <2>2, <3>1 DEF OneList
    <3>3. HeightAt(answer.blocks) = h /\ LengthAt(walk.route, answer.blocks) = length
      BY <1>3, <2>2, <3>1
    <3> QED
      BY <2>2, <3>2, <3>3
  <2>3. \A h, length \in Nat :
          OneList(h, length)' <=>
            \A k \in DOMAIN new :
              HeightAt(new[k].blocks) = h /\ LengthAt(walk.route, new[k].blocks) = length
    BY <1>1 DEF OneList, LengthAt, HeightAt, BodyHeight, new
  <2>4. (Walking' <=> Walking) /\ answers' # <<>> /\ Last(answers)' = answer
    BY <1>1, <2>1 DEF Walking, Last, new
  <2> QED
    BY <2>2, <2>3, <2>4 DEF Gathered
<1> QED
  BY <1>5, <1>6, <1>7, <1>8 DEF WInv

\* A page that is not the last ends where the next one begins.
LEMMA PagesJoin ==
  ASSUME NEW size \in 0 .. IntLimit - 1, NEW t \in Nat, t + MaxPerPage < IntLimit,
         NEW n \in Nat \ {0}, n * EffectivePerPage(size) < t
  PROVE  PageOf(t, n, size).last = PageOf(t, n + 1, size).first
<1> DEFINE full == EffectivePerPage(size)
           before == (n - 1) * full
           passed == n * full
<1>1. full \in Nat \ {0} /\ full <= MaxPerPage /\ MaxPerPage \in Nat /\ IntLimit \in Nat
  BY FullFacts, PagingAssumption
<1> HIDE DEF full
<1>2. before \in Nat /\ passed = before + full /\ (n + 1) - 1 = n /\ n + 1 \in Nat \ {0}
  BY <1>1
<1>3. passed < t
  BY DEF full
<1> HIDE DEF before, passed
<1>4. before \in Nat /\ before < IntLimit /\ passed < IntLimit /\ passed \in Nat
  BY <1>1, <1>2, <1>3
<1>5. PageOf(t, n, size).last = Lesser(Lesser(before, t) + full, t)
  <2>1. (n - 1) * EffectivePerPage(size) < IntLimit
    BY <1>4 DEF before, full
  <2>2. PageOf(t, n, size).last
          = Lesser(Lesser((n - 1) * EffectivePerPage(size), t) + EffectivePerPage(size), t)
    BY <2>1, PageFacts
  <2> QED
    BY <2>2 DEF before, full
<1>6. PageOf(t, n + 1, size).first = Lesser(passed, t)
  <2> DEFINE m == n + 1
  <2>1. m \in Nat \ {0} /\ m - 1 = n
    BY <1>2
  <2> HIDE DEF m
  <2>2. (m - 1) * EffectivePerPage(size) < IntLimit
    BY <1>4, <2>1 DEF passed, full
  <2>3. PageOf(t, m, size).first = Lesser((m - 1) * EffectivePerPage(size), t)
    BY <2>1, <2>2, PageFacts
  <2> QED
    BY <2>1, <2>3 DEF passed, full, m
<1> QED
  BY <1>1, <1>2, <1>3, <1>4, <1>5, <1>6 DEF Lesser

\* A reply from an entry, or from none, preserves the invariant: a walking
\* reader gets such a reply only when its route does not find the height.
LEMMA EntryReplyKeeps ==
  ASSUME WInv, NEW route \in AllRoutes, NEW found \in BOOLEAN, NEW entry \in Heights \cup {Missing},
         entry # Missing => found /\ entry <= blocks,
         route \in BlockRoutes \cup SnapshotRoutes => ~found,
         Reply(route, found, entry, NoPage), UNCHANGED collected
  PROVE  WInv'
<1> DEFINE answer == [route |-> route, process |-> process, blocks |-> blocks,
                      found |-> found, entry |-> entry, page |-> NoPage]
<1>1. Asks(route) /\ answers' = Append(answers, answer) /\ UNCHANGED <<server, reader>>
  BY DEF Reply
<1>2. TypeOK /\ Requests
  BY DEF WInv
<1>3. NoPage \in Pages /\ NoPage.first <= NoPage.last
  BY DEF NoPage, Pages
<1>4. answer \in Answers
  BY <1>2, <1>3 DEF Answers, AllRoutes, TypeOK
<1>5. /\ answer.entry = entry /\ answer.found = found /\ answer.blocks = blocks
      /\ answer.page = NoPage
  OBVIOUS
<1> HIDE DEF answer
<1>6. Walking => ~answer.found
  BY <1>1, <1>2, <1>5 DEF Asks, Requests
<1>7. Walking /\ answers # <<>> =>
        Last(answers).found /\ Len(answers) < Last(answers).page.totalPages
  BY <1>1, AskedPage
<1>8. collected' \in Seq([height : Heights, index : Nat \ {0}])
  BY <1>2 DEF TypeOK
<1> QED
  BY <1>1, <1>3, <1>4, <1>5, <1>6, <1>7, <1>8, AnswerKeeps

\* A reply with a page preserves the invariant.
LEMMA PageReplyKeeps ==
  ASSUME WInv, NEW route \in BlockRoutes \cup SnapshotRoutes, NEW known \in BOOLEAN,
         NEW h, h = HeightAt(blocks), NEW length, length = LengthAt(route, blocks),
         known => h <= blocks, ReplyPage(route, h, known, length)
  PROVE  WInv'
<1> DEFINE page == PageOf(length, NextPage, walk.size)
           entry == IF known THEN h ELSE Missing
           answer == [route |-> route, process |-> process, blocks |-> blocks,
                      found |-> TRUE, entry |-> entry, page |-> page]
           n == Len(answers)
           items == Items(h, page.first, page.last)
<1>1. /\ Asks(route) /\ answers' = Append(answers, answer) /\ UNCHANGED <<server, reader>>
      /\ collected' = IF Walking THEN collected \o items ELSE collected
  BY DEF ReplyPage, Reply
<1>2. TypeOK /\ Requests /\ Walked /\ Gathered /\ walk.size \in 0 .. IntLimit - 1
  BY DEF WInv, Requests
<1>3. blocks \in Nat /\ blocks <= MaxHeight
  BY <1>2, RoutesAssumption DEF TypeOK
<1>4. h \in Heights /\ h \in Nat /\ length \in Nat /\ length + MaxPerPage < IntLimit
  <2>1. LengthAt(route, blocks) \in Nat /\ LengthAt(route, blocks) + MaxPerPage < IntLimit
        /\ HeightAt(blocks) \in Heights
    BY <1>2, <1>3, ListFacts
  <2> QED
    BY <2>1 DEF Heights
<1>5. /\ NextPage \in Nat \ {0} /\ (NextPage - 1) * Full < IntLimit
      /\ Walking => /\ route = walk.route /\ NextPage = n + 1
                    /\ answers # <<>> =>
                         /\ Last(answers).found /\ n < Last(answers).page.totalPages
                         /\ n * Full < LengthAt(walk.route, Last(answers).blocks)
  BY <1>1, AskedPage
<1>6. page \in Pages /\ page.first = Lesser((NextPage - 1) * Full, length) /\ page.first <= page.last
  BY <1>2, <1>4, <1>5, PageFacts DEF Full
<1>7. page.first \in Nat /\ page.last \in Nat
  BY <1>6 DEF Pages
<1>8. items \in Seq([height : Heights, index : Nat \ {0}])
  <2> HIDE DEF page
  <2> QED
    BY <1>4, <1>6, <1>7, ItemsAre
<1> HIDE DEF page
<1>9. entry \in Heights \cup {Missing} /\ (entry # Missing => entry <= blocks)
  BY <1>4
<1> HIDE DEF entry
<1>10. answer \in Answers
  <2>1. route \in AllRoutes
    BY DEF AllRoutes, BodyRoutes
  <2> QED
    BY <1>2, <1>6, <1>9, <2>1 DEF Answers, AllRoutes, TypeOK
<1>11. /\ answer.entry = entry /\ answer.found = TRUE /\ answer.blocks = blocks
       /\ answer.page = page
  OBVIOUS
<1> HIDE DEF answer, items
<1>12. collected' \in Seq([height : Heights, index : Nat \ {0}])
  <2>1. collected \in Seq([height : Heights, index : Nat \ {0}])
    BY <1>2 DEF TypeOK
  <2>2. collected \o items \in Seq([height : Heights, index : Nat \ {0}])
    BY <1>8, <2>1, ConcatProperties
  <2> QED
    BY <1>1, <2>1, <2>2
<1>13. Walking => page = PageOf(LengthAt(walk.route, answer.blocks), n + 1, walk.size)
  BY <1>5, <1>11 DEF page
<1>14. ASSUME Walking, NEW g \in Nat, NEW len \in Nat, OneList(g, len),
              HeightAt(answer.blocks) = g, LengthAt(walk.route, answer.blocks) = len
       PROVE  collected' = Items(g, 0, page.last)
  <2>1. g = h /\ len = length /\ collected' = collected \o items
    BY <1>1, <1>5, <1>11, <1>14
  <2>2. CASE answers = <<>>
    <3>1. collected = <<>> /\ n = 0
      BY <1>2, <1>14, <2>2, AnswerFacts DEF Gathered
    <3>2. NextPage - 1 = 0 /\ 0 * Full = 0
      BY <1>2, <1>5, <1>14, <3>1, FullFacts DEF Full
    <3>3. page.first = 0
      BY <1>4, <1>6, <3>2 DEF Lesser
    <3>4. items = Items(h, 0, page.last)
      BY <3>3 DEF items
    <3>5. <<>> \o items = items
      BY <1>8, ConcatEmptySeq
    <3> QED
      BY <2>1, <3>1, <3>4, <3>5
  <2>3. CASE answers # <<>>
    <3> DEFINE answered == Last(answers)
               last == PageOf(length, n, walk.size)
    <3>1. n \in Nat \ {0} /\ n \in DOMAIN answers /\ answered = answers[n] /\ answered.found
      BY <1>2, <1>5, <1>14, <2>3, AnswerFacts
    <3>2. LengthAt(walk.route, answered.blocks) = length
      BY <1>14, <2>1, <3>1 DEF OneList
    <3>3. answered.page = last
      BY <1>2, <1>14, <3>1, <3>2 DEF Walked
    <3>4. n * Full < length
      BY <1>5, <1>14, <2>3, <3>2
    <3>5. collected = Items(h, 0, last.last)
      <4>1. OneList(h, length)
        BY <1>14, <2>1
      <4>2. collected = Items(h, 0, answered.page.last)
        BY <1>2, <1>4, <1>14, <2>3, <3>1, <4>1 DEF Gathered
      <4> QED
        BY <3>3, <4>2
    <3>6. last.last = page.first
      <4>1. NextPage = n + 1
        BY <1>5, <1>14
      <4> QED
        BY <1>2, <1>4, <3>1, <3>4, <4>1, PagesJoin DEF Full, page
    <3>7. Items(h, 0, page.first) \o Items(h, page.first, page.last) = Items(h, 0, page.last)
      <4> DEFINE first == page.first
                 end == page.last
      <4>1. 0 \in Nat /\ first \in Nat /\ end \in Nat /\ 0 <= first /\ first <= end
        BY <1>6, <1>7
      <4> HIDE DEF first, end
      <4>2. Items(h, 0, first) \o Items(h, first, end) = Items(h, 0, end)
        BY <4>1, ItemsJoin
      <4> QED
        BY <4>2 DEF first, end
    <3> QED
      BY <2>1, <3>5, <3>6, <3>7 DEF items
  <2> QED
    BY <2>2, <2>3
<1> QED
  BY <1>1, <1>5, <1>6, <1>9, <1>10, <1>11, <1>12, <1>13, <1>14, AnswerKeeps

-----------------------------------------------------------------------------
(* Every handler, the end of a process and the next one preserve it. *)

LEMMA HandlersKeep == ASSUME WInv, Query PROVE WInv'
<1>1. /\ blocks \in Nat /\ blocks <= MaxHeight /\ MaxHeight \in Nat /\ Missing \notin Nat
      /\ BodyHeight \in Nat /\ HeightRequest \in Nat
  BY RequestedHeights, RoutesAssumption DEF WInv, TypeOK
<1>2. \A g \in Nat : g <= blocks => g \in Heights
  BY <1>1 DEF Heights
<1>3. \A g \in Nat : OrLatest(g) \in Nat
  BY <1>1 DEF OrLatest
<1>4. OrLatest(BodyHeight) = HeightAt(blocks)
  BY DEF OrLatest, HeightAt
<1>5. \A g \in BlockKeys \cup StateKeys : g \in Nat /\ g <= blocks /\ g \in Heights
  BY <1>1, <1>2 DEF BlockKeys, StateKeys
\* A route that answers from one entry.
<1>6. ASSUME NEW route \in AllRoutes \ (BlockRoutes \cup SnapshotRoutes), NEW g, NEW keys,
             keys \subseteq BlockKeys \cup StateKeys, ReplyEntry(route, g, keys)
      PROVE  WInv'
  <2> DEFINE entry == IF g \in keys THEN g ELSE Missing
  <2>1. Reply(route, g \in keys, entry, NoPage) /\ UNCHANGED collected
    BY <1>6 DEF ReplyEntry
  <2>2. entry \in Heights \cup {Missing} /\ (entry # Missing => g \in keys /\ entry <= blocks)
    BY <1>5, <1>6
  <2> HIDE DEF entry
  <2> DEFINE found == g \in keys
  <2>3. found \in BOOLEAN /\ Reply(route, found, entry, NoPage)
    BY <2>1
  <2>4. entry # Missing => found /\ entry <= blocks
    BY <2>2
  <2> HIDE DEF found
  <2> QED
    BY <1>6, <2>1, <2>2, <2>3, <2>4, EntryReplyKeeps
<1>7. ASSUME NEW route \in {"height", "block", "cert", "state", "supply", "nonSigners",
                            "doubleSigners", "committees", "orders", "dexPrice", "dexBatch",
                            "nextDexBatch"}
      PROVE  route \in AllRoutes \ (BlockRoutes \cup SnapshotRoutes)
  BY DEF AllRoutes, BlockRoutes, SnapshotRoutes, BodyRoutes, QueryStringRoutes, HeightlessRoutes
<1>8. CASE QueryHeight
  BY <1>6, <1>7, <1>8 DEF QueryHeight
<1>9. CASE QueryBlock
  BY <1>6, <1>7, <1>9 DEF QueryBlock
<1>10. CASE QueryCert
  BY <1>6, <1>7, <1>10 DEF QueryCert
<1>11. CASE QueryState
  BY <1>6, <1>7, <1>11 DEF QueryState
<1>12. CASE QuerySupply
  BY <1>6, <1>7, <1>12 DEF QuerySupply
<1>13. ASSUME NEW route \in BlockRoutes, QueryBlockList(route) PROVE WInv'
  <2> DEFINE h == OrLatest(BodyHeight)
             known == h \in BlockKeys
             length == IF known THEN BlockLists[route][h] ELSE 0
  <2>1. ReplyPage(route, h, known, length)
    BY <1>13 DEF QueryBlockList
  <2>2. length = LengthAt(route, blocks)
    BY <1>4 DEF LengthAt, BlockKeys, BlockRoutes, SnapshotRoutes
  <2>3. known \in BOOLEAN /\ (known => h <= blocks) /\ h = HeightAt(blocks)
    BY <1>4, <1>5
  <2> HIDE DEF known, length, h
  <2> QED
    BY <2>1, <2>2, <2>3, PageReplyKeeps
<1>14. ASSUME NEW route \in SnapshotRoutes, QuerySnapshotList(route) PROVE WInv'
  <2> DEFINE h == OrLatest(BodyHeight)
  <2>1. CASE h \in StateKeys /\ ReplyPage(route, h, TRUE, SnapshotLists[route])
    <3>1. h <= blocks /\ h = HeightAt(blocks) /\ SnapshotLists[route] = LengthAt(route, blocks)
      BY <1>4, <1>5, <2>1 DEF LengthAt
    <3> HIDE DEF h
    <3> QED
      BY <2>1, <3>1, PageReplyKeeps
  <2>2. CASE h \notin StateKeys /\ ReplyEntry(route, h, StateKeys)
    <3> DEFINE found == h \in StateKeys
               entry == IF h \in StateKeys THEN h ELSE Missing
    <3>1. Reply(route, found, entry, NoPage) /\ UNCHANGED collected
      BY <2>2 DEF ReplyEntry
    <3>2. route \in AllRoutes
      BY DEF AllRoutes, BodyRoutes
    <3>3. found \in BOOLEAN /\ ~found /\ entry = Missing
      BY <2>2
    <3> HIDE DEF found, entry
    <3> QED
      BY <3>1, <3>2, <3>3, EntryReplyKeeps
  <2> QED
    BY <1>14, <2>1, <2>2 DEF QuerySnapshotList
<1>15. CASE QueryOrders
  <2>1. (IF request.known THEN StateKeys ELSE {}) \subseteq BlockKeys \cup StateKeys
    OBVIOUS
  <2> QED
    BY <1>6, <1>7, <1>15, <2>1 DEF QueryOrders
<1>16. CASE QueryDexPrice
  <2> DEFINE h == OrLatest(BodyHeight)
             found == h \in BlockKeys
             entry == IF h \in BlockKeys /\ request.known THEN h ELSE Missing
  <2>1. Reply("dexPrice", found, entry, NoPage) /\ UNCHANGED collected
    BY <1>16 DEF QueryDexPrice
  <2>2. /\ entry \in Heights \cup {Missing} /\ (entry # Missing => found /\ entry <= blocks)
        /\ found \in BOOLEAN
    BY <1>5
  <2> HIDE DEF entry, found
  <2> QED
    BY <1>7, <2>1, <2>2, EntryReplyKeeps
<1>17. ASSUME NEW route \in {"dexBatch", "nextDexBatch"}, QueryDexBatch(route) PROVE WInv'
  <2>1. (IF request.known THEN BlockKeys ELSE {}) \subseteq BlockKeys \cup StateKeys
    OBVIOUS
  <2>2. route \in AllRoutes \ (BlockRoutes \cup SnapshotRoutes)
    BY <1>7
  <2> QED
    BY <1>6, <1>17, <2>1, <2>2 DEF QueryDexBatch
\* The signers' routes: never not found.
<1>18. ASSUME NEW route \in AllRoutes \ (BlockRoutes \cup SnapshotRoutes), NEW g, NEW listed,
              listed => g \in StateKeys, Reply(route, TRUE, IF listed THEN g ELSE Missing, NoPage),
              UNCHANGED collected
       PROVE  WInv'
  <2> DEFINE entry == IF listed THEN g ELSE Missing
  <2>1. entry \in Heights \cup {Missing} /\ (entry # Missing => entry <= blocks)
    BY <1>5, <1>18
  <2>2. Reply(route, TRUE, entry, NoPage)
    BY <1>18
  <2> HIDE DEF entry
  <2> QED
    BY <1>18, <2>1, <2>2, EntryReplyKeeps
<1>19. CASE QueryNonSigners
  <2> DEFINE h == OrLatest(HeightRequest)
             listed == h \in StateKeys /\ (h = 0 \/ h % NonSignerPeriod # 0)
  <2>1. Reply("nonSigners", TRUE, IF listed THEN h ELSE Missing, NoPage) /\ UNCHANGED collected
    BY <1>19 DEF QueryNonSigners
  <2>2. listed => h \in StateKeys
    OBVIOUS
  <2> HIDE DEF listed, h
  <2> QED
    BY <1>7, <1>18, <2>1, <2>2
<1>20. CASE QueryDoubleSigners
  BY <1>7, <1>18, <1>20 DEF QueryDoubleSigners
<1>21. CASE QueryCommittees
  BY <1>6, <1>7, <1>21 DEF QueryCommittees
<1> QED
  BY <1>8, <1>9, <1>10, <1>11, <1>12, <1>13, <1>14, <1>15, <1>16, <1>17, <1>19, <1>20, <1>21
     DEF Query

\* A step that leaves the request, the walk and what the reader has preserves it.
LEMMA LeavesWalk ==
  ASSUME WInv, UNCHANGED <<reader, answers, collected>>, up' \in BOOLEAN,
         blocks' \in BlockOptions, process' \in 1 .. MaxProcesses
  PROVE  WInv'
<1>1. UNCHANGED <<request, walk, answers, collected>>
  BY DEF reader
<1>2. TypeOK'
  BY <1>1 DEF WInv, TypeOK
<1>3. Requests'
  BY <1>1 DEF WInv, Requests, BodyHeight, HeightRequest, Walking
<1>4. Walked'
  BY <1>1 DEF WInv, Walked, LengthAt, HeightAt, BodyHeight, Walking
<1>5. Gathered'
  <2>1. \A h, length \in Nat : OneList(h, length)' <=> OneList(h, length)
    BY <1>1 DEF OneList, LengthAt, HeightAt, BodyHeight
  <2>2. (Walking' <=> Walking) /\ Last(answers)' = Last(answers)
    BY <1>1 DEF Walking, Last
  <2> QED
    BY <1>1, <2>1, <2>2 DEF WInv, Gathered
<1> QED
  BY <1>2, <1>3, <1>4, <1>5 DEF WInv

LEMMA WNext == WInv /\ [Next]_vars => WInv'
<1> SUFFICES ASSUME WInv, [Next]_vars PROVE WInv'
  OBVIOUS
<1>1. up \in BOOLEAN /\ blocks \in BlockOptions /\ process \in 1 .. MaxProcesses
      /\ MaxProcesses \in Nat
  BY RoutesAssumption DEF WInv, TypeOK
<1>2. CASE Query
  BY <1>2, HandlersKeep
<1>3. CASE Kill
  BY <1>1, <1>3, LeavesWalk DEF Kill
<1>4. CASE Restart
  BY <1>1, <1>4, LeavesWalk DEF Restart
<1>5. CASE UNCHANGED vars
  BY <1>1, <1>5, LeavesWalk DEF vars, server
<1> QED
  BY <1>2, <1>3, <1>4, <1>5 DEF Next

\* The pages a walking reader has are those of the lists there were, one after
\* another.
THEOREM WalkInvariance == Spec => []WInv
  BY WInit, WNext, PTL DEF Spec

\* Every answer is made from an entry the process had, or from none, and its page
\* was sliced inside the list.
THEOREM TypeCorrect == Spec => []TypeOK
<1>1. WInv => TypeOK
  BY DEF WInv
<1> QED
  BY <1>1, WalkInvariance, PTL

\* The last page of a walk ends where its list ends.
LEMMA LastPage ==
  ASSUME WInv, WalkEnded, Last(answers).found
  PROVE  LET length == LengthAt(walk.route, Last(answers).blocks)
         IN  length \in Nat /\ Last(answers).page.last = length
<1> DEFINE n == Len(answers)
           answer == Last(answers)
           t == LengthAt(walk.route, answer.blocks)
           before == (n - 1) * Full
<1>1. TypeOK /\ Requests /\ Walked /\ Walking /\ walk.size \in 0 .. IntLimit - 1
      /\ IntLimit \in Nat /\ MaxPerPage \in Nat /\ MaxPerPage < IntLimit
      /\ walk.route \in BlockRoutes \cup SnapshotRoutes
  BY PagingAssumption DEF WInv, WalkEnded, Requests
<1>2. /\ n \in Nat \ {0} /\ DOMAIN answers = 1 .. n /\ answer = answers[n]
      /\ answer.found /\ NextPage = answer.page.number + 1 /\ NextPage > answer.page.totalPages
      /\ \A k \in DOMAIN answers : answers[k].blocks \in Nat /\ answers[k].blocks <= MaxHeight
  BY <1>1, AnswerFacts DEF WalkEnded, NextPage
<1>3. answer.page = PageOf(t, n, walk.size)
  BY <1>1, <1>2 DEF Walked
<1>4. t \in Nat /\ t + MaxPerPage < IntLimit
  BY <1>1, <1>2, ListFacts
<1>5. Full \in 1 .. MaxPerPage
  BY <1>1, FullFacts DEF Full
<1>6. before < IntLimit
  <2>1. CASE n = 1
    <3>1. (1 - 1) * Full = 0
      BY <1>5
    <3> QED
      BY <1>1, <2>1, <3>1
  <2>2. CASE n # 1
    <3> DEFINE k == n - 1
               s == LengthAt(walk.route, answers[k].blocks)
    <3>1. k \in Nat \ {0} /\ k \in DOMAIN answers /\ k < n
      BY <1>2, <2>2
    <3>2. answers[k].page = PageOf(s, k, walk.size) /\ k < answers[k].page.totalPages
      BY <1>1, <3>1 DEF Walked
    <3>3. s \in Nat /\ s + MaxPerPage < IntLimit
      BY <1>1, <1>2, <3>1, ListFacts
    <3> HIDE DEF k, s
    <3>4. answers[k].page.totalPages = TotalPages(s, walk.size)
      BY <3>1, <3>2, PageFields
    <3>5. \A j \in Nat : j < TotalPages(s, walk.size) <=> j * Full < s
      BY <1>1, <3>3, TotalPagesFacts DEF Full
    <3>6. k * Full < s
      BY <3>1, <3>2, <3>4, <3>5
    <3>7. k * Full = before
      BY DEF k
    <3> QED
      BY <1>1, <1>5, <3>1, <3>3, <3>6, <3>7
  <2> QED
    BY <2>1, <2>2
<1> HIDE DEF n, answer, t
<1>7. answer.page.number = n /\ answer.page.totalPages = TotalPages(t, walk.size)
  BY <1>2, <1>3, PageFields
<1>8. t <= n * Full
  <2>1. /\ TotalPages(t, walk.size) \in Nat
        /\ \A j \in Nat : j < TotalPages(t, walk.size) <=> j * Full < t
    BY <1>1, <1>4, TotalPagesFacts DEF Full
  <2>2. ~(n < TotalPages(t, walk.size)) /\ n \in Nat
    BY <1>2, <1>7, <2>1
  <2>3. n * Full \in Nat /\ ~(n * Full < t)
    BY <1>5, <2>1, <2>2
  <2> QED
    BY <1>4, <2>3
<1>9. before \in Nat /\ answer.page.last = Lesser(Lesser(before, t) + Full, t)
  BY <1>1, <1>2, <1>3, <1>4, <1>6, PageFacts DEF Full
<1>10. n * Full = before + Full
  BY <1>2, <1>5
<1> HIDE DEF before
<1>11. answer.page.last = t
  BY <1>4, <1>5, <1>8, <1>9, <1>10 DEF Lesser
<1> QED
  BY <1>4, <1>11 DEF answer, t

\* A reader that has walked to the last page of a list has the whole list of one
\* height, but for the walks over a list that changed with the number of blocks.
THEOREM WalksAreComplete == Spec => []WalkIsComplete
<1>1. ASSUME WInv PROVE WalkIsComplete
  <2> DEFINE last == Last(answers)
             h == IF BodyHeight = 0 THEN last.blocks ELSE BodyHeight
             steady == \A k \in DOMAIN answers : answers[k].blocks = last.blocks
             shrunk == \E k \in DOMAIN answers : answers[k].blocks < BodyHeight
             t == LengthAt(walk.route, last.blocks)
             fromBlocks == walk.route \in BlockRoutes
  <2>1. SUFFICES ASSUME WalkEnded, last.found, BodyHeight # 0 \/ steady, ~(fromBlocks /\ shrunk)
                 PROVE  collected = (IF h = 0 /\ fromBlocks THEN <<>> ELSE WholeList(walk.route, h))
    BY DEF WalkIsComplete
  <2>2. TypeOK /\ Requests /\ Gathered /\ Walking /\ answers # <<>>
        /\ walk.route \in BlockRoutes \cup SnapshotRoutes /\ BodyHeight \in Nat
    BY <1>1, <2>1, RequestedHeights DEF WInv, WalkEnded, Requests
  <2>3. /\ last = answers[Len(answers)] /\ Len(answers) \in DOMAIN answers
        /\ \A k \in DOMAIN answers : answers[k].blocks \in Nat
    BY <2>2, AnswerFacts
  <2>4. t \in Nat /\ last.page.last = t
    BY <1>1, <2>1, LastPage
  <2>5. h \in Nat /\ h = HeightAt(last.blocks)
    BY <2>2, <2>3 DEF HeightAt
  <2> HIDE DEF last
  <2>6. BodyHeight # 0 /\ fromBlocks => \A k \in DOMAIN answers : BodyHeight \in 1 .. answers[k].blocks
    BY <2>1, <2>2, <2>3
  <2>7. OneList(h, t)
    <3>1. ASSUME NEW k \in DOMAIN answers
          PROVE  HeightAt(answers[k].blocks) = h /\ LengthAt(walk.route, answers[k].blocks) = t
      <4>1. CASE BodyHeight = 0
        <5>1. answers[k].blocks = last.blocks
          BY <2>1, <4>1
        <5> QED
          BY <2>5, <5>1
      <4>2. CASE BodyHeight # 0
        <5>1. HeightAt(answers[k].blocks) = BodyHeight /\ HeightAt(last.blocks) = BodyHeight
          BY <4>2 DEF HeightAt
        <5>2. fromBlocks => BodyHeight \in 1 .. answers[k].blocks /\ BodyHeight \in 1 .. last.blocks
          BY <2>3, <2>6, <4>2
        <5>3. LengthAt(walk.route, answers[k].blocks) = LengthAt(walk.route, last.blocks)
          BY <2>2, <5>1, <5>2 DEF LengthAt
        <5> QED
          BY <2>5, <5>1, <5>3
      <4> QED
        BY <4>1, <4>2
    <3> QED
      BY <3>1 DEF OneList
  <2>8. collected = Items(h, 0, t)
    <3>1. collected = Items(h, 0, last.page.last)
      BY <2>1, <2>2, <2>4, <2>5, <2>7 DEF Gathered, last
    <3> QED
      BY <2>4, <3>1
  <2>9. CASE h = 0 /\ fromBlocks
    <3>1. t = 0
      BY <2>3, <2>5, <2>9 DEF LengthAt, BlockRoutes, SnapshotRoutes
    <3> HIDE DEF h, t
    <3>2. h \in {h} /\ 0 \in Nat /\ t \in Nat /\ 0 <= t
      BY <2>4
    <3>3. /\ Items(h, 0, t) \in Seq([height : {h}, index : Nat \ {0}])
          /\ Len(Items(h, 0, t)) = t - 0
      BY <3>2, ItemsAre
    <3>4. Items(h, 0, t) = <<>>
      BY <3>1, <3>3, EmptySeq
    <3> QED
      BY <2>8, <2>9, <3>4
  <2>10. CASE ~(h = 0 /\ fromBlocks)
    <3>1. t = IF walk.route \in SnapshotRoutes THEN SnapshotLists[walk.route]
              ELSE BlockLists[walk.route][h]
      <4>1. CASE walk.route \in SnapshotRoutes
        BY <4>1 DEF LengthAt
      <4>2. CASE walk.route \notin SnapshotRoutes
        <5>1. fromBlocks /\ h # 0
          BY <2>2, <2>10, <4>2
        <5>2. h \in 1 .. last.blocks
          BY <2>3, <2>5, <2>6, <5>1
        <5> QED
          BY <2>5, <4>2, <5>2 DEF LengthAt
      <4> QED
        BY <4>1, <4>2
    <3> HIDE DEF h, t
    <3> QED
      BY <2>8, <2>10, <3>1 DEF WholeList
  <2> QED
    BY <2>9, <2>10
<1> QED
  BY <1>1, WalkInvariance, PTL
=============================================================================
