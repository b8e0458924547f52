---------------------------- MODULE ListingProof ----------------------------
(***************************************************************************)
(* Proofs about Listing for every width of an int, every default and cap   *)
(* of the page size, every list and every page size and number.            *)
(*                                                                         *)
(* The invariant relates the number of the page asked for to the length of *)
(* what the reader has: after k whole pages it has k times the page size.  *)
(***************************************************************************)
EXTENDS Listing, FoldLemmas, SequenceTheorems

\* The number of items of a page that is not the last.
Full == EffectivePerPage(perPage)

\* The answer is the page of the request, or there is none.
Answered ==
  /\ stage = "answered" => page = PageOf(total, asked, perPage) /\ ~Panics(total, asked, perPage)
  /\ stage = "panicked" => Panics(total, asked, perPage)

\* A reader that walks has all the pages before the one it asks for, and asks
\* only for pages that begin inside the list, the first one excepted.
Walked ==
  walking /\ perPage >= 0 =>
    /\ stage # "panicked"
    /\ collected = Items(0, Len(collected))
    /\ stage \in {"asking", "answered"} =>
         /\ asked > 0
         /\ Len(collected) = (asked - 1) * Full
         /\ Len(collected) <= total
    /\ stage = "done" => Len(collected) = total

Inv == TypeOK /\ Answered /\ Walked

-----------------------------------------------------------------------------
(* Arithmetic. *)

LEMMA ModSmall ==
  ASSUME NEW a \in Nat, NEW m \in Nat \ {0}, a < m
  PROVE  a % m = a
  OBVIOUS

LEMMA ModRange ==
  ASSUME NEW a \in Int, NEW m \in Nat \ {0}
  PROVE  a % m \in 0 .. m - 1
  OBVIOUS

LEMMA WrapInts == ASSUME NEW n \in Int PROVE Wrap(n) \in Ints
<1>1. IntLimit \in Nat /\ 2 * IntLimit \in Nat \ {0}
  BY PagingAssumption
<1>2. (n + IntLimit) % (2 * IntLimit) \in 0 .. 2 * IntLimit - 1
  BY <1>1, ModRange
<1> QED
  BY <1>1, <1>2 DEF Wrap, Ints

LEMMA WrapFits == ASSUME NEW n \in Ints PROVE Wrap(n) = n
<1>1. IntLimit \in Nat /\ 2 * IntLimit \in Nat \ {0}
  BY PagingAssumption
<1>2. n + IntLimit \in Nat /\ n + IntLimit < 2 * IntLimit
  BY <1>1 DEF Ints
<1>3. (n + IntLimit) % (2 * IntLimit) = n + IntLimit
  BY <1>1, <1>2, ModSmall
<1> QED
  BY <1>1, <1>3 DEF Wrap, Ints

-----------------------------------------------------------------------------
(* What paginate and buildPage return. *)

LEMMA PerPageFacts ==
  ASSUME NEW size \in Ints
  PROVE  /\ EffectivePerPage(size) \in Int
         /\ EffectivePerPage(size) <= MaxPerPage /\ EffectivePerPage(size) >= -IntLimit
         /\ size >= 0 => EffectivePerPage(size) \in 1 .. MaxPerPage
  BY PagingAssumption DEF EffectivePerPage, Lesser, Ints

LEMMA PageNumberFacts ==
  ASSUME NEW number \in Ints
  PROVE  EffectivePage(number) \in Ints /\ EffectivePage(number) >= 1
  BY PagingAssumption DEF EffectivePage, Ints

\* A slice that does not panic lies inside the list and holds a page at most.
LEMMA SliceFacts ==
  ASSUME NEW t \in Nat, t + MaxPerPage < IntLimit, NEW number \in Ints, NEW size \in Ints,
         ~Panics(t, number, size)
  PROVE  /\ Start(t, number, size) \in 0 .. t
         /\ End(t, number, size) \in Start(t, number, size) .. t
         /\ End(t, number, size) <= Start(t, number, size) + MaxPerPage
<1> DEFINE s == Start(t, number, size)
           e == End(t, number, size)
           full == EffectivePerPage(size)
<1>1. /\ full \in Int /\ full <= MaxPerPage /\ full >= -IntLimit
      /\ MaxPerPage \in Nat /\ IntLimit \in Nat
  BY PerPageFacts, PagingAssumption
<1>2. 0 <= s /\ s <= e
  BY DEF Panics
<1>3. (EffectivePage(number) - 1) * full \in Int
  BY <1>1, PageNumberFacts DEF Ints
<1>4. Wrap((EffectivePage(number) - 1) * full) \in Int
  BY <1>1, <1>3, WrapInts DEF Ints
<1>5. s \in 0 .. t
  BY <1>2, <1>4 DEF Start, Lesser
<1>6. s + full \in Ints
  BY <1>1, <1>5 DEF Ints
<1>7. e = Lesser(s + full, t)
  BY <1>6, WrapFits DEF End
<1> HIDE DEF s, e, full
<1>8. e \in Int /\ e <= t /\ e <= s + full
  BY <1>1, <1>5, <1>7 DEF Lesser
<1>9. s \in 0 .. t /\ e \in s .. t /\ e <= s + MaxPerPage
  BY <1>1, <1>2, <1>5, <1>8
<1> QED
  BY <1>9 DEF s, e

\* A page whose numbers fit an int begins after the pages before it, and ends
\* after a page or with the list.
LEMMA FittingPage ==
  ASSUME NEW t \in Nat, t + MaxPerPage < IntLimit, NEW number \in Ints, NEW size \in Ints,
         size >= 0,
         (EffectivePage(number) - 1) * EffectivePerPage(size) < IntLimit
  PROVE  LET skipped == (EffectivePage(number) - 1) * EffectivePerPage(size)
         IN  /\ skipped \in Nat
             /\ Start(t, number, size) = Lesser(skipped, t)
             /\ End(t, number, size) = Lesser(Lesser(skipped, t) + EffectivePerPage(size), t)
             /\ ~Panics(t, number, size)
<1> DEFINE skipped == (EffectivePage(number) - 1) * EffectivePerPage(size)
           full == EffectivePerPage(size)
<1>1. full \in 1 .. MaxPerPage /\ IntLimit \in Nat /\ MaxPerPage \in Nat
  BY PerPageFacts, PagingAssumption
<1>2. EffectivePage(number) - 1 \in Nat
  BY PageNumberFacts DEF Ints
<1>3. skipped \in Nat
  BY <1>1, <1>2
<1>4. skipped \in Ints
  BY <1>1, <1>3 DEF Ints
<1>5. Start(t, number, size) = Lesser(skipped, t)
  BY <1>4, WrapFits DEF Start
<1> HIDE DEF skipped, full
<1>6. Lesser(skipped, t) \in 0 .. t
  BY <1>3 DEF Lesser
<1>7. Lesser(skipped, t) + full \in Ints
  BY <1>1, <1>6 DEF Ints
<1>8. End(t, number, size) = Lesser(Lesser(skipped, t) + full, t)
  BY <1>5, <1>7, WrapFits DEF End, full
<1>9. ~Panics(t, number, size)
  BY <1>1, <1>5, <1>6, <1>8 DEF Panics, Lesser
<1> QED
  BY <1>3, <1>5, <1>8, <1>9 DEF skipped, full

LEMMA TotalPagesFacts ==
  ASSUME NEW t \in Nat, NEW size \in Ints
  PROVE  /\ TotalPages(t, size) \in 0 .. t
         /\ size >= 0 => \A k \in Nat : k < TotalPages(t, size) <=> k * EffectivePerPage(size) < t
<1>1. EffectivePerPage(size) \in Int
  BY PerPageFacts
<1>2. CASE EffectivePerPage(size) > 0
  <2>1. EffectivePerPage(size) \in Nat \ {0}
    BY <1>1, <1>2
  <2>2. TotalPages(t, size) = (t + EffectivePerPage(size) - 1) \div EffectivePerPage(size)
    BY <1>2 DEF TotalPages
  <2> QED
    BY <2>1, <2>2, CeilDiv
<1>3. CASE ~(EffectivePerPage(size) > 0)
  BY <1>3, PerPageFacts DEF TotalPages
<1> QED
  BY <1>2, <1>3

LEMMA ItemsAre ==
  ASSUME NEW a \in Nat, NEW b \in Nat, a <= b
  PROVE  /\ Items(a, b) \in Seq(a + 1 .. b) /\ Len(Items(a, b)) = b - a
         /\ \A i \in 1 .. b - a : Items(a, b)[i] = a + i
<1>1. b - a \in Nat /\ \A i \in 1 .. b - a : a + i \in a + 1 .. b
  OBVIOUS
<1>2. Items(a, b) \in [1 .. b - a -> a + 1 .. b]
  BY <1>1 DEF Items
<1>3. Items(a, b) \in Seq(a + 1 .. b)
  BY <1>1, <1>2, SeqDef
<1>4. Len(Items(a, b)) = b - a
  BY <1>1, <1>2, <1>3, LenProperties
<1> QED
  BY <1>3, <1>4 DEF Items

LEMMA ItemsFacts ==
  ASSUME NEW a \in Nat, NEW b \in Nat, NEW c \in Nat, a <= b, b <= c
  PROVE  /\ Items(a, b) \in Seq(a + 1 .. b) /\ Len(Items(a, b)) = b - a
         /\ Items(a, b) \o Items(b, c) = Items(a, c)
<1>1. /\ Items(a, b) \in Seq(a + 1 .. b) /\ Len(Items(a, b)) = b - a
      /\ \A i \in 1 .. b - a : Items(a, b)[i] = a + i
  BY ItemsAre
<1>2. /\ Items(b, c) \in Seq(b + 1 .. c) /\ Len(Items(b, c)) = c - b
      /\ \A i \in 1 .. c - b : Items(b, c)[i] = b + i
  BY ItemsAre
<1>3. /\ Items(a, c) \in Seq(a + 1 .. c) /\ Len(Items(a, c)) = c - a
      /\ \A i \in 1 .. c - a : Items(a, c)[i] = a + i
  BY ItemsAre
<1>4. Items(a, b) \in Seq(Int) /\ Items(b, c) \in Seq(Int) /\ Items(a, c) \in Seq(Int)
  <2>1. a + 1 .. b \subseteq Int /\ b + 1 .. c \subseteq Int /\ a + 1 .. c \subseteq Int
    OBVIOUS
  <2> QED
    BY <1>1, <1>2, <1>3, <2>1, SeqMonotonic
<1> DEFINE joined == Items(a, b) \o Items(b, c)
<1>5. /\ joined \in Seq(Int) /\ Len(joined) = (b - a) + (c - b)
      /\ \A i \in 1 .. Len(joined) :
           joined[i] = IF i <= b - a THEN Items(a, b)[i] ELSE Items(b, c)[i - (b - a)]
  <2>1. /\ joined \in Seq(Int) /\ Len(joined) = Len(Items(a, b)) + Len(Items(b, c))
        /\ \A i \in 1 .. Len(joined) :
             joined[i] = IF i <= Len(Items(a, b)) THEN Items(a, b)[i]
                         ELSE Items(b, c)[i - Len(Items(a, b))]
    BY <1>4, ConcatProperties
  <2> QED
    BY <1>1, <1>2, <2>1
<1>6. Len(joined) = c - a
  BY <1>5
<1>7. ASSUME NEW i \in 1 .. c - a PROVE joined[i] = Items(a, c)[i]
  <2>1. CASE i <= b - a
    BY <1>1, <1>3, <1>5, <1>6, <2>1
  <2>2. CASE ~(i <= b - a)
    <3>1. i - (b - a) \in 1 .. c - b
      BY <2>2
    <3>2. joined[i] = Items(b, c)[i - (b - a)]
      BY <1>5, <1>6, <2>2
    <3> QED
      BY <1>2, <1>3, <3>1, <3>2
  <2> QED
    BY <2>1, <2>2
<1>8. joined = Items(a, c)
  BY <1>3, <1>4, <1>5, <1>6, <1>7, SeqEqual
<1> QED
  BY <1>1, <1>8

-----------------------------------------------------------------------------
(* The invariant. *)

\* What every step may use.
LEMMA Basics ==
  ASSUME TypeOK
  PROVE  /\ total \in Nat /\ total + MaxPerPage < IntLimit
         /\ perPage \in Ints /\ asked \in Ints /\ IntLimit \in Nat /\ MaxPerPage \in Nat
         /\ collected \in Seq(1 .. total) /\ Len(collected) \in Nat
<1>1. total \in Nat /\ total + MaxPerPage < IntLimit
  BY ListingAssumption, PagingAssumption DEF TypeOK
<1>2. collected \in Seq(1 .. total) /\ Len(collected) \in Nat
  BY LenProperties DEF TypeOK
<1> QED
  BY <1>1, <1>2, ListingAssumption, PagingAssumption DEF TypeOK

LEMMA InvInit == Init => Inv
<1> SUFFICES ASSUME Init PROVE Inv
  OBVIOUS
<1>1. 1 \in Ints /\ 0 \in Ints
  BY PagingAssumption DEF Ints
<1>2. TypeOK
  <2>1. asked \in Ints
    BY <1>1, ListingAssumption DEF Init
  <2>2. total \in Nat /\ MaxPerPage \in Nat /\ collected \in Seq(1 .. total)
    BY ListingAssumption, PagingAssumption, EmptySeq DEF Init
  <2> QED
    BY <1>1, <2>1, <2>2, ListingAssumption DEF Init, TypeOK, EmptyPage, Lesser
<1>3. Answered
  BY DEF Init, Answered
<1>4. Walked
  <2>1. Full \in Int /\ total \in Nat
    BY PerPageFacts, ListingAssumption DEF Init, Full
  <2>2. Len(collected) = 0 /\ collected = Items(0, 0)
    <3>1. Items(0, 0) \in Seq(0 + 1 .. 0) /\ Len(Items(0, 0)) = 0
      BY ItemsAre
    <3>2. Items(0, 0) = <<>>
      BY <3>1, EmptySeq
    <3> QED
      BY <3>2 DEF Init
  <2>3. walking => asked = 1
    BY DEF Init
  <2> QED
    BY <2>1, <2>2, <2>3 DEF Init, Walked
<1> QED
  BY <1>2, <1>3, <1>4 DEF Inv

\* The page a walking reader asks for does not panic, and begins where what it
\* has ends.
LEMMA WalkingPage ==
  ASSUME Inv, walking, perPage >= 0, stage \in {"asking", "answered"}
  PROVE  /\ ~Panics(total, asked, perPage)
         /\ asked \in Nat \ {0} /\ EffectivePage(asked) = asked
         /\ Full \in 1 .. MaxPerPage
         /\ Start(total, asked, perPage) = Len(collected)
         /\ End(total, asked, perPage) = Lesser(Len(collected) + Full, total)
<1>1. /\ asked > 0 /\ Len(collected) = (asked - 1) * Full /\ Len(collected) <= total
  BY DEF Inv, Walked
<1>2. /\ total \in Nat /\ total + MaxPerPage < IntLimit /\ perPage \in Ints /\ asked \in Ints
      /\ IntLimit \in Nat /\ MaxPerPage \in Nat /\ Len(collected) \in Nat
  BY Basics DEF Inv
<1>3. asked \in Nat \ {0} /\ EffectivePage(asked) = asked
  BY <1>1, <1>2 DEF EffectivePage, Ints
<1>4. Full \in 1 .. MaxPerPage
  BY <1>2, PerPageFacts DEF Full
<1>5. (EffectivePage(asked) - 1) * EffectivePerPage(perPage) = Len(collected)
  BY <1>1, <1>3 DEF Full
<1>6. Len(collected) < IntLimit
  BY <1>1, <1>2
<1>7. /\ Start(total, asked, perPage) = Lesser(Len(collected), total)
      /\ End(total, asked, perPage) =
           Lesser(Lesser(Len(collected), total) + EffectivePerPage(perPage), total)
      /\ ~Panics(total, asked, perPage)
  BY <1>2, <1>5, <1>6, FittingPage
<1>8. Lesser(Len(collected), total) = Len(collected)
  BY <1>1, <1>2 DEF Lesser
<1> QED
  BY <1>3, <1>4, <1>7, <1>8 DEF Full

LEMMA AnswerKeeps == ASSUME Inv, Answer PROVE Inv'
<1>1. /\ stage = "asking" /\ stage' = "answered" /\ page' = PageOf(total, asked, perPage)
      /\ ~Panics(total, asked, perPage)
      /\ UNCHANGED <<total, walking, perPage, asked, collected>>
  BY DEF Answer, query
<1>2. /\ total \in Nat /\ total + MaxPerPage < IntLimit /\ perPage \in Ints /\ asked \in Ints
      /\ MaxPerPage \in Nat
  BY Basics DEF Inv
<1>3. TypeOK'
  <2>1. /\ page'.first = Start(total, asked, perPage) /\ page'.last = End(total, asked, perPage)
        /\ page'.number = EffectivePage(asked) /\ page'.totalPages = TotalPages(total, perPage)
    BY <1>1 DEF PageOf
  <2>2. page'.first \in 0 .. total /\ page'.last \in page'.first .. total
        /\ page'.last <= page'.first + MaxPerPage
    BY <1>1, <1>2, <2>1, SliceFacts
  <2>3. page'.last \in page'.first .. Lesser(total, page'.first + MaxPerPage)
    BY <1>2, <2>2 DEF Lesser
  <2>4. page'.number \in Ints
    BY <1>2, <2>1, PageNumberFacts
  <2>5. page'.totalPages \in 0 .. total
    BY <1>2, <2>1, TotalPagesFacts
  <2> QED
    BY <1>1, <2>2, <2>3, <2>4, <2>5 DEF Inv, TypeOK
<1>4. Answered'
  BY <1>1 DEF Answered
<1>5. Walked'
  BY <1>1 DEF Inv, Walked, Full
<1> QED
  BY <1>3, <1>4, <1>5 DEF Inv

LEMMA AnswerPanicsKeeps == ASSUME Inv, AnswerPanics PROVE Inv'
<1>1. /\ stage = "asking" /\ stage' = "panicked" /\ Panics(total, asked, perPage)
      /\ UNCHANGED <<total, walking, perPage, asked, page, collected>>
  BY DEF AnswerPanics, query
<1>2. ~(walking /\ perPage >= 0)
  BY <1>1, WalkingPage
<1>3. TypeOK' /\ Answered' /\ Walked'
  BY <1>1, <1>2 DEF Inv, TypeOK, Answered, Walked
<1> QED
  BY <1>3 DEF Inv

LEMMA CollectKeeps == ASSUME Inv, Collect PROVE Inv'
<1>1. /\ stage = "answered" /\ collected' = collected \o Items(page.first, page.last)
      /\ UNCHANGED <<total, walking, perPage, page>>
      /\ IF walking /\ page.number < page.totalPages
         THEN asked' = page.number + 1 /\ stage' = "asking"
         ELSE asked' = asked /\ stage' = "done"
  BY DEF Collect, query
<1>2. /\ total \in Nat /\ total + MaxPerPage < IntLimit /\ perPage \in Ints /\ asked \in Ints
      /\ MaxPerPage \in Nat /\ IntLimit \in Nat
      /\ collected \in Seq(1 .. total) /\ Len(collected) \in Nat
  BY Basics DEF Inv
<1>3. /\ page.first \in 0 .. total /\ page.last \in page.first .. total
      /\ page.number \in Ints /\ page.totalPages \in 0 .. total
  BY <1>2 DEF Inv, TypeOK, Lesser
<1>4. TypeOK'
  <2>1. Items(page.first, page.last) \in Seq(page.first + 1 .. page.last)
    <3>1. page.first \in Nat /\ page.last \in Nat /\ page.first <= page.last
      BY <1>2, <1>3
    <3> QED
      BY <3>1, ItemsAre
  <2>2. page.first + 1 .. page.last \subseteq 1 .. total
    BY <1>2, <1>3
  <2>3. Items(page.first, page.last) \in Seq(1 .. total)
    BY <2>1, <2>2, SeqMonotonic
  <2>4. collected' \in Seq(1 .. total)
    BY <1>1, <1>2, <2>3, ConcatProperties
  <2>5. asked' \in Ints /\ stage' \in {"asking", "done"}
    BY <1>1, <1>2, <1>3 DEF Ints
  <2> QED
    BY <1>1, <2>4, <2>5 DEF Inv, TypeOK
<1>5. Answered'
  BY <1>1 DEF Answered
<1>6. ASSUME walking, perPage >= 0
      PROVE  /\ collected' = Items(0, Len(collected'))
             /\ stage' = "asking" => /\ asked' > 0
                                     /\ Len(collected') = (asked' - 1) * Full
                                     /\ Len(collected') <= total
             /\ stage' = "done" => Len(collected') = total
  <2>1. /\ asked \in Nat \ {0} /\ EffectivePage(asked) = asked
        /\ Full \in 1 .. MaxPerPage
        /\ Start(total, asked, perPage) = Len(collected)
        /\ End(total, asked, perPage) = Lesser(Len(collected) + Full, total)
    BY <1>1, <1>6, WalkingPage
  <2>2. /\ page.first = Len(collected) /\ page.last = Lesser(Len(collected) + Full, total)
        /\ page.number = asked /\ page.totalPages = TotalPages(total, perPage)
    BY <1>1, <2>1 DEF Inv, Answered, PageOf
  <2>3. /\ collected = Items(0, Len(collected)) /\ Len(collected) = (asked - 1) * Full
        /\ Len(collected) <= total
    BY <1>1, <1>6 DEF Inv, Walked
  <2>4. collected' = Items(0, page.last) /\ Len(collected') = page.last
    <3>1. 0 <= page.first /\ page.first <= page.last /\ page.first \in Nat /\ page.last \in Nat
      BY <1>2, <1>3
    <3>2. Items(0, page.first) \o Items(page.first, page.last) = Items(0, page.last)
      BY <3>1, ItemsFacts
    <3>3. Len(Items(0, page.last)) = page.last
      <4>1. 0 \in Nat /\ 0 <= page.last /\ page.last - 0 = page.last
        BY <3>1
      <4> QED
        BY <3>1, <4>1, ItemsAre
    <3> QED
      BY <1>1, <2>2, <2>3, <3>1, <3>2, <3>3
  <2>5. (asked - 1) * Full + Full = asked * Full /\ asked * Full \in Nat
    BY <1>2, <2>1
  <2>6. page.last = Lesser(asked * Full, total)
    BY <2>2, <2>3, <2>5
  <2>7. page.number < page.totalPages <=> asked * Full < total
    BY <1>2, <1>6, <2>1, <2>2, TotalPagesFacts DEF Full
  <2>8. CASE page.number < page.totalPages
    <3>1. page.last = asked * Full /\ page.last <= total
      BY <1>2, <2>5, <2>6, <2>7, <2>8 DEF Lesser
    <3>2. stage' = "asking" /\ asked' = asked + 1 /\ asked' - 1 = asked
      BY <1>1, <1>6, <2>1, <2>2, <2>8
    <3> QED
      BY <2>1, <2>4, <3>1, <3>2
  <2>9. CASE ~(page.number < page.totalPages)
    <3>1. page.last = total
      BY <1>2, <2>5, <2>6, <2>7, <2>9 DEF Lesser
    <3>2. stage' = "done"
      BY <1>1, <2>9
    <3> QED
      BY <2>4, <3>1, <3>2
  <2> QED
    BY <2>8, <2>9
<1>7. Walked'
  BY <1>1, <1>6 DEF Walked, Full
<1> QED
  BY <1>4, <1>5, <1>7 DEF Inv

LEMMA InvNext == Inv /\ [Next]_vars => Inv'
<1> SUFFICES ASSUME Inv, [Next]_vars PROVE Inv'
  OBVIOUS
<1>1. CASE UNCHANGED vars
  BY <1>1 DEF vars, query, Inv, TypeOK, Answered, Walked, Full
<1> QED
  BY <1>1, AnswerKeeps, AnswerPanicsKeeps, CollectKeeps DEF Next

-----------------------------------------------------------------------------
(* The invariant holds for every request. *)
THEOREM Invariance == Spec => []Inv
  BY InvInit, InvNext, PTL DEF Spec

(* A page that is answered was sliced inside its list and holds at most the *)
(* cap, whatever numbers the request has and however the products wrap.     *)
THEOREM TypeCorrect == Spec => []TypeOK
<1>1. Inv => TypeOK
  BY DEF Inv
<1> QED
  BY <1>1, Invariance, PTL

(* A reader that walks the pages collects the list from its beginning,      *)
(* without gap or repetition, is never stopped by a panic, and ends with    *)
(* the whole list.                                                          *)
THEOREM WalksAreComplete == Spec => []WalkCollectsList
<1>1. Inv => WalkCollectsList
  BY DEF Inv, Walked, WalkCollectsList
<1> QED
  BY <1>1, Invariance, PTL

(* A request with a page size that is not negative and an offset that fits  *)
(* an int is answered without a panic, with the page its number promises.   *)
THEOREM PagesAreThoseAsked == Spec => []PageIsTheOneAsked
<1>1. Inv => PageIsTheOneAsked
  <2> DEFINE full == IF perPage = 0 THEN DefaultPerPage ELSE Lesser(perPage, MaxPerPage)
             number == IF asked < 1 THEN 1 ELSE asked
             skipped == (number - 1) * full
             size == page.last - page.first
  <2> SUFFICES ASSUME Inv, stage \in {"answered", "panicked"}, perPage >= 0, skipped < IntLimit
               PROVE  /\ stage = "answered" /\ page.number = number
                      /\ size = Lesser(full, total - Lesser(skipped, total))
                      /\ size > 0 => page.first = skipped
                      /\ size > 0 <=> number <= page.totalPages
    BY DEF PageIsTheOneAsked
  <2>1. /\ total \in Nat /\ total + MaxPerPage < IntLimit /\ perPage \in Ints /\ asked \in Ints
        /\ MaxPerPage \in Nat /\ IntLimit \in Nat
    BY Basics DEF Inv
  <2>2. full = EffectivePerPage(perPage)
    BY DEF EffectivePerPage
  <2>3. number = EffectivePage(asked) /\ number \in Int /\ number - 1 \in Nat
    <3>1. number = EffectivePage(asked)
      BY <2>1 DEF EffectivePage, Ints
    <3> QED
      BY <2>1, <3>1, PageNumberFacts DEF Ints
  <2>4. full \in 1 .. MaxPerPage
    BY <2>1, <2>2, PerPageFacts
  <2> HIDE DEF full, number
  <2>5. skipped = (EffectivePage(asked) - 1) * EffectivePerPage(perPage) /\ skipped \in Nat
    BY <2>2, <2>3, <2>4
  <2> HIDE DEF skipped
  <2>6. /\ Start(total, asked, perPage) = Lesser(skipped, total)
        /\ End(total, asked, perPage) =
             Lesser(Lesser(skipped, total) + EffectivePerPage(perPage), total)
        /\ ~Panics(total, asked, perPage)
    BY <2>1, <2>5, FittingPage
  <2>7. stage = "answered" /\ page = PageOf(total, asked, perPage)
    BY <2>6 DEF Inv, Answered
  <2>8. /\ page.number = number /\ page.first = Lesser(skipped, total)
        /\ page.last = Lesser(Lesser(skipped, total) + full, total)
    BY <2>2, <2>3, <2>6, <2>7 DEF PageOf
  <2>9. number - 1 < page.totalPages <=> skipped < total
    <3>1. page.totalPages = TotalPages(total, perPage)
      BY <2>7 DEF PageOf
    <3>2. \A k \in Nat : k < TotalPages(total, perPage) <=> k * EffectivePerPage(perPage) < total
      BY <2>1, TotalPagesFacts
    <3>3. number - 1 < TotalPages(total, perPage)
            <=> (number - 1) * EffectivePerPage(perPage) < total
      BY <2>3, <3>2
    <3> QED
      BY <2>2, <3>1, <3>3 DEF skipped
  <2>10. number <= page.totalPages <=> skipped < total
    <3>1. page.totalPages \in Nat
      BY <2>1, <2>7, TotalPagesFacts DEF PageOf
    <3> QED
      BY <2>3, <2>9, <3>1
  <2> QED
    BY <2>1, <2>4, <2>5, <2>7, <2>8, <2>10 DEF Lesser
<1> QED
  BY <1>1, Invariance, PTL
=============================================================================
