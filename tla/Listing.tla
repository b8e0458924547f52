------------------------------ MODULE Listing ------------------------------
(***************************************************************************)
(* The paged routes of mockserver/internal/rpc/server_routes.go (txs,      *)
(* events, accounts, pools and validators by height) and the listPaged     *)
(* loop of the indexer, for which the response format was made.  The items *)
(* of a list are numbered from one.                                        *)
(***************************************************************************)
EXTENDS Paging, Sequences

CONSTANTS
  MaxItems,         \* bound: the longest list
  PerPages,         \* per-page values a reader asks for
  PageNumbers       \* page numbers a reader asks for out of turn

ASSUME ListingAssumption ==
  /\ MaxItems \in Nat
  /\ PerPages \subseteq Ints
  /\ PageNumbers \subseteq Ints
  /\ MaxItems + MaxPerPage < IntLimit

VARIABLES
  total,      \* the number of items of the list
  walking,    \* the reader walks the list from page 1; otherwise it asks once
  perPage,    \* the per-page value the reader asks for
  asked,      \* the page number of the request
  stage,      \* "asking", "answered", "panicked" or "done"
  page,       \* the last answer
  collected   \* the items the reader has, in the order it got them

query == <<total, walking, perPage>>
vars == <<query, asked, stage, page, collected>>

-----------------------------------------------------------------------------
Items(first, last) == [i \in 1 .. last - first |-> first + i]

-----------------------------------------------------------------------------
EmptyPage == [first |-> 0, last |-> 0, number |-> 0, totalPages |-> 0]

Init ==
  /\ total \in 0 .. MaxItems
  /\ perPage \in PerPages
  /\ walking \in BOOLEAN
  /\ asked \in (IF walking THEN {1} ELSE PageNumbers)
  /\ stage = "asking"
  /\ page = EmptyPage
  /\ collected = <<>>

\* A route paginates and builds the page.
Answer ==
  /\ stage = "asking"
  /\ ~Panics(total, asked, perPage)
  /\ page' = PageOf(total, asked, perPage)
  /\ stage' = "answered"
  /\ UNCHANGED <<query, asked, collected>>

AnswerPanics ==
  /\ stage = "asking"
  /\ Panics(total, asked, perPage)
  /\ stage' = "panicked"
  /\ UNCHANGED <<query, asked, page, collected>>

\* listPaged appends the page and goes on to the next one.
Collect ==
  /\ stage = "answered"
  /\ collected' = collected \o Items(page.first, page.last)
  /\ IF walking /\ page.number < page.totalPages
     THEN asked' = page.number + 1 /\ stage' = "asking"
     ELSE asked' = asked /\ stage' = "done"
  /\ UNCHANGED <<query, page>>

Next == Answer \/ AnswerPanics \/ Collect

Spec == Init /\ [][Next]_vars

-----------------------------------------------------------------------------
\* The answers' numbers are Go ints, and a page that was sliced lies inside the
\* list and is no longer than the cap.
TypeOK ==
  /\ total \in 0 .. MaxItems
  /\ walking \in BOOLEAN
  /\ perPage \in PerPages
  /\ asked \in Ints
  /\ stage \in {"asking", "answered", "panicked", "done"}
  /\ page.first \in 0 .. total
  /\ page.last \in page.first .. Lesser(total, page.first + MaxPerPage)
  /\ page.number \in Ints
  /\ page.totalPages \in 0 .. total
  /\ collected \in Seq(1 .. total)

\* A reader that walks a list, whatever page size it asks for (a negative one
\* excepted), is never cut off by a panic, has at every moment the beginning of
\* the list, without gap or repetition, and in the end all of it.
WalkCollectsList ==
  walking /\ perPage >= 0 =>
    /\ stage # "panicked"
    /\ collected = Items(0, Len(collected))
    /\ stage = "done" => Len(collected) = total

\* A request whose page size is not negative and whose offset fits an int is
\* answered, not dropped by a panic, and with the page its number promises: cut at
\* the end of the list, and empty beyond it.
PageIsTheOneAsked ==
  LET size == page.last - page.first
      full == IF perPage = 0 THEN DefaultPerPage ELSE Lesser(perPage, MaxPerPage)
      number == IF asked < 1 THEN 1 ELSE asked
      skipped == (number - 1) * full
  IN  stage \in {"answered", "panicked"} /\ perPage >= 0 /\ skipped < IntLimit =>
        /\ stage = "answered" /\ page.number = number
        /\ size = Lesser(full, total - Lesser(skipped, total))
        /\ size > 0 => page.first = skipped
        /\ size > 0 <=> number <= page.totalPages
=============================================================================
