------------------------------- MODULE Paging -------------------------------
(***************************************************************************)
(* paginate and buildPage of mockserver/internal/rpc/server_routes.go.     *)
(*                                                                         *)
(* paginate works on Go ints, which wrap around; slicing a list outside    *)
(* its bounds panics, which net/http recovers by closing the connection.   *)
(* A page of a list of total items is the pair of indexes it slices.       *)
(***************************************************************************)
EXTENDS Integers

CONSTANTS
  DefaultPerPage,   \* 10 in the code
  MaxPerPage,       \* 5000 in the code
  IntLimit          \* ints are -IntLimit .. IntLimit - 1 (2^63 in the code)

ASSUME PagingAssumption ==
  /\ DefaultPerPage \in Nat \ {0}
  /\ MaxPerPage \in Nat \ {0}
  /\ DefaultPerPage <= MaxPerPage
  /\ IntLimit \in Nat
  /\ MaxPerPage < IntLimit

Ints == -IntLimit .. IntLimit - 1

\* A Go int.
Wrap(n) == ((n + IntLimit) % (2 * IntLimit)) - IntLimit

Lesser(m, n) == IF m < n THEN m ELSE n

\* Mutant: the cap is forgotten where the default is set.
EffectivePerPageUncapped(requested) ==
  IF requested = 0 THEN DefaultPerPage ELSE requested

\* Zero asks for the default; more than the cap gets the cap.
EffectivePerPage(requested) ==
  IF requested = 0 THEN DefaultPerPage ELSE Lesser(requested, MaxPerPage)

EffectivePage(requested) == IF requested <= 0 THEN 1 ELSE requested

\* Mutant: pages start at their number.
StartOffByOne(total, number, size) ==
  Lesser(Wrap(EffectivePage(number) * EffectivePerPage(size)), total)

\* The slice paginate returns, items[Start:End].
Start(total, number, size) ==
  Lesser(Wrap((EffectivePage(number) - 1) * EffectivePerPage(size)), total)

End(total, number, size) ==
  Lesser(Wrap(Start(total, number, size) + EffectivePerPage(size)), total)

Panics(total, number, size) ==
  ~ (0 <= Start(total, number, size) /\ Start(total, number, size) <= End(total, number, size))

\* Mutant: a started page is not counted.
TotalPagesFloor(total, size) ==
  IF EffectivePerPage(size) > 0 THEN total \div EffectivePerPage(size) ELSE 0

\* buildPage rounds a started page up.
TotalPages(total, size) ==
  IF EffectivePerPage(size) > 0
  THEN (total + EffectivePerPage(size) - 1) \div EffectivePerPage(size)
  ELSE 0

PageOf(total, number, size) ==
  [first |-> Start(total, number, size), last |-> End(total, number, size),
   number |-> EffectivePage(number), totalPages |-> TotalPages(total, size)]
=============================================================================
