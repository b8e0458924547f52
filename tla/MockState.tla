------------------------------ MODULE MockState ------------------------------
(***************************************************************************)
(* The mutable ledger of mockserver/internal/chain/mock_state.go: the      *)
(* events and evidence of a block, and the pools a dex batch moves funds   *)
(* through.  The program generates its snapshots in closed form and calls  *)
(* none of this; the methods are modelled as a library, called in any      *)
(* order with any batch, for heights that follow each other.               *)
(*                                                                         *)
(* A batch is applied in three calls: orders put what they sell into the   *)
(* holding pool, deposits move theirs from the holding pool to the         *)
(* liquidity pool against points, and withdrawals burn points against a    *)
(* share of the liquidity pool.  All of it is in unsigned integers with a  *)
(* lookup by address beside the list of points, so that what is paid, what *)
(* is burned and what is left must be kept in step.                        *)
(*                                                                         *)
(* snapshot and computeSupply only read; validators and accounts never     *)
(* change.  A chain cannot be built with fewer than two validators, which  *)
(* beginBlock indexes.  Nothing ever delays an event.                      *)
(***************************************************************************)
EXTENDS Integers, Sequences, SequencesExt

CONSTANTS
  Addresses,         \* the accounts that deposit and withdraw
  Provider,          \* the account that has the first points
  PoolIds,           \* the pools; chain 1's own pool is the reward pool
  FirstHolding,      \* the holding pool at first
  FirstLiquidity,    \* the liquidity pool at first
  FirstPoints,       \* the provider's points (100 in the code)
  Inflation,         \* what a block adds to the reward pool (1 000 in the code)
  ShareDivisor,      \* deposited amount per point (10 in the code)
  SlashPeriod,       \* heights between two slash events (25 in the code)
  DoubleSignPeriod,  \* heights between two double-sign evidences (30 in the code)
  OrderAmounts, DepositAmounts, Percents,  \* what a batch may ask
  MaxBatch,          \* bound: operations of a batch
  MaxAmount,         \* bound: a pool that more is put into
  MaxEntries,        \* bound: entries of a pool that another is appended to
  MaxHeight          \* bound: heights

ASSUME StateAssumption ==
  /\ Provider \in Addresses
  /\ PoolIds \subseteq {"reward", "holding", "liquidity"}
  /\ {FirstHolding, FirstLiquidity, FirstPoints, Inflation} \subseteq Nat
  /\ ShareDivisor \in Nat \ {0}
  /\ SlashPeriod \in Nat \ {0} /\ DoubleSignPeriod \in Nat \ {0}
  /\ OrderAmounts \cup DepositAmounts \cup Percents \subseteq Nat
  /\ MaxBatch \in Nat /\ MaxAmount \in Nat /\ MaxEntries \in Nat /\ MaxHeight \in Nat

VARIABLES
  height,       \* s.height
  pools,        \* s.pools
  events,       \* s.events
  nonSigners,   \* s.nonSigners
  doubleSign,   \* s.doubleSign
  blockEvents,  \* what endBlock returned, and for which height
  results       \* what the last call returned, if it was applyBatchWithdrawals

block == <<height, events, nonSigners, doubleSign, blockEvents>>
vars == <<block, pools, results>>

-----------------------------------------------------------------------------
(* A block. *)

NonSignersAt(h) == <<(h % 3) + 1, (h % 2) + 1>>

DoubleSignAt(h) == IF h % DoubleSignPeriod = 0 THEN {h - 1, h} ELSE {}

SlashEvents(h) ==
  IF h % SlashPeriod = 0 THEN <<[type |-> "slash", height |-> h]>> ELSE <<>>

Credit(amounts, id, amount) ==
  IF id \in DOMAIN amounts THEN [amounts EXCEPT ![id].amount = @ + amount] ELSE amounts

\* Mutant: the events of the block before stay.
BeginBlockKeepsEvents(h) ==
  /\ height' = h
  /\ events' = events \o SlashEvents(h)
  /\ nonSigners' = NonSignersAt(h)
  /\ doubleSign' = DoubleSignAt(h)
  /\ pools' = Credit(pools, "reward", Inflation)
  /\ results' = <<>>
  /\ UNCHANGED blockEvents

BeginBlock(h) ==
  /\ height' = h
  /\ events' = SlashEvents(h)
  /\ nonSigners' = NonSignersAt(h)
  /\ doubleSign' = DoubleSignAt(h)
  /\ pools' = Credit(pools, "reward", Inflation)
  /\ results' = <<>>
  /\ UNCHANGED blockEvents

EndBlock ==
  /\ blockEvents' = [height |-> height, events |-> events]
  /\ results' = <<>>
  /\ UNCHANGED <<height, events, nonSigners, doubleSign, pools>>

-----------------------------------------------------------------------------
(* Orders and deposits. *)

ApplyBatchOrders(orders) ==
  /\ pools' = FoldLeft(LAMBDA p, amount : Credit(p, "holding", amount), pools, orders)
  /\ results' = <<>>
  /\ UNCHANGED block

\* Mutant: the total counts the amount, not the points.
AddPointsOfAmount(pool, address, amount) ==
  [pool EXCEPT !.points = Append(@, [address |-> address, points |-> amount \div ShareDivisor]),
               !.total = @ + amount]

\* Every deposit gets an entry of its own, at a price that does not depend on
\* what the pool holds.
AddPoints(pool, address, amount) ==
  LET share == amount \div ShareDivisor
  IN  [pool EXCEPT !.points = Append(@, [address |-> address, points |-> share]),
                   !.total = @ + share]

\* Mutant: a deposit of all there is does not debit the holding pool.
DebitUnlessAll(p, id, amount) ==
  IF id \in DOMAIN p /\ p[id].amount > amount THEN [p EXCEPT ![id].amount = @ - amount] ELSE p

\* Mutant: a pool that has less is debited all the same.
DebitUnguarded(p, id, amount) ==
  IF id \in DOMAIN p THEN [p EXCEPT ![id].amount = @ - amount] ELSE p

\* A pool that has less keeps what it has.
Debit(p, id, amount) ==
  IF id \in DOMAIN p /\ p[id].amount >= amount THEN [p EXCEPT ![id].amount = @ - amount] ELSE p

Deposit(p, deposit) ==
  LET credited == IF "liquidity" \in DOMAIN p
                  THEN [Credit(p, "liquidity", deposit.amount) EXCEPT
                          !["liquidity"] = AddPoints(@, deposit.address, deposit.amount)]
                  ELSE p
  IN  Debit(credited, "holding", deposit.amount)

ApplyBatchDeposits(deposits) ==
  /\ pools' = FoldLeft(Deposit, pools, deposits)
  /\ results' = <<>>
  /\ UNCHANGED block

-----------------------------------------------------------------------------
(* Withdrawals. *)

SafeMulDiv(x, y, z) == (x * y) \div z

\* The lookup has the last entry of an address.
PointsByAddress(pool) ==
  [a \in Addresses |->
     LET last == SelectLastInSeq(pool.points, LAMBDA entry : entry.address = a)
     IN  IF last = 0 THEN 0 ELSE pool.points[last].points]

Burn(points, percent) == SafeMulDiv(points, Min({percent, 100}), 100)

\* Mutant: the points of an earlier withdrawal are used again.
WithdrawAgain(pool, state, withdrawal) ==
  LET burn == Burn(state.points[withdrawal.address], withdrawal.percent)
  IN  [points  |-> state.points,
       results |-> Append(state.results,
                     [address      |-> withdrawal.address,
                      pointsBurned |-> burn,
                      localAmount  |-> SafeMulDiv(pool.amount, burn, pool.total)])]

\* Every withdrawal is priced at the pool as the batch found it.
Withdraw(pool, state, withdrawal) ==
  LET points == state.points[withdrawal.address]
      burn == Burn(points, withdrawal.percent)
  IN  [points  |-> [state.points EXCEPT ![withdrawal.address] = points - burn],
       results |-> Append(state.results,
                     [address      |-> withdrawal.address,
                      pointsBurned |-> burn,
                      localAmount  |-> SafeMulDiv(pool.amount, burn, pool.total)])]

WithdrawalResults(pool, withdrawals) ==
  FoldLeft(LAMBDA state, withdrawal : Withdraw(pool, state, withdrawal),
           [points |-> PointsByAddress(pool), results |-> <<>>], withdrawals).results

Paid(paid) == FoldLeft(LAMBDA sum, result : sum + result.localAmount, 0, paid)

\* fsm.Pool.RemovePoints takes the points from an entry of the address, and
\* fails if there is none or it has not enough.  Which one it takes them from is
\* not known here, and the caller ignores the error.
RemovePoints(pool, address, points) ==
  LET entries == {j \in DOMAIN pool.points : pool.points[j].address = address}
      Taken(j) ==
        LET left == pool.points[j].points - points
        IN  [pool EXCEPT !.total = @ - points,
                         !.points = IF left = 0 THEN RemoveAt(@, j)
                                    ELSE [@ EXCEPT ![j].points = left]]
  IN  IF entries = {} THEN {pool}
      ELSE {IF pool.points[j].points < points THEN pool ELSE Taken(j) : j \in entries}

\* Mutant: what is paid out is not burned.
BurnAllSkipped(pool, paid) == {pool}

\* The pools that may be left when the points of all the results are removed.
BurnAll(pool, paid) ==
  FoldLeft(LAMBDA outcomes, result :
             IF result.pointsBurned = 0 THEN outcomes
             ELSE UNION {RemovePoints(p, result.address, result.pointsBurned) : p \in outcomes},
           {pool}, paid)

NothingWithdrawn(withdrawals) ==
  [i \in DOMAIN withdrawals |->
     [address |-> withdrawals[i].address, pointsBurned |-> 0, localAmount |-> 0]]

CanWithdraw ==
  /\ "liquidity" \in DOMAIN pools
  /\ pools["liquidity"].total # 0
  /\ pools["liquidity"].amount # 0

ApplyBatchWithdrawals(withdrawals) ==
  /\ IF CanWithdraw
     THEN /\ results' = WithdrawalResults(pools["liquidity"], withdrawals)
          /\ LET left == [pools["liquidity"] EXCEPT !.amount = Max({@ - Paid(results'), 0})]
             IN  \E pool \in BurnAll(left, results') : pools' = [pools EXCEPT !["liquidity"] = pool]
     ELSE results' = NothingWithdrawn(withdrawals) /\ UNCHANGED pools
  /\ UNCHANGED block

-----------------------------------------------------------------------------
Pool(amount) == [amount |-> amount, points |-> <<>>, total |-> 0]

\* The pools buildPools makes and newMockState takes.
Init ==
  /\ height = 0
  /\ pools = [id \in PoolIds |->
                CASE id = "reward" -> Pool(0)
                  [] id = "holding" -> Pool(FirstHolding)
                  [] id = "liquidity" ->
                       [amount |-> FirstLiquidity,
                        points |-> <<[address |-> Provider, points |-> FirstPoints]>>,
                        total  |-> FirstPoints]]
  /\ events = <<>>
  /\ nonSigners = <<>>
  /\ doubleSign = {}
  /\ blockEvents = [height |-> 0, events |-> <<>>]
  /\ results = <<>>

Batch(S) == BoundedSeq(S, MaxBatch) \ {<<>>}
Deposits == [address : Addresses, amount : DepositAmounts]
Withdrawals == [address : Addresses, percent : Percents]

\* The bounds on what a batch may add to.
RoomFor(id) == id \in DOMAIN pools => pools[id].amount <= MaxAmount
RoomForPoints(deposits) ==
  "liquidity" \in DOMAIN pools => Len(pools["liquidity"].points) + Len(deposits) <= MaxEntries

Next ==
  \/ height < MaxHeight /\ BeginBlock(height + 1)
  \/ EndBlock
  \/ \E orders \in Batch(OrderAmounts) : RoomFor("holding") /\ ApplyBatchOrders(orders)
  \/ \E deposits \in Batch(Deposits) :
       RoomFor("liquidity") /\ RoomForPoints(deposits) /\ ApplyBatchDeposits(deposits)
  \/ \E withdrawals \in Batch(Withdrawals) : ApplyBatchWithdrawals(withdrawals)

Spec == Init /\ [][Next]_vars

-----------------------------------------------------------------------------
Entries == [address : Addresses, points : Nat]

TypeOK ==
  /\ height \in 0 .. MaxHeight
  /\ pools \in [PoolIds -> [amount : Nat, points : Seq(Entries), total : Nat]]
  /\ \A i \in DOMAIN events : events[i] \in [type : {"slash"}, height : 1 .. MaxHeight]
  /\ nonSigners \in Seq(1 .. 3)
  /\ doubleSign \subseteq 0 .. MaxHeight
  /\ blockEvents.height \in 0 .. MaxHeight
  /\ \A i \in DOMAIN results :
       results[i] \in [address : Addresses, pointsBurned : Nat, localAmount : Nat]

\* The price of a point divides by the total that is kept beside the list of
\* points: deposits and withdrawals keep the two equal, also when the removal of
\* points fails halfway through a batch.
PointsAddUp ==
  \A id \in DOMAIN pools :
    pools[id].total = FoldLeft(LAMBDA sum, entry : sum + entry.points, 0, pools[id].points)

\* endBlock returns the events of the block that was begun, none of a block
\* before it.
EventsBelongToBlock ==
  \A i \in DOMAIN blockEvents.events : blockEvents.events[i].height = blockEvents.height

\* What a batch of withdrawals reports as paid is what the pool loses: several
\* withdrawals of one address never add up to more than the pool has, so the
\* clamp at zero never swallows a payment.
WithdrawalsArePaid ==
  [][results' # <<>> /\ "liquidity" \in PoolIds
       => pools'["liquidity"].amount = pools["liquidity"].amount - Paid(results')]_vars

OneEntryEach ==
  \A i, j \in DOMAIN pools["liquidity"].points :
    pools["liquidity"].points[i].address = pools["liquidity"].points[j].address => i = j

\* As long as no address has two entries, a batch of withdrawals takes nothing
\* from those who stay: a point is worth at least as much as before.
SharesKeepTheirValue ==
  [][results' # <<>> /\ "liquidity" \in PoolIds /\ OneEntryEach
       => pools'["liquidity"].amount * pools["liquidity"].total
            >= pools["liquidity"].amount * pools'["liquidity"].total]_vars

Burned(paid) == SumFunctionOnSet([i \in DOMAIN paid |-> paid[i].pointsBurned], DOMAIN paid)

\* However many entries and withdrawals an address has, a batch burns no more points
\* than there are, pays no more than the burned ones are worth at the price it
\* found, and takes no others out of the pool.  It leaves some that it has paid for,
\* because their removal failed, only if an address has two entries.
BurnsAreCovered ==
  [][results' # <<>> /\ "liquidity" \in PoolIds =>
       LET pool == pools["liquidity"]
           gone == pool.total - pools'["liquidity"].total
           burned == Burned(results')
       IN  /\ burned <= pool.total
           /\ Paid(results') * pool.total <= pool.amount * burned
           /\ gone \in 0 .. burned
           /\ OneEntryEach => gone = burned]_vars

\* What a batch of deposits adds to the liquidity pool it takes from the holding
\* pool; funds are made out of nothing by a deposit of more than the holding pool
\* has left, and by no other.
DepositsMoveFunds ==
  [][{"holding", "liquidity"} \subseteq PoolIds =>
       LET deposited == pools'["liquidity"].amount - pools["liquidity"].amount
           moved == pools["holding"].amount - pools'["holding"].amount
           made == deposited - moved
       IN  deposited > 0 =>
             /\ made \in 0 .. deposited
             /\ made > 0 => made > pools'["holding"].amount]_vars
=============================================================================
