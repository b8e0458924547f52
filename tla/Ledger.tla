------------------------------- MODULE Ledger -------------------------------
(***************************************************************************)
(* The closed-form ledger of mockserver/internal/gen/ledger.go.            *)
(*                                                                         *)
(* SnapshotBalancesAt prices every account but one, the residual, at a     *)
(* rate fixed at genesis, and gives the residual what is left of the total *)
(* supply of the height.  Balances are unsigned: were the priced accounts  *)
(* ever worth more than the supply, the residual would wrap around.  The   *)
(* snapshots are taken for the heights 0, 1, 2, ...; each loop of the code *)
(* is an action here, and a step is one iteration.                         *)
(*                                                                         *)
(* The code computes with float64, this module with the exact fractions:   *)
(* a raw value is raws[i] / Denominator.  A conversion to uint64 rounds    *)
(* down.  An account's noise is 1 unless the account is active at the      *)
(* height, and that is a nondeterministic choice.                          *)
(***************************************************************************)
EXTENDS Integers, Functions

CONSTANTS
  Sizes,          \* numbers of accounts a chain may have
  Base,           \* the baseValue of each account
  Noises,         \* noise factors of active accounts, in units of 1 / NoiseUnit
  NoiseUnit,      \* the factor 1
  GenesisSupply,  \* TotalSupplyAt(0)
  GrowthUnit,     \* 1 / inflationRate: heights until the supply has doubled
  Modulus,        \* 2^64, where uint64 wraps
  MaxHeight       \* bound: the last height a snapshot is taken of

ASSUME LedgerAssumption ==
  /\ Sizes \subseteq Nat \ {0}
  /\ \A size \in Sizes : \A a \in 1 .. size : Base[a] \in Nat \ {0}
  /\ Noises \subseteq Nat
  /\ NoiseUnit \in Nat \ {0}
  /\ GenesisSupply \in Nat
  /\ GrowthUnit \in Nat \ {0}
  /\ Modulus \in Nat \ {0}
  /\ MaxHeight \in Nat

VARIABLES
  n,          \* the number of accounts, len(addrs)
  height,     \* the height of the snapshot being taken
  pc,         \* the loop SnapshotBalancesAt is in
  i,          \* the loop's index
  residual,   \* the best candidate of residualIndex so far, 0 before the first
  baseSum,    \* sum of exchangeRate
  raws,       \* numerators of the raw values
  sumOthers,  \* numerator of the sum of the raw values
  active,     \* accounts that are active at the height
  out,        \* the balances computed so far
  sum,        \* the sum of the priced balances
  snapshots   \* the snapshots taken, by height

vars == <<n, height, pc, i, residual, baseSum, raws, sumOthers, active, out, sum, snapshots>>

Accounts == 1 .. n

TotalSupplyAt(h) == (GenesisSupply * (GrowthUnit + h)) \div GrowthUnit

Denominator == NoiseUnit * baseSum

Zeros == [a \in Accounts |-> 0]

\* Mutant: one iteration too many.
AdvanceTooFar(next) ==
  /\ i' = IF i <= n THEN i + 1 ELSE 1
  /\ pc' = IF i <= n THEN pc ELSE next

\* The next iteration of a loop, or the first of the one that follows.
Advance(next) ==
  /\ i' = IF i < n THEN i + 1 ELSE 1
  /\ pc' = IF i < n THEN pc ELSE next

\* SnapshotBalancesAt returns balances, and is called for the next height.
Return(balances, fallback) ==
  /\ snapshots' = [h \in 0 .. height |->
                     IF h = height
                     THEN [balances |-> balances, active |-> active,
                           residual |-> residual, fallback |-> fallback]
                     ELSE snapshots[h]]
  /\ height' = height + 1
  /\ pc' = IF height < MaxHeight THEN "call" ELSE "done"

Init ==
  /\ n \in Sizes
  /\ height = 0
  /\ pc = "call"
  /\ i = 1
  /\ residual = 0
  /\ baseSum = 0
  /\ raws = Zeros
  /\ sumOthers = 0
  /\ active = {}
  /\ out = Zeros
  /\ sum = 0
  /\ snapshots = [h \in {} |-> 0]

Call ==
  /\ pc = "call"
  /\ n > 1
  /\ pc' = "residual"
  /\ i' = 1
  /\ residual' = 0
  /\ baseSum' = 0
  /\ raws' = Zeros
  /\ sumOthers' = 0
  /\ active' = {}
  /\ out' = Zeros
  /\ sum' = 0
  /\ UNCHANGED <<n, height, snapshots>>

\* Mutant: the single account keeps the supply of genesis.
CallForOneAtGenesis ==
  /\ pc = "call"
  /\ n = 1
  /\ Return([a \in Accounts |-> TotalSupplyAt(0)], FALSE)
  /\ UNCHANGED <<n, i, residual, baseSum, raws, sumOthers, active, out, sum>>

\* A single account gets the whole supply.
CallForOne ==
  /\ pc = "call"
  /\ n = 1
  /\ Return([a \in Accounts |-> TotalSupplyAt(height)], FALSE)
  /\ UNCHANGED <<n, i, residual, baseSum, raws, sumOthers, active, out, sum>>

\* residualIndex: the first account with the largest base value.
PickResidual ==
  /\ pc = "residual"
  /\ residual' = IF residual = 0 \/ Base[i] > Base[residual] THEN i ELSE residual
  /\ Advance("rate")
  /\ UNCHANGED <<n, height, baseSum, raws, sumOthers, active, out, sum, snapshots>>

\* Mutant: the sum is assigned to instead of added to.
SumBaseAssigned ==
  /\ pc = "rate"
  /\ baseSum' = Base[i]
  /\ Advance("price")
  /\ UNCHANGED <<n, height, residual, raws, sumOthers, active, out, sum, snapshots>>

\* exchangeRate: the rate is GenesisSupply / baseSum.
SumBase ==
  /\ pc = "rate"
  /\ baseSum' = baseSum + Base[i]
  /\ Advance("price")
  /\ UNCHANGED <<n, height, residual, raws, sumOthers, active, out, sum, snapshots>>

\* Mutant: the rate follows the supply of the height.
RawValueLive(noise) == Base[i] * noise * TotalSupplyAt(height)

\* The raw value of account i under a noise factor, times the rate.
RawValue(noise) == Base[i] * noise * GenesisSupply

PriceWith(noise) ==
  /\ raws' = [raws EXCEPT ![i] = RawValue(noise)]
  /\ sumOthers' = sumOthers + RawValue(noise)
  /\ Advance("compare")

PriceInactive ==
  /\ pc = "price"
  /\ i # residual
  /\ PriceWith(NoiseUnit)
  /\ UNCHANGED <<n, height, residual, baseSum, active, out, sum, snapshots>>

PriceActive ==
  /\ pc = "price"
  /\ i # residual
  /\ \E noise \in Noises : PriceWith(noise)
  /\ active' = active \cup {i}
  /\ UNCHANGED <<n, height, residual, baseSum, out, sum, snapshots>>

SkipResidual ==
  /\ pc = "price"
  /\ i = residual
  /\ Advance("compare")
  /\ UNCHANGED <<n, height, residual, baseSum, raws, sumOthers, active, out, sum, snapshots>>

\* Mutant: no fallback.
NeverScale == FALSE

\* Are the priced accounts worth more than the supply of the height?
MustScale == sumOthers > TotalSupplyAt(height) * Denominator

Compare ==
  /\ pc = "compare"
  /\ pc' = IF MustScale THEN "scale" ELSE "floor"
  /\ UNCHANGED <<n, height, i, residual, baseSum, raws, sumOthers, active, out, sum, snapshots>>

\* The fallback: priced balances shrink in proportion, the residual gets nothing.
Scale ==
  /\ pc = "scale"
  /\ out' = [out EXCEPT ![i] =
               IF i = residual THEN 0
               ELSE (raws[i] * TotalSupplyAt(height)) \div sumOthers]
  /\ Advance("fallback")
  /\ UNCHANGED <<n, height, residual, baseSum, raws, sumOthers, active, sum, snapshots>>

ReturnScaled ==
  /\ pc = "fallback"
  /\ Return(out, TRUE)
  /\ UNCHANGED <<n, i, residual, baseSum, raws, sumOthers, active, out, sum>>

Floor ==
  /\ pc = "floor"
  /\ out' = [out EXCEPT ![i] = IF i = residual THEN 0 ELSE raws[i] \div Denominator]
  /\ Advance("sum")
  /\ UNCHANGED <<n, height, residual, baseSum, raws, sumOthers, active, sum, snapshots>>

Sum ==
  /\ pc = "sum"
  /\ sum' = IF i = residual THEN sum ELSE sum + out[i]
  /\ Advance("rest")
  /\ UNCHANGED <<n, height, residual, baseSum, raws, sumOthers, active, out, snapshots>>

\* Mutant: the residual gets what is left of the supply of genesis.
ReturnRestOfGenesis ==
  /\ pc = "rest"
  /\ out' = [out EXCEPT ![residual] =
               IF sum <= TotalSupplyAt(0) THEN TotalSupplyAt(0) - sum
               ELSE TotalSupplyAt(0) - sum + Modulus]
  /\ Return(out', FALSE)
  /\ UNCHANGED <<n, i, residual, baseSum, raws, sumOthers, active, sum>>

\* The residual gets what is left, computed in unsigned arithmetic.
ReturnRest ==
  /\ pc = "rest"
  /\ out' = [out EXCEPT ![residual] =
               IF sum <= TotalSupplyAt(height) THEN TotalSupplyAt(height) - sum
               ELSE TotalSupplyAt(height) - sum + Modulus]
  /\ Return(out', FALSE)
  /\ UNCHANGED <<n, i, residual, baseSum, raws, sumOthers, active, sum>>

Next ==
  \/ Call
  \/ CallForOne
  \/ PickResidual
  \/ SumBase
  \/ PriceInactive
  \/ PriceActive
  \/ SkipResidual
  \/ Compare
  \/ Scale
  \/ ReturnScaled
  \/ Floor
  \/ Sum
  \/ ReturnRest

Spec == Init /\ [][Next]_vars

-----------------------------------------------------------------------------
Snapshots ==
  [balances : [Accounts -> Nat], active : SUBSET Accounts, residual : 0 .. n,
   fallback : BOOLEAN]

\* Types.
TypeOK ==
  /\ n \in Sizes
  /\ height \in 0 .. MaxHeight + 1
  /\ pc \in {"call", "residual", "rate", "price", "compare", "scale", "fallback",
             "floor", "sum", "rest", "done"}
  /\ i \in Accounts
  /\ residual \in 0 .. n
  /\ baseSum \in Nat
  /\ raws \in [Accounts -> Nat]
  /\ sumOthers \in Nat
  /\ active \in SUBSET Accounts
  /\ out \in [Accounts -> Nat]
  /\ sum \in Nat
  /\ snapshots \in [0 .. height - 1 -> Snapshots]

\* No balance exceeds the supply of its height: the unsigned subtraction that
\* gives the residual its balance never wraps around.
NoBalanceAboveSupply ==
  \A h \in DOMAIN snapshots : \A a \in Accounts :
    snapshots[h].balances[a] <= TotalSupplyAt(h)

\* The balances of a height add up to its supply; after the fallback, rounding
\* has lost less than one unit for each account but the residual.
Conservation ==
  \A h \in DOMAIN snapshots :
    LET total == SumFunction(snapshots[h].balances)
    IN  IF snapshots[h].fallback
        THEN total <= TotalSupplyAt(h) /\ TotalSupplyAt(h) - total < n - 1
        ELSE total = TotalSupplyAt(h)

\* A height at which no account is active does not take the fallback: growth
\* alone never makes the priced accounts worth more than the supply.
QuietHeightsArePriced ==
  \A h \in DOMAIN snapshots : snapshots[h].active = {} => ~snapshots[h].fallback

\* An account that is active at neither of two heights has the same balance at
\* both, unless it is the residual (a single account is) or one of the two took
\* the fallback: other accounts' activity and the growth of the supply do not
\* move it.
InactiveAccountsUnmoved ==
  n > 1 =>
  \A h, k \in DOMAIN snapshots : \A a \in Accounts :
    /\ a \notin snapshots[h].active \cup snapshots[k].active
    /\ a # snapshots[h].residual /\ a # snapshots[k].residual
    /\ ~snapshots[h].fallback /\ ~snapshots[k].fallback
    => snapshots[h].balances[a] = snapshots[k].balances[a]

\* The comment above SnapshotBalancesAt: the total lands on the supply exactly,
\* conservation is never allowed to break.
ExactConservation ==
  \A h \in DOMAIN snapshots :
    SumFunction(snapshots[h].balances) = TotalSupplyAt(h)
=============================================================================
