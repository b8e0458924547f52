---------------------------- MODULE LedgerProof ----------------------------
(***************************************************************************)
(* Proofs about Ledger for every number of accounts, every distribution of *)
(* base values and noise, every supply and every height.                   *)
(*                                                                         *)
(* The loops add numbers up: the invariant says that what they have        *)
(* accumulated is the sum of what they have passed, and what each loop has *)
(* computed so far.  What is true of a snapshot is read off when it is     *)
(* returned, with the lemmas about sums.                                   *)
(***************************************************************************)
EXTENDS Ledger, FoldLemmas

Valued == {"compare", "scale", "fallback", "floor", "sum", "rest"}
Later == {"price"} \cup Valued
Floored == {"floor", "sum", "rest"}
Scaled == {"scale", "fallback"}

\* The iterations a loop in stage loop has executed.
Passed(loop) == IF pc = loop THEN i - 1 ELSE n

\* What an inactive account of base value one is worth, times Denominator.
Unit == NoiseUnit * GenesisSupply

TotalBase == SumFunctionOnSet(Base, Accounts)

\* Where the control is, and what a loop finds untouched.
Loops ==
  /\ pc # "done" => height <= MaxHeight
  /\ pc \in {"compare", "fallback", "rest"} => i = 1
  /\ pc \in {"residual", "rate"} \cup Later => n > 1
  /\ (pc = "residual" /\ i > 1) \/ pc \in {"rate"} \cup Later => residual \in Accounts
  /\ pc \in {"residual", "rate"} => sumOthers = 0 /\ raws = Zeros
  /\ pc \in {"residual", "rate", "price", "compare"} => out = Zeros
  /\ pc \in {"residual", "rate", "price", "compare", "floor"} => sum = 0
  /\ pc \in Scaled => MustScale
  /\ pc \in Floored => ~MustScale

\* What has been added up.
Sums ==
  /\ pc = "residual" => baseSum = 0
  /\ pc \in {"rate"} \cup Later => baseSum = SumFunctionOnSet(Base, 1 .. Passed("rate"))
  /\ pc \in Later => sumOthers = SumFunctionOnSet(raws, Accounts)
  /\ pc \in {"sum", "rest"} => sum = SumFunctionOnSet(out, 1 .. Passed("sum"))

\* Neither the residual nor an account the loop has not come to has a raw value,
\* and an account that is not active is worth its base value.
Priced ==
  pc \in Later =>
    \A a \in Accounts :
      /\ a = residual \/ a > Passed("price") => raws[a] = 0
      /\ a # residual /\ a <= Passed("price") /\ a \notin active => raws[a] = Base[a] * Unit

\* What the two loops that round have computed.
Rounded ==
  /\ pc \in Scaled =>
       \A a \in Accounts :
         out[a] = IF a <= Passed("scale") /\ a # residual
                  THEN (raws[a] * TotalSupplyAt(height)) \div sumOthers ELSE 0
  /\ pc \in Floored =>
       \A a \in Accounts :
         out[a] = IF a <= Passed("floor") /\ a # residual THEN raws[a] \div Denominator ELSE 0

\* The snapshot of height h is as it should be.
Bounded(snapshot, h) == \A a \in Accounts : snapshot.balances[a] <= TotalSupplyAt(h)

Conserved(snapshot, h) ==
  LET total == SumFunction(snapshot.balances)
  IN  IF snapshot.fallback
      THEN total <= TotalSupplyAt(h) /\ TotalSupplyAt(h) - total < n - 1
      ELSE total = TotalSupplyAt(h)

Quiet(snapshot) ==
  /\ snapshot.active = {} => ~snapshot.fallback
  /\ n > 1 /\ ~snapshot.fallback =>
       \A a \in Accounts \ {snapshot.residual} :
         a \notin snapshot.active
           => snapshot.balances[a] = (Base[a] * Unit) \div (NoiseUnit * TotalBase)

Returned ==
  \A h \in DOMAIN snapshots :
    Bounded(snapshots[h], h) /\ Conserved(snapshots[h], h) /\ Quiet(snapshots[h])

Inv == TypeOK /\ Loops /\ Sums /\ Priced /\ Rounded /\ Returned

-----------------------------------------------------------------------------
(* Arithmetic. *)

LEMMA DivBound ==
  ASSUME NEW a \in Nat, NEW d \in Nat \ {0}
  PROVE  /\ a \div d \in Nat /\ (a \div d) * d <= a
         /\ a <= (a \div d) * d + (d - 1)
  OBVIOUS

LEMMA DivLower ==
  ASSUME NEW a \in Nat, NEW d \in Nat \ {0}, NEW q \in Nat, q * d <= a
  PROVE  q <= a \div d
  OBVIOUS

LEMMA DivUpper ==
  ASSUME NEW a \in Nat, NEW d \in Nat \ {0}, NEW q \in Nat, a <= q * d
  PROVE  a \div d <= q
  OBVIOUS

LEMMA Associate ==
  ASSUME NEW x \in Nat, NEW y \in Nat, NEW k \in Nat
  PROVE  x * y * k = x * (y * k) /\ x * (y * k) = k * (y * x)
<1>1. x * y * k = x * (y * k)
  OBVIOUS
<1>2. x * (y * k) = (y * k) * x /\ k * (y * x) = (y * x) * k
  OBVIOUS
<1>3. (y * k) * x = (y * x) * k
  OBVIOUS
<1> QED
  BY <1>1, <1>2, <1>3

LEMMA SupplyGrows ==
  ASSUME NEW h \in Nat
  PROVE  TotalSupplyAt(h) \in Nat /\ TotalSupplyAt(h) >= GenesisSupply
<1>1. GenesisSupply \in Nat /\ GrowthUnit \in Nat \ {0}
  BY LedgerAssumption
<1>2. GenesisSupply * (GrowthUnit + h) \in Nat
  BY <1>1
<1>3. GenesisSupply * GrowthUnit <= GenesisSupply * (GrowthUnit + h)
  BY <1>1
<1> QED
  BY <1>1, <1>2, <1>3, DivBound, DivLower DEF TotalSupplyAt

LEMMA UnitType == Unit \in Nat
  BY LedgerAssumption DEF Unit

-----------------------------------------------------------------------------
(* What every step may use. *)

LEMMA SameAccounts ==
  n' = n => Accounts' = Accounts /\ Zeros' = Zeros /\ Snapshots' = Snapshots
  BY DEF Accounts, Zeros, Snapshots

LEMMA Typed ==
  ASSUME TypeOK
  PROVE  /\ n \in Nat /\ n >= 1 /\ i \in Nat /\ i >= 1 /\ i <= n
         /\ Accounts = 1 .. n /\ i \in Accounts
         /\ IsFiniteSet(Accounts) /\ Cardinality(Accounts) = n
         /\ height \in Nat /\ MaxHeight \in Nat /\ GenesisSupply \in Nat
         /\ NoiseUnit \in Nat /\ NoiseUnit > 0
         /\ TotalSupplyAt(height) \in Nat
         /\ Denominator \in Nat
         /\ \A a \in Accounts : /\ Base[a] \in Nat /\ Base[a] > 0
                                /\ raws[a] \in Nat /\ out[a] \in Nat
         /\ baseSum \in Nat /\ sumOthers \in Nat /\ sum \in Nat
<1>1. /\ n \in Nat /\ n >= 1 /\ i \in Nat /\ i >= 1 /\ i <= n
      /\ Accounts = 1 .. n /\ i \in Accounts
      /\ height \in Nat /\ MaxHeight \in Nat /\ GenesisSupply \in Nat
      /\ NoiseUnit \in Nat /\ NoiseUnit > 0
      /\ baseSum \in Nat /\ sumOthers \in Nat /\ sum \in Nat
  BY LedgerAssumption DEF TypeOK, Accounts
<1>2. IsFiniteSet(Accounts) /\ Cardinality(Accounts) = n
  <2>1. IsFiniteSet(1 .. n) /\ Cardinality(1 .. n) = IF 1 > n THEN 0 ELSE n - 1 + 1
    BY <1>1, FS_Interval
  <2> QED
    BY <1>1, <2>1
<1>3. TotalSupplyAt(height) \in Nat
  BY <1>1, SupplyGrows
<1>4. Denominator \in Nat
  BY <1>1 DEF Denominator
<1>5. \A a \in Accounts : Base[a] \in Nat /\ Base[a] > 0
  BY LedgerAssumption DEF TypeOK, Accounts
<1>6. \A a \in Accounts : raws[a] \in Nat /\ out[a] \in Nat
  BY DEF TypeOK
<1> QED
  BY <1>1, <1>2, <1>3, <1>4, <1>5, <1>6

LEMMA TotalBaseType ==
  ASSUME TypeOK
  PROVE  TotalBase \in Nat /\ TotalBase > 0
<1>1. \A a \in Accounts : Base[a] \in Nat /\ Base[a] > 0
  BY Typed
<1>2. IsFiniteSet(Accounts) /\ 1 \in Accounts
  BY Typed
<1> QED
  BY <1>1, <1>2, SumNat, SumAtLeast DEF TotalBase

\* Once the base values are summed, the rate is that of all accounts.
LEMMA Rated ==
  ASSUME Inv, pc \in Later
  PROVE  /\ baseSum = TotalBase
         /\ Denominator = NoiseUnit * TotalBase
         /\ Denominator \in Nat \ {0}
         /\ residual \in Accounts /\ n > 1
<1>1. TypeOK /\ residual \in Accounts /\ n > 1
  BY DEF Inv, Loops
<1>2. baseSum = TotalBase
  <2>1. Passed("rate") = n
    BY DEF Passed, Later, Valued
  <2> QED
    BY <2>1 DEF Inv, Sums, TotalBase, Accounts
<1>3. NoiseUnit \in Nat /\ NoiseUnit > 0 /\ TotalBase \in Nat /\ TotalBase > 0
  BY <1>1, Typed, TotalBaseType
<1> QED
  BY <1>1, <1>2, <1>3 DEF Denominator

\* The snapshots already taken stay as they are.
LEMMA ReturnedStays ==
  ASSUME Returned, UNCHANGED <<n, snapshots>>
  PROVE  Returned'
<1>1. /\ n' = n /\ snapshots' = snapshots /\ Accounts' = Accounts /\ TotalBase' = TotalBase
      /\ Unit' = Unit /\ \A h : TotalSupplyAt(h)' = TotalSupplyAt(h)
  BY SameAccounts DEF TotalBase, Unit, TotalSupplyAt
<1> QED
  BY <1>1 DEF Returned, Bounded, Conserved, Quiet

LEMMA InvInit == Init => Inv
<1> SUFFICES ASSUME Init PROVE Inv
  OBVIOUS
<1>1. TypeOK
  BY LedgerAssumption DEF Init, TypeOK, Zeros, Accounts
<1>2. Loops /\ Sums /\ Priced /\ Rounded /\ Returned
  BY LedgerAssumption
     DEF Init, Loops, Sums, Priced, Rounded, Returned, Later, Valued, Floored, Scaled
<1> QED
  BY <1>1, <1>2 DEF Inv

-----------------------------------------------------------------------------
(* Each action preserves the invariant. *)

LEMMA CallKeeps == ASSUME Inv, Call PROVE Inv'
<1> USE SameAccounts DEF Call
<1>0. n \in Nat /\ n > 1
  BY Typed DEF Inv
<1>1. TypeOK'
  BY <1>0 DEF Inv, TypeOK, Zeros, Accounts
<1>2. Loops' /\ Sums' /\ Priced' /\ Rounded'
  BY <1>0 DEF Inv, Loops, Sums, Priced, Rounded, Later, Valued, Floored, Scaled
<1>3. Returned'
  BY ReturnedStays DEF Inv
<1> QED
  BY <1>1, <1>2, <1>3 DEF Inv

LEMMA PickResidualKeeps == ASSUME Inv, PickResidual PROVE Inv'
<1> USE SameAccounts DEF PickResidual, Advance
<1>0. /\ n \in Nat /\ i \in Nat /\ i <= n /\ Accounts = 1 .. n
      /\ pc' \in {"residual", "rate"} /\ (pc' = "rate" => i' = 1)
  BY Typed DEF Inv
<1>1. TypeOK'
  BY <1>0 DEF Inv, TypeOK
<1>2. Loops'
  BY <1>0 DEF Inv, TypeOK, Loops, Later, Valued, Floored, Scaled
<1>3. Sums'
  <2>1. baseSum' = 0
    BY DEF Inv, Sums
  <2>2. pc' = "rate" => Passed("rate")' = 0 /\ 1 .. 0 = {}
    BY <1>0 DEF Passed
  <2>3. pc' = "rate" => baseSum' = SumFunctionOnSet(Base, 1 .. Passed("rate")')
    BY <2>1, <2>2, SumEmpty
  <2> HIDE DEF Advance, PickResidual
  <2> QED
    BY <1>0, <2>1, <2>3 DEF Sums, Later, Valued
<1>4. Priced' /\ Rounded'
  BY <1>0 DEF Priced, Rounded, Later, Valued, Floored, Scaled
<1>5. Returned'
  BY ReturnedStays DEF Inv
<1> QED
  BY <1>1, <1>2, <1>3, <1>4, <1>5 DEF Inv

LEMMA SumBaseKeeps == ASSUME Inv, SumBase PROVE Inv'
<1> USE SameAccounts DEF SumBase, Advance
<1>0. /\ n \in Nat /\ i \in Nat /\ i >= 1 /\ i <= n /\ Accounts = 1 .. n
      /\ Base[i] \in Nat /\ baseSum \in Nat /\ baseSum + Base[i] \in Nat
      /\ pc' = IF i < n THEN "rate" ELSE "price"
      /\ i' = IF i < n THEN i + 1 ELSE 1
  <2>1. TypeOK
    BY DEF Inv
  <2>2. Base[i] \in Nat /\ baseSum \in Nat
    BY <2>1, Typed
  <2> QED
    BY <2>1, <2>2, Typed
<1>1. TypeOK'
  <2>1. i' \in Accounts /\ pc' \in {"rate", "price"} /\ baseSum' \in Nat
    BY <1>0
  <2> HIDE DEF Advance
  <2> QED
    BY <2>1 DEF Inv, TypeOK
<1>2. Loops'
  BY <1>0 DEF Inv, Loops, Later, Valued, Floored, Scaled
<1>3. baseSum' = SumFunctionOnSet(Base, 1 .. Passed("rate")')
  <2>1. baseSum = SumFunctionOnSet(Base, 1 .. i - 1)
    BY DEF Inv, Sums, Passed
  <2>2. i - 1 \in Nat /\ i - 1 + 1 = i /\ \A a \in 1 .. i : Base[a] \in Int
    <3>1. \A a \in Accounts : Base[a] \in Nat
      BY Typed DEF Inv
    <3> QED
      BY <1>0, <3>1
  <2>3. SumFunctionOnSet(Base, 1 .. i - 1 + 1) = SumFunctionOnSet(Base, 1 .. i - 1) + Base[i - 1 + 1]
    <3>1. \A a \in 1 .. i - 1 + 1 : Base[a] \in Int
      BY <2>2
    <3> QED
      BY <2>2, <3>1, SumOfPrefix
  <2>4. Passed("rate")' = i
    BY <1>0 DEF Passed
  <2> QED
    BY <2>1, <2>2, <2>3, <2>4
<1>4. /\ sumOthers' = 0 /\ raws' = Zeros
      /\ pc' = "price" => Passed("price")' = 0
      /\ SumFunctionOnSet(raws', Accounts') = 0
  <2>1. sumOthers' = 0 /\ raws' = Zeros
    BY DEF Inv, Loops
  <2>2. IsFiniteSet(Accounts) /\ \A a \in Accounts : Zeros[a] = 0
    BY Typed DEF Inv, Zeros
  <2>3. SumFunctionOnSet(Zeros, Accounts) = 0
    BY <2>2, SumZero
  <2> QED
    BY <1>0, <2>1, <2>3 DEF Passed
<1>5. pc' \in {"rate", "price"}
  BY <1>0
<1>6. Returned'
  BY ReturnedStays DEF Inv
<1>7. Sums'
  <2> HIDE DEF SumBase, Advance
  <2> QED
    BY <1>3, <1>4, <1>5 DEF Sums
<1>8. Priced'
  <2>1. \A a \in Accounts : Zeros[a] = 0 /\ ~(a <= 0)
    BY <1>0 DEF Zeros
  <2>2. Accounts' = Accounts
    OBVIOUS
  <2> HIDE DEF SumBase, Advance
  <2> QED
    BY <1>4, <1>5, <2>1, <2>2 DEF Priced, Later, Valued
<1>9. Rounded'
  BY <1>5 DEF Rounded, Floored, Scaled
<1> QED
  BY <1>1, <1>2, <1>6, <1>7, <1>8, <1>9 DEF Inv

\* Pricing an account adds its raw value to the sum of the raw values.
LEMMA PriceKeeps ==
  ASSUME Inv, pc = "price", i # residual, NEW noise \in Nat, PriceWith(noise),
         active' \in SUBSET Accounts, active \subseteq active',
         i \notin active' => noise = NoiseUnit,
         UNCHANGED <<n, height, residual, baseSum, out, sum, snapshots>>
  PROVE  Inv'
<1> USE SameAccounts
<1>0. /\ n \in Nat /\ i \in Nat /\ i >= 1 /\ i <= n /\ Accounts = 1 .. n /\ i \in Accounts
      /\ IsFiniteSet(Accounts) /\ sumOthers \in Nat
      /\ \A a \in Accounts : raws[a] \in Nat /\ Base[a] \in Nat
      /\ raws \in [Accounts -> Nat]
  BY Typed DEF Inv, TypeOK
<1>1. RawValue(noise) \in Nat
  <2>1. Base[i] \in Nat /\ GenesisSupply \in Nat
    BY <1>0, LedgerAssumption
  <2> QED
    BY <2>1 DEF RawValue
<1>2. /\ raws' \in [Accounts -> Nat] /\ raws'[i] = RawValue(noise)
      /\ \A a \in Accounts : a # i => raws'[a] = raws[a]
      /\ sumOthers' = sumOthers + RawValue(noise)
  BY <1>0, <1>1 DEF PriceWith
<1>3. /\ i' \in Accounts /\ pc' \in {"price", "compare"}
      /\ Passed("price") = i - 1 /\ Passed("price")' = i
      /\ Passed("rate") = n /\ Passed("rate")' = n
      /\ pc' = "compare" => i' = 1
  BY <1>0 DEF PriceWith, Advance, Passed
<1>4. TypeOK'
  <2>1. sumOthers' \in Nat
    BY <1>0, <1>1, <1>2
  <2> QED
    BY <1>2, <1>3, <2>1 DEF Inv, TypeOK
<1>5. Loops'
  BY <1>3 DEF Inv, Loops, Later, Valued, Floored, Scaled
<1>6. Sums'
  <2>1. raws[i] = 0
    BY <1>0 DEF Inv, Priced, Passed, Later
  <2>2. SumFunctionOnSet(raws', Accounts) = SumFunctionOnSet(raws, Accounts) - raws[i] + raws'[i]
    <3>1. \A a \in Accounts : raws[a] \in Int /\ raws'[a] \in Int
      BY <1>0, <1>2
    <3>2. \A a \in Accounts \ {i} : raws'[a] = raws[a]
      BY <1>2
    <3> DEFINE values == raws'
    <3> HIDE DEF values
    <3>3. SumFunctionOnSet(values, Accounts) = SumFunctionOnSet(raws, Accounts) - raws[i] + values[i]
      <4>1. /\ \A a \in Accounts : raws[a] \in Int /\ values[a] \in Int
            /\ \A a \in Accounts \ {i} : values[a] = raws[a]
        BY <3>1, <3>2 DEF values
      <4>2. i \in Accounts /\ IsFiniteSet(Accounts)
        BY <1>0
      <4> QED
        BY <4>1, <4>2, SumUpdate
    <3> QED
      BY <3>3 DEF values
  <2>3. sumOthers = SumFunctionOnSet(raws, Accounts)
    BY DEF Inv, Sums, Later
  <2>4. sumOthers' = SumFunctionOnSet(raws', Accounts)
    BY <1>0, <1>1, <1>2, <2>1, <2>2, <2>3
  <2>5. baseSum = SumFunctionOnSet(Base, 1 .. n)
    BY <1>3 DEF Inv, Sums, Later
  <2> QED
    BY <1>3, <2>4, <2>5 DEF Sums
<1>7. Priced'
  <2>1. SUFFICES ASSUME NEW a \in Accounts
                 PROVE  /\ a = residual \/ a > i => raws'[a] = 0
                        /\ a # residual /\ a <= i /\ a \notin active' => raws'[a] = Base[a] * Unit
    BY <1>3 DEF Priced, Unit
  <2>2. CASE a = i
    <3>1. RawValue(NoiseUnit) = Base[i] * Unit
      <4>1. Base[i] \in Nat /\ NoiseUnit \in Nat /\ GenesisSupply \in Nat
        BY <1>0, LedgerAssumption
      <4> QED
        BY <4>1, Associate DEF RawValue, Unit
    <3> QED
      BY <1>0, <1>2, <2>2, <3>1
  <2>3. CASE a # i
    <3>1. a \in Nat /\ (a > i => a > i - 1) /\ (a <= i => a <= i - 1)
      BY <1>0, <2>3
    <3>2. /\ a = residual \/ a > i - 1 => raws[a] = 0
          /\ a # residual /\ a <= i - 1 /\ a \notin active => raws[a] = Base[a] * Unit
      BY <1>3 DEF Inv, Priced, Later
    <3> QED
      BY <1>2, <2>3, <3>1, <3>2
  <2> QED
    BY <2>2, <2>3
<1>8. Rounded'
  BY <1>3 DEF Rounded, Floored, Scaled
<1>9. Returned'
  BY ReturnedStays DEF Inv
<1> QED
  BY <1>4, <1>5, <1>6, <1>7, <1>8, <1>9 DEF Inv

LEMMA PriceInactiveKeeps == ASSUME Inv, PriceInactive PROVE Inv'
<1>1. NoiseUnit \in Nat /\ active \in SUBSET Accounts
  BY LedgerAssumption DEF Inv, TypeOK
<1> QED
  BY <1>1, PriceKeeps DEF PriceInactive

LEMMA PriceActiveKeeps == ASSUME Inv, PriceActive PROVE Inv'
<1>1. PICK noise \in Noises : PriceWith(noise)
  BY DEF PriceActive
<1>2. noise \in Nat
  BY LedgerAssumption
<1>3. active' \in SUBSET Accounts /\ active \subseteq active' /\ i \in active'
  BY DEF PriceActive, Inv, TypeOK
<1> QED
  BY <1>1, <1>2, <1>3, PriceKeeps DEF PriceActive

LEMMA SkipResidualKeeps == ASSUME Inv, SkipResidual PROVE Inv'
<1> USE SameAccounts DEF SkipResidual
<1>0. /\ n \in Nat /\ i \in Nat /\ i >= 1 /\ i <= n /\ Accounts = 1 .. n /\ i \in Accounts
  BY Typed DEF Inv
<1>1. /\ i' \in Accounts /\ pc' \in {"price", "compare"}
      /\ Passed("price") = i - 1 /\ Passed("price")' = i
      /\ Passed("rate") = n /\ Passed("rate")' = n
      /\ pc' = "compare" => i' = 1
  BY <1>0 DEF Advance, Passed
<1>2. TypeOK'
  BY <1>1 DEF Inv, TypeOK
<1>3. Loops'
  BY <1>1 DEF Inv, Loops, Later, Valued, Floored, Scaled
<1>4. Sums'
  BY <1>1 DEF Inv, Sums, Later, Valued
<1>5. Priced'
  <2>1. SUFFICES ASSUME NEW a \in Accounts
                 PROVE  /\ a = residual \/ a > i => raws[a] = 0
                        /\ a # residual /\ a <= i /\ a \notin active => raws[a] = Base[a] * Unit
    BY <1>1 DEF Priced, Unit
  <2>2. /\ a = residual \/ a > i - 1 => raws[a] = 0
        /\ a # residual /\ a <= i - 1 /\ a \notin active => raws[a] = Base[a] * Unit
    BY <1>1 DEF Inv, Priced, Later
  <2> QED
    BY <1>0, <2>2
<1>6. Rounded'
  BY <1>1 DEF Rounded, Floored, Scaled
<1>7. Returned'
  BY ReturnedStays DEF Inv
<1> QED
  BY <1>2, <1>3, <1>4, <1>5, <1>6, <1>7 DEF Inv

\* After the price loop, what it computed stays.
LEMMA ValuesStay ==
  ASSUME Inv, pc \in Valued, pc' \in Valued, TypeOK',
         UNCHANGED <<n, height, residual, baseSum, raws, sumOthers, active, snapshots>>
  PROVE  /\ baseSum' = SumFunctionOnSet(Base, 1 .. Passed("rate"))'
         /\ sumOthers' = SumFunctionOnSet(raws, Accounts)'
         /\ Priced' /\ Returned'
         /\ TotalSupplyAt(height)' = TotalSupplyAt(height) /\ Denominator' = Denominator
         /\ MustScale' = MustScale
<1> USE SameAccounts
<1>1. /\ Passed("rate") = n /\ Passed("rate")' = n
      /\ Passed("price") = n /\ Passed("price")' = n
  BY DEF Passed, Valued
<1>2. /\ baseSum' = SumFunctionOnSet(Base, 1 .. Passed("rate"))'
      /\ sumOthers' = SumFunctionOnSet(raws, Accounts)'
  BY <1>1 DEF Inv, Sums, Later
<1>3. Priced'
  BY <1>1 DEF Inv, Priced, Later, Unit
<1>4. Returned'
  BY ReturnedStays DEF Inv
<1>5. /\ TotalSupplyAt(height)' = TotalSupplyAt(height) /\ Denominator' = Denominator
      /\ MustScale' = MustScale
  BY DEF TotalSupplyAt, Denominator, MustScale
<1> QED
  BY <1>2, <1>3, <1>4, <1>5

LEMMA CompareKeeps == ASSUME Inv, Compare PROVE Inv'
<1> USE SameAccounts DEF Compare
<1>0. /\ n \in Nat /\ i = 1 /\ Accounts = 1 .. n /\ out = Zeros
      /\ pc \in Valued /\ pc' \in {"scale", "floor"} /\ pc' \in Valued
  BY Typed DEF Inv, Loops, Valued
<1>1. TypeOK'
  BY DEF Inv, TypeOK
<1>2. Loops'
  BY DEF Inv, Loops, Later, Valued, Floored, Scaled, MustScale, Denominator, TotalSupplyAt
<1>3. Sums' /\ Priced' /\ Returned'
  BY <1>0, <1>1, ValuesStay DEF Sums, Valued
<1>4. Rounded'
  <2>1. /\ pc' = "scale" => Passed("scale")' = 0
        /\ pc' = "floor" => Passed("floor")' = 0
    BY <1>0 DEF Passed
  <2>2. \A a \in Accounts : ~(a <= 0) /\ out'[a] = 0
    BY <1>0 DEF Zeros
  <2> HIDE DEF Compare
  <2> QED
    BY <1>0, <2>1, <2>2 DEF Rounded, Floored, Scaled, Compare
<1> QED
  BY <1>1, <1>2, <1>3, <1>4 DEF Inv

LEMMA SumOthersPositive ==
  ASSUME Inv, pc \in Scaled
  PROVE  sumOthers \in Nat \ {0}
<1>1. sumOthers \in Nat /\ TotalSupplyAt(height) \in Nat /\ Denominator \in Nat
  BY Typed DEF Inv
<1>2. TotalSupplyAt(height) * Denominator \in Nat
  BY <1>1
<1>3. sumOthers > TotalSupplyAt(height) * Denominator
  BY DEF Inv, Loops, MustScale
<1> QED
  BY <1>1, <1>2, <1>3

LEMMA ScaleKeeps == ASSUME Inv, Scale PROVE Inv'
<1> USE SameAccounts
<1>0. /\ n \in Nat /\ i \in Nat /\ i >= 1 /\ i <= n /\ Accounts = 1 .. n /\ i \in Accounts
      /\ raws[i] \in Nat /\ TotalSupplyAt(height) \in Nat /\ sumOthers \in Nat \ {0}
      /\ out \in [Accounts -> Nat]
  BY Typed, SumOthersPositive DEF Inv, TypeOK, Scale, Scaled
<1> DEFINE scaled == (raws[i] * TotalSupplyAt(height)) \div sumOthers
<1>1. scaled \in Nat
  <2>1. raws[i] * TotalSupplyAt(height) \in Nat
    BY <1>0
  <2> QED
    BY <1>0, <2>1, DivBound
<1>2. /\ out' \in [Accounts -> Nat]
      /\ \A a \in Accounts : out'[a] = IF a = i THEN IF i = residual THEN 0 ELSE scaled ELSE out[a]
  BY <1>0, <1>1 DEF Scale
<1>3. /\ i' \in Accounts /\ pc' \in {"scale", "fallback"} /\ (pc' = "fallback" => i' = 1)
      /\ Passed("scale") = i - 1 /\ Passed("scale")' = i /\ pc = "scale"
      /\ UNCHANGED <<n, height, residual, baseSum, raws, sumOthers, active, sum, snapshots>>
  BY <1>0 DEF Scale, Advance, Passed
<1>4. TypeOK'
  BY <1>2, <1>3 DEF Inv, TypeOK
<1>5. /\ baseSum' = SumFunctionOnSet(Base, 1 .. Passed("rate"))'
      /\ sumOthers' = SumFunctionOnSet(raws, Accounts)'
      /\ Priced' /\ Returned'
      /\ TotalSupplyAt(height)' = TotalSupplyAt(height) /\ MustScale' = MustScale
  BY <1>3, <1>4, ValuesStay DEF Valued
<1>6. Loops'
  BY <1>3, <1>5 DEF Inv, Loops, Later, Valued, Floored, Scaled
<1>7. Sums'
  BY <1>3, <1>5 DEF Sums
<1>8. Rounded'
  <2>1. SUFFICES ASSUME NEW a \in Accounts
                 PROVE  out'[a] = IF a <= i /\ a # residual
                                  THEN (raws[a] * TotalSupplyAt(height)) \div sumOthers ELSE 0
    BY <1>3, <1>5 DEF Rounded, Floored
  <2>2. out[a] = IF a <= i - 1 /\ a # residual
                 THEN (raws[a] * TotalSupplyAt(height)) \div sumOthers ELSE 0
    BY <1>3 DEF Inv, Rounded, Scaled
  <2>3. a \in Nat /\ (a # i => (a <= i <=> a <= i - 1))
    BY <1>0
  <2> QED
    BY <1>0, <1>2, <2>2, <2>3
<1> QED
  BY <1>4, <1>5, <1>6, <1>7, <1>8 DEF Inv

LEMMA FloorKeeps == ASSUME Inv, Floor PROVE Inv'
<1> USE SameAccounts
<1>0. /\ n \in Nat /\ i \in Nat /\ i >= 1 /\ i <= n /\ Accounts = 1 .. n /\ i \in Accounts
      /\ raws[i] \in Nat /\ Denominator \in Nat \ {0} /\ out \in [Accounts -> Nat] /\ sum = 0
  <2>1. pc = "floor" /\ pc \in Later /\ TypeOK
    BY DEF Floor, Later, Valued, Inv
  <2> QED
    BY <2>1, Typed, Rated DEF Inv, TypeOK, Loops
<1>1. raws[i] \div Denominator \in Nat
  BY <1>0, DivBound
<1>2. /\ out' \in [Accounts -> Nat]
      /\ \A a \in Accounts :
           out'[a] = IF a = i THEN IF i = residual THEN 0 ELSE raws[i] \div Denominator ELSE out[a]
  BY <1>0, <1>1 DEF Floor
<1>3. /\ i' \in Accounts /\ pc' \in {"floor", "sum"} /\ (pc' = "sum" => i' = 1)
      /\ Passed("floor") = i - 1 /\ Passed("floor")' = i /\ pc = "floor"
      /\ UNCHANGED <<n, height, residual, baseSum, raws, sumOthers, active, sum, snapshots>>
  BY <1>0 DEF Floor, Advance, Passed
<1>4. TypeOK'
  BY <1>2, <1>3 DEF Inv, TypeOK
<1>5. /\ baseSum' = SumFunctionOnSet(Base, 1 .. Passed("rate"))'
      /\ sumOthers' = SumFunctionOnSet(raws, Accounts)'
      /\ Priced' /\ Returned'
      /\ Denominator' = Denominator /\ MustScale' = MustScale
  BY <1>3, <1>4, ValuesStay DEF Valued
<1>6. Loops'
  BY <1>0, <1>3, <1>5 DEF Inv, Loops, Later, Valued, Floored, Scaled
<1>7. Sums'
  <2>1. pc' = "sum" => sum' = SumFunctionOnSet(out', 1 .. Passed("sum")')
    <3>1. pc' = "sum" => Passed("sum")' = 0 /\ 1 .. 0 = {}
      BY <1>3 DEF Passed
    <3> QED
      BY <1>0, <1>3, <3>1, SumEmpty
  <2> QED
    BY <1>3, <1>5, <2>1 DEF Sums
<1>8. Rounded'
  <2>1. SUFFICES ASSUME NEW a \in Accounts
                 PROVE  out'[a] = IF a <= i /\ a # residual THEN raws[a] \div Denominator ELSE 0
    <3>1. Passed("floor")' = i
      BY <1>3
    <3> QED
      BY <1>3, <1>5, <3>1 DEF Rounded, Scaled
  <2>2. out[a] = IF a <= i - 1 /\ a # residual THEN raws[a] \div Denominator ELSE 0
    BY <1>3 DEF Inv, Rounded, Floored
  <2>3. a \in Nat /\ (a # i => (a <= i <=> a <= i - 1))
    BY <1>0
  <2> QED
    BY <1>0, <1>2, <2>2, <2>3
<1> QED
  BY <1>4, <1>5, <1>6, <1>7, <1>8 DEF Inv

LEMMA SumKeeps == ASSUME Inv, Sum PROVE Inv'
<1> USE SameAccounts
<1>0. /\ n \in Nat /\ i \in Nat /\ i >= 1 /\ i <= n /\ Accounts = 1 .. n /\ i \in Accounts
      /\ \A a \in Accounts : out[a] \in Nat
      /\ sum \in Nat
  BY Typed DEF Inv
<1>1. /\ i' \in Accounts /\ pc' \in {"sum", "rest"} /\ (pc' = "rest" => i' = 1)
      /\ Passed("sum") = i - 1 /\ Passed("sum")' = i
      /\ Passed("floor") = n /\ Passed("floor")' = n /\ pc = "sum"
      /\ UNCHANGED <<n, height, residual, baseSum, raws, sumOthers, active, out, snapshots>>
  BY <1>0 DEF Sum, Advance, Passed
<1>2. sum' = sum + out[i]
  <2>1. i = residual => out[i] = 0
    BY <1>0, <1>1 DEF Inv, Rounded, Floored
  <2> QED
    BY <1>0, <2>1 DEF Sum
<1>3. sum' = SumFunctionOnSet(out, 1 .. i)
  <2>1. i - 1 \in Nat /\ i - 1 + 1 = i /\ \A a \in 1 .. i : out[a] \in Int
    BY <1>0
  <2>2. SumFunctionOnSet(out, 1 .. i - 1 + 1) = SumFunctionOnSet(out, 1 .. i - 1) + out[i - 1 + 1]
    <3>1. \A a \in 1 .. i - 1 + 1 : out[a] \in Int
      BY <2>1
    <3> QED
      BY <2>1, <3>1, SumOfPrefix
  <2>3. sum = SumFunctionOnSet(out, 1 .. i - 1)
    BY <1>1 DEF Inv, Sums
  <2> QED
    BY <1>2, <2>1, <2>2, <2>3
<1>4. TypeOK'
  <2>1. sum' \in Nat
    BY <1>0, <1>2
  <2> QED
    BY <1>1, <2>1 DEF Inv, TypeOK
<1>5. /\ baseSum' = SumFunctionOnSet(Base, 1 .. Passed("rate"))'
      /\ sumOthers' = SumFunctionOnSet(raws, Accounts)'
      /\ Priced' /\ Returned'
      /\ Denominator' = Denominator /\ MustScale' = MustScale
  BY <1>1, <1>4, ValuesStay DEF Valued
<1>6. Loops'
  BY <1>1, <1>5 DEF Inv, Loops, Later, Valued, Floored, Scaled
<1>7. Sums'
  BY <1>1, <1>3, <1>5 DEF Sums
<1>8. Rounded'
  BY <1>1, <1>5 DEF Inv, Rounded, Floored, Scaled
<1> QED
  BY <1>4, <1>5, <1>6, <1>7, <1>8 DEF Inv

-----------------------------------------------------------------------------
(* The returns. *)

Snapshot(balances, fallback) ==
  [balances |-> balances, active |-> active, residual |-> residual, fallback |-> fallback]

\* A snapshot that is as it should be may be returned.
LEMMA ReturnKeeps ==
  ASSUME Inv, pc # "done", NEW balances \in [Accounts -> Nat], NEW fallback \in BOOLEAN,
         Return(balances, fallback), out' \in [Accounts -> Nat],
         UNCHANGED <<n, i, residual, baseSum, raws, sumOthers, active, sum>>,
         Bounded(Snapshot(balances, fallback), height),
         Conserved(Snapshot(balances, fallback), height),
         Quiet(Snapshot(balances, fallback))
  PROVE  Inv'
<1> USE SameAccounts
<1>1. height \in Nat /\ height <= MaxHeight /\ MaxHeight \in Nat
  BY Typed DEF Inv, Loops
<1>2. /\ height' = height + 1 /\ height' - 1 = height
      /\ pc' = IF height < MaxHeight THEN "call" ELSE "done"
  BY <1>1 DEF Return
<1>3. /\ DOMAIN snapshots' = 0 .. height /\ DOMAIN snapshots = 0 .. height - 1
      /\ snapshots'[height] = Snapshot(balances, fallback)
      /\ \A h \in 0 .. height : h # height => h \in DOMAIN snapshots /\ snapshots'[h] = snapshots[h]
  BY <1>1 DEF Return, Inv, TypeOK, Snapshot
<1>4. snapshots' \in [0 .. height -> Snapshots]
  <2>1. Snapshot(balances, fallback) \in Snapshots
    BY DEF Inv, TypeOK, Snapshots, Snapshot
  <2>2. \A h \in 0 .. height : snapshots'[h] \in Snapshots
    BY <1>3, <2>1 DEF Inv, TypeOK
  <2>3. snapshots' = [h \in 0 .. height |-> snapshots'[h]]
    BY DEF Return
  <2> QED
    BY <2>2, <2>3
<1>5. TypeOK'
  BY <1>1, <1>2, <1>4 DEF Inv, TypeOK
<1>6. Loops' /\ Sums' /\ Priced' /\ Rounded'
  BY <1>1, <1>2 DEF Loops, Sums, Priced, Rounded, Later, Valued, Floored, Scaled
<1>7. Returned'
  <2>1. \A h \in 0 .. height : /\ Bounded(snapshots'[h], h)
                               /\ Conserved(snapshots'[h], h)
                               /\ Quiet(snapshots'[h])
    <3>1. \A h \in DOMAIN snapshots : /\ Bounded(snapshots[h], h)
                                      /\ Conserved(snapshots[h], h)
                                      /\ Quiet(snapshots[h])
      BY DEF Inv, Returned
    <3> QED
      BY <1>3, <3>1
  <2>2. /\ n' = n /\ Accounts' = Accounts /\ TotalBase' = TotalBase /\ Unit' = Unit
        /\ \A h : TotalSupplyAt(h)' = TotalSupplyAt(h)
    BY DEF TotalBase, Unit, TotalSupplyAt
  <2> QED
    BY <1>3, <2>1, <2>2 DEF Returned, Bounded, Conserved, Quiet
<1> QED
  BY <1>5, <1>6, <1>7 DEF Inv

\* A single account has the supply.
LEMMA CallForOneKeeps == ASSUME Inv, CallForOne PROVE Inv'
<1> DEFINE supply == TotalSupplyAt(height)
           balances == [a \in Accounts |-> supply]
<1>1. /\ n = 1 /\ Accounts = {1} /\ supply \in Nat
  <2>1. n = 1 /\ Accounts = 1 .. n /\ supply \in Nat
    BY Typed DEF Inv, CallForOne
  <2> QED
    BY <2>1
<1> HIDE DEF supply
<1>2. balances \in [Accounts -> Nat] /\ \A a \in Accounts : balances[a] = supply
  BY <1>1
<1>3. SumFunction(balances) = supply
  <2>1. DOMAIN balances = {1} /\ balances[1] = supply
    BY <1>1
  <2> HIDE DEF balances
  <2>2. IsFiniteSet({1}) /\ {1} \ {1} = {}
    BY <1>1, Typed DEF Inv
  <2>3. SumFunctionOnSet(balances, {1}) = balances[1] + SumFunctionOnSet(balances, {})
    <3>1. \A a \in {1} : balances[a] \in Int
      BY <1>1, <2>1
    <3>2. 1 \in {1}
      OBVIOUS
    <3> QED
      BY <2>2, <3>1, <3>2, SumTakeOut
  <2> QED
    BY <1>1, <2>1, <2>3, SumEmpty DEF SumFunction
<1> HIDE DEF balances
<1>4. /\ Bounded(Snapshot(balances, FALSE), height)
      /\ Conserved(Snapshot(balances, FALSE), height)
      /\ Quiet(Snapshot(balances, FALSE))
  BY <1>1, <1>2, <1>3 DEF Bounded, Conserved, Quiet, Snapshot, supply
<1>5. /\ Return(balances, FALSE) /\ pc # "done" /\ out' \in [Accounts -> Nat]
      /\ UNCHANGED <<n, i, residual, baseSum, raws, sumOthers, active, sum>>
  BY DEF CallForOne, balances, supply, Inv, TypeOK
<1> QED
  BY <1>2, <1>4, <1>5, ReturnKeeps

\* The sum of the scaled balances: every one is rounded down by less than one, the
\* residual's not at all.
LEMMA ScaledSum ==
  ASSUME Inv, pc = "fallback"
  PROVE  /\ SumFunctionOnSet(out, Accounts) \in Nat
         /\ SumFunctionOnSet(out, Accounts) <= TotalSupplyAt(height)
         /\ TotalSupplyAt(height) - SumFunctionOnSet(out, Accounts) < n - 1
<1> DEFINE supply == TotalSupplyAt(height)
           others == Accounts \ {residual}
           total == SumFunctionOnSet(out, others)
<1>1. /\ supply \in Nat /\ sumOthers \in Nat \ {0} /\ n \in Nat /\ n > 1
      /\ residual \in Accounts /\ IsFiniteSet(Accounts) /\ Cardinality(Accounts) = n
      /\ \A a \in Accounts : raws[a] \in Nat /\ out[a] \in Nat
  BY Typed, SumOthersPositive, Rated DEF Inv, Scaled, Later, Valued
<1>2. /\ out[residual] = 0 /\ raws[residual] = 0
      /\ \A a \in others : out[a] = (raws[a] * supply) \div sumOthers
  <2>1. Passed("scale") = n /\ \A a \in Accounts : a <= n
    BY Typed DEF Passed, Inv
  <2> QED
    BY <1>1, <2>1 DEF Inv, Rounded, Priced, Scaled, Later, Valued
<1>3. /\ IsFiniteSet(others) /\ Cardinality(others) = n - 1
      /\ \A a \in others : raws[a] \in Nat /\ out[a] \in Nat
  BY <1>1, FS_RemoveElement, FS_Subset
<1>4. sumOthers = SumFunctionOnSet(raws, others)
  <2>1. sumOthers = SumFunctionOnSet(raws, Accounts)
    BY DEF Inv, Sums, Later, Valued
  <2>2. SumFunctionOnSet(raws, Accounts) = raws[residual] + SumFunctionOnSet(raws, others)
    <3>1. \A a \in Accounts : raws[a] \in Int
      BY <1>1
    <3> QED
      BY <1>1, <3>1, SumTakeOut
  <2>3. SumFunctionOnSet(raws, others) \in Nat
    BY <1>3, SumNat
  <2> QED
    BY <1>2, <2>1, <2>2, <2>3
<1>5. SumFunctionOnSet(out, Accounts) = total /\ total \in Nat
  <2>1. SumFunctionOnSet(out, Accounts) = out[residual] + SumFunctionOnSet(out, others)
    <3>1. \A a \in Accounts : out[a] \in Int
      BY <1>1
    <3> QED
      BY <1>1, <3>1, SumTakeOut
  <2>2. SumFunctionOnSet(out, others) \in Nat
    BY <1>3, SumNat
  <2> QED
    BY <1>2, <2>1, <2>2
<1>6. \A a \in others : /\ out[a] * sumOthers <= raws[a] * supply + 0
                        /\ raws[a] * supply <= out[a] * sumOthers + (sumOthers - 1)
  <2>1. SUFFICES ASSUME NEW a \in others
                 PROVE  /\ out[a] * sumOthers <= raws[a] * supply + 0
                        /\ raws[a] * supply <= out[a] * sumOthers + (sumOthers - 1)
    OBVIOUS
  <2>2. raws[a] * supply \in Nat
    BY <1>1, <1>3
  <2> DEFINE share == raws[a] * supply
  <2>3. share \in Nat /\ out[a] = share \div sumOthers
    BY <1>2, <2>2
  <2> HIDE DEF share
  <2>4. out[a] * sumOthers <= share + 0 /\ share <= out[a] * sumOthers + (sumOthers - 1)
    BY <1>1, <2>3, DivBound
  <2> QED
    BY <2>4 DEF share
<1> HIDE DEF supply, others
<1>7. total * sumOthers <= sumOthers * supply + 0 * (n - 1)
  <2>1. 0 \in Nat /\ sumOthers \in Nat
    BY <1>1
  <2> QED
    BY <1>1, <1>3, <1>4, <1>6, <2>1, SumCompare
<1>8. sumOthers * supply <= total * sumOthers + (sumOthers - 1) * (n - 1)
  <2>1. sumOthers - 1 \in Nat /\ sumOthers \in Nat
    BY <1>1
  <2> QED
    BY <1>1, <1>3, <1>4, <1>6, <2>1, SumCompare
<1> HIDE DEF total
<1>9. total <= supply
  <2>1. sumOthers * supply = supply * sumOthers /\ 0 * (n - 1) = 0 /\ supply * sumOthers \in Nat
    BY <1>1
  <2>2. total * sumOthers <= supply * sumOthers
    BY <1>7, <2>1
  <2> QED
    BY <1>1, <1>5, <2>2, MulCancel
<1>10. supply - total < n - 1
  <2>1. SUFFICES ASSUME total + (n - 1) <= supply PROVE FALSE
    BY <1>1, <1>5
  <2> DEFINE rest == n - 1
  <2>2. rest \in Nat /\ rest > 0 /\ total + rest \in Nat /\ total + rest <= supply
    BY <1>1, <1>5, <2>1
  <2> HIDE DEF rest
  <2>3. (total + rest) * sumOthers <= supply * sumOthers
    BY <1>1, <2>2, MulMono
  <2>4. (total + rest) * sumOthers = total * sumOthers + rest * sumOthers
    BY <1>1, <1>5, <2>2
  <2>5. (sumOthers - 1) * rest = rest * sumOthers - rest
    BY <1>1, <2>2
  <2>6. sumOthers * supply = supply * sumOthers
    BY <1>1
  <2>7. supply * sumOthers <= total * sumOthers + (rest * sumOthers - rest)
    BY <1>8, <2>5, <2>6 DEF rest
  <2>8. /\ supply * sumOthers \in Nat /\ total * sumOthers \in Nat /\ rest * sumOthers \in Nat
    BY <1>1, <1>5, <2>2
  <2> QED
    BY <2>2, <2>3, <2>4, <2>7, <2>8
<1> QED
  BY <1>5, <1>9, <1>10 DEF supply

\* Only activity leads to the fallback.
LEMMA QuietIsPriced ==
  ASSUME Inv, pc \in Valued, active = {}
  PROVE  ~MustScale
<1> DEFINE supply == TotalSupplyAt(height)
<1>1. /\ supply \in Nat /\ GenesisSupply <= supply /\ GenesisSupply \in Nat
      /\ n \in Nat /\ IsFiniteSet(Accounts) /\ NoiseUnit \in Nat
      /\ \A a \in Accounts : raws[a] \in Nat /\ Base[a] \in Nat
  BY Typed, SupplyGrows DEF Inv
<1>2. TotalBase \in Nat /\ Denominator = NoiseUnit * TotalBase /\ Denominator \in Nat
  BY TotalBaseType, Rated DEF Inv, Later
<1>3. sumOthers = SumFunctionOnSet(raws, Accounts) /\ sumOthers \in Nat
  BY Typed DEF Inv, Sums, Later
<1>4. \A a \in Accounts : raws[a] * 1 <= Base[a] * Unit + 0
  <2>1. SUFFICES ASSUME NEW a \in Accounts PROVE raws[a] <= Base[a] * Unit
    <3>1. \A a \in Accounts : Base[a] * Unit \in Nat
      BY <1>1, UnitType
    <3> QED
      BY <1>1, <3>1, <2>1
  <2>2. a <= Passed("price")
    BY Typed DEF Inv, Passed, Valued
  <2>3. IF a = residual THEN raws[a] = 0 ELSE raws[a] = Base[a] * Unit
    BY <2>2 DEF Inv, Priced, Later
  <2>4. Base[a] * Unit \in Nat
    BY <1>1, UnitType
  <2> QED
    BY <1>1, <2>3, <2>4
<1>5. sumOthers * 1 <= TotalBase * Unit + 0 * Cardinality(Accounts)
  BY <1>1, <1>3, <1>4, UnitType, SumCompare DEF TotalBase
<1>6. sumOthers <= TotalBase * Unit
  <2>1. Cardinality(Accounts) \in Nat /\ TotalBase * Unit \in Nat
    BY <1>1, <1>2, FS_CardinalityType, UnitType
  <2> QED
    BY <1>3, <1>5, <2>1
<1>7. TotalBase * Unit = GenesisSupply * Denominator
  BY <1>1, <1>2, Associate DEF Unit
<1>8. GenesisSupply * Denominator <= supply * Denominator
  BY <1>1, <1>2, MulMono
<1>9. GenesisSupply * Denominator \in Nat /\ supply * Denominator \in Nat
  BY <1>1, <1>2
<1> HIDE DEF supply
<1>10. ~(sumOthers > supply * Denominator)
  BY <1>3, <1>6, <1>7, <1>8, <1>9
<1> QED
  BY <1>10 DEF MustScale, supply

LEMMA ReturnScaledKeeps == ASSUME Inv, ReturnScaled PROVE Inv'
<1>1. pc = "fallback" /\ out \in [Accounts -> Nat]
  BY DEF ReturnScaled, Inv, TypeOK
<1>2. Conserved(Snapshot(out, TRUE), height)
  <2>1. SumFunction(out) = SumFunctionOnSet(out, Accounts)
    BY <1>1 DEF SumFunction
  <2> QED
    BY <1>1, <2>1, ScaledSum DEF Conserved, Snapshot
<1>3. Bounded(Snapshot(out, TRUE), height)
  <2>1. SUFFICES ASSUME NEW a \in Accounts PROVE out[a] <= TotalSupplyAt(height)
    BY DEF Bounded, Snapshot
  <2>2. \A b \in Accounts : out[b] \in Nat
    BY <1>1
  <2>3. out[a] <= SumFunctionOnSet(out, Accounts)
    BY <2>2, Typed, SumAtLeast DEF Inv
  <2> QED
    BY <1>1, <2>2, <2>3, ScaledSum, Typed DEF Inv
<1>4. Quiet(Snapshot(out, TRUE))
  <2>1. MustScale
    BY <1>1 DEF Inv, Loops, Scaled
  <2> QED
    BY <1>1, <2>1, QuietIsPriced DEF Quiet, Snapshot, Valued
<1>5. Return(out, TRUE)
  BY DEF ReturnScaled
<1>6. /\ out' \in [Accounts -> Nat]
      /\ UNCHANGED <<n, i, residual, baseSum, raws, sumOthers, active, sum>>
  BY <1>1 DEF ReturnScaled
<1> QED
  BY <1>1, <1>2, <1>3, <1>4, <1>5, <1>6, ReturnKeeps

\* The heart of the matter: what is left for the residual is not negative.
LEMMA RestIsNatural ==
  ASSUME Inv, pc = "rest"
  PROVE  /\ sum = SumFunctionOnSet(out, Accounts)
         /\ sum \in Nat /\ sum <= TotalSupplyAt(height)
         /\ \A a \in Accounts : out[a] <= TotalSupplyAt(height)
<1> DEFINE supply == TotalSupplyAt(height)
<1>1. /\ supply \in Nat /\ sum \in Nat /\ sumOthers \in Nat /\ n \in Nat
      /\ IsFiniteSet(Accounts) /\ Cardinality(Accounts) = n /\ Accounts = 1 .. n
      /\ \A a \in Accounts : raws[a] \in Nat /\ out[a] \in Nat
  BY Typed DEF Inv
<1>2. Denominator \in Nat \ {0}
  BY Rated DEF Later, Valued
<1>3. sum = SumFunctionOnSet(out, Accounts)
  <2>1. Passed("sum") = n
    BY DEF Passed
  <2> QED
    BY <1>1, <2>1 DEF Inv, Sums
<1>4. sumOthers = SumFunctionOnSet(raws, Accounts)
  BY DEF Inv, Sums, Later, Valued
<1>5. \A a \in Accounts : out[a] * Denominator <= raws[a] * 1 + 0
  <2>1. SUFFICES ASSUME NEW a \in Accounts PROVE out[a] * Denominator <= raws[a]
    <3>1. \A a \in Accounts : out[a] * Denominator \in Nat
      BY <1>1, <1>2
    <3> QED
      BY <1>1, <2>1, <3>1
  <2>2. CASE out[a] = 0
    BY <1>1, <1>2, <2>2
  <2>3. CASE out[a] = raws[a] \div Denominator
    <3>1. raws[a] \in Nat
      BY <1>1
    <3>2. (raws[a] \div Denominator) * Denominator <= raws[a]
      BY <1>2, <3>1, DivBound
    <3> QED
      BY <2>3, <3>2
  <2>4. out[a] = 0 \/ out[a] = raws[a] \div Denominator
    BY DEF Inv, Rounded, Floored
  <2> QED
    BY <2>2, <2>3, <2>4
<1>6. sum * Denominator <= sumOthers * 1 + 0 * n
  <2>1. 0 \in Nat /\ 1 \in Nat /\ Denominator \in Nat
    BY <1>2
  <2> QED
    BY <1>1, <1>3, <1>4, <1>5, <2>1, SumCompare
<1> HIDE DEF supply
<1>7. sumOthers <= supply * Denominator
  <2>1. ~MustScale
    BY DEF Inv, Loops, Floored
  <2>2. supply * Denominator \in Nat
    BY <1>1, <1>2
  <2> QED
    BY <1>1, <2>1, <2>2 DEF MustScale, supply
<1>8. sum <= supply
  <2>1. supply * Denominator \in Nat /\ sum * Denominator \in Nat
    BY <1>1, <1>2
  <2>2. sum * Denominator <= supply * Denominator
    BY <1>1, <1>6, <1>7, <2>1
  <2> QED
    BY <1>1, <1>2, <2>2, MulCancel
<1>9. ASSUME NEW a \in Accounts PROVE out[a] <= supply
  <2>1. out[a] <= sum
    BY <1>1, <1>3, SumAtLeast
  <2> QED
    BY <1>1, <1>8, <2>1
<1> QED
  BY <1>1, <1>3, <1>8, <1>9 DEF supply

LEMMA ReturnRestKeeps == ASSUME Inv, ReturnRest PROVE Inv'
<1> DEFINE supply == TotalSupplyAt(height)
           balances == [out EXCEPT ![residual] = supply - sum]
<1>1. /\ pc = "rest" /\ out \in [Accounts -> Nat] /\ supply \in Nat /\ n \in Nat
      /\ IsFiniteSet(Accounts)
  BY Typed DEF ReturnRest, Inv, TypeOK
<1>2. /\ residual \in Accounts /\ n > 1 /\ Denominator = NoiseUnit * TotalBase
  BY <1>1, Rated DEF Later, Valued
<1>3. /\ sum = SumFunctionOnSet(out, Accounts) /\ sum \in Nat /\ sum <= supply
      /\ \A a \in Accounts : out[a] <= supply
  BY <1>1, RestIsNatural
<1>4. out' = balances
  BY <1>3 DEF ReturnRest
<1> HIDE DEF supply
<1>5. /\ balances \in [Accounts -> Nat] /\ balances[residual] = supply - sum
      /\ \A a \in Accounts \ {residual} : balances[a] = out[a]
      /\ \A a \in Accounts : balances[a] <= supply
  <2>1. supply - sum \in Nat /\ supply - sum <= supply
    BY <1>1, <1>3
  <2> QED
    BY <1>1, <1>2, <1>3, <2>1
<1> HIDE DEF balances
<1>6. \A a \in Accounts :
        out[a] = IF a # residual THEN raws[a] \div Denominator ELSE 0
  <2>1. Passed("floor") = n /\ \A a \in Accounts : a <= n
    BY <1>1, Typed DEF Passed, Inv
  <2> QED
    BY <1>1, <2>1 DEF Inv, Rounded, Floored
<1>7. SumFunction(balances) = supply
  <2>1. SumFunctionOnSet(balances, Accounts)
          = SumFunctionOnSet(out, Accounts) - out[residual] + balances[residual]
    <3>1. \A a \in Accounts : out[a] \in Int /\ balances[a] \in Int
      BY <1>1, <1>5
    <3> QED
      BY <1>1, <1>2, <1>5, <3>1, SumUpdate
  <2>2. DOMAIN balances = Accounts /\ out[residual] = 0
    BY <1>2, <1>5, <1>6
  <2>3. SumFunction(balances) = SumFunctionOnSet(balances, Accounts)
    BY <2>2 DEF SumFunction
  <2>4. SumFunction(balances) = sum - 0 + (supply - sum)
    BY <1>3, <1>5, <2>1, <2>2, <2>3
  <2> QED
    BY <1>1, <1>3, <2>4
<1>8. Quiet(Snapshot(balances, FALSE))
  <2>1. ASSUME NEW a \in Accounts \ {residual}, a \notin active
        PROVE  balances[a] = (Base[a] * Unit) \div (NoiseUnit * TotalBase)
    <3>1. raws[a] = Base[a] * Unit
      <4>1. Passed("price") = n /\ a <= n
        BY <1>1, Typed DEF Passed, Inv
      <4> QED
        BY <1>1, <2>1, <4>1 DEF Inv, Priced, Later, Valued
    <3> QED
      BY <1>2, <1>5, <1>6, <3>1
  <2> QED
    BY <2>1 DEF Quiet, Snapshot
<1>9. /\ Bounded(Snapshot(balances, FALSE), height)
      /\ Conserved(Snapshot(balances, FALSE), height)
  BY <1>5, <1>7 DEF Bounded, Conserved, Snapshot, supply
<1>10. /\ Return(balances, FALSE)
       /\ UNCHANGED <<n, i, residual, baseSum, raws, sumOthers, active, sum>>
  BY <1>4 DEF ReturnRest, Return
<1> QED
  BY <1>1, <1>4, <1>5, <1>8, <1>9, <1>10, ReturnKeeps

LEMMA InvNext == Inv /\ [Next]_vars => Inv'
<1> SUFFICES ASSUME Inv, [Next]_vars PROVE Inv'
  OBVIOUS
<1>1. CASE UNCHANGED vars
  <2>1. Returned'
    BY <1>1, ReturnedStays DEF vars, Inv
  <2>2. TypeOK'
    BY <1>1, SameAccounts DEF vars, Inv, TypeOK
  <2>3. Loops' /\ Sums' /\ Priced' /\ Rounded'
    BY <1>1, SameAccounts
       DEF vars, Inv, Loops, Sums, Priced, Rounded, Passed, MustScale, Denominator, TotalSupplyAt,
           Unit
  <2> QED
    BY <2>1, <2>2, <2>3 DEF Inv
<1> QED
  BY <1>1, CallKeeps, CallForOneKeeps, PickResidualKeeps, SumBaseKeeps, PriceInactiveKeeps,
     PriceActiveKeeps, SkipResidualKeeps, CompareKeeps, ScaleKeeps, ReturnScaledKeeps,
     FloorKeeps, SumKeeps, ReturnRestKeeps
     DEF Next

-----------------------------------------------------------------------------
(* The invariant holds at every step of every snapshot. *)
THEOREM Invariance == Spec => []Inv
  BY InvInit, InvNext, PTL DEF Spec

(* All balances, the residual's among them, are natural numbers: the        *)
(* unsigned computation of SnapshotBalancesAt is exact.                     *)
THEOREM TypeCorrect == Spec => []TypeOK
<1>1. Inv => TypeOK
  BY DEF Inv
<1> QED
  BY <1>1, Invariance, PTL

(* No balance exceeds the supply of its height, whatever the noise: the     *)
(* fallback is taken whenever the subtraction would wrap around.            *)
THEOREM ResidualNeverWraps == Spec => []NoBalanceAboveSupply
<1>1. Inv => NoBalanceAboveSupply
  BY DEF Inv, Returned, Bounded, NoBalanceAboveSupply
<1> QED
  BY <1>1, Invariance, PTL

(* The balances of a height add up to its supply; after the fallback less   *)
(* than one unit per priced account is missing.                             *)
THEOREM SupplyIsConserved == Spec => []Conservation
<1>1. Inv => Conservation
  BY DEF Inv, Returned, Conserved, Conservation
<1> QED
  BY <1>1, Invariance, PTL

(* Growth of the supply alone never takes a height into the fallback.       *)
THEOREM GrowthNeverScales == Spec => []QuietHeightsArePriced
<1>1. Inv => QuietHeightsArePriced
  BY DEF Inv, Returned, Quiet, QuietHeightsArePriced
<1> QED
  BY <1>1, Invariance, PTL

(* The rate does not depend on the height: an account that is active at     *)
(* neither of two priced heights has the same balance at both.              *)
THEOREM InactiveAccountsKeepBalances == Spec => []InactiveAccountsUnmoved
<1>1. ASSUME Inv PROVE InactiveAccountsUnmoved
  <2>1. SUFFICES ASSUME n > 1, NEW h \in DOMAIN snapshots, NEW k \in DOMAIN snapshots,
                        NEW a \in Accounts,
                        a \notin snapshots[h].active \cup snapshots[k].active,
                        a # snapshots[h].residual, a # snapshots[k].residual,
                        ~snapshots[h].fallback, ~snapshots[k].fallback
                 PROVE  snapshots[h].balances[a] = snapshots[k].balances[a]
    BY DEF InactiveAccountsUnmoved
  <2> DEFINE worth == (Base[a] * Unit) \div (NoiseUnit * TotalBase)
  <2>2. snapshots[h].balances[a] = worth /\ snapshots[k].balances[a] = worth
    <3> HIDE DEF worth
    <3> QED
      BY <1>1, <2>1 DEF Inv, Returned, Quiet, worth
  <2> QED
    BY <2>2
<1> QED
  BY <1>1, Invariance, PTL
=============================================================================
