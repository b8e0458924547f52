--------------------------- MODULE MockStateProof ---------------------------
(***************************************************************************)
(* Proofs about MockState for all pools, prices, batches and bounds.       *)
(*                                                                         *)
(* A batch is a fold over its operations.  What is shown of a fold is      *)
(* shown of its history, the values it goes through one operation at a     *)
(* time; each fold of the model has a lemma that gives it one.             *)
(***************************************************************************)
EXTENDS MockState, FoldLemmas, SequenceTheorems

PoolType == [amount : Nat, points : Seq(Entries), total : Nat]

-----------------------------------------------------------------------------
(* The folds of the model, and what each goes through from its base. *)

TotalOf(points) == FoldLeft(LAMBDA sum, entry : sum + entry.points, 0, points)

OrdersFold(base, orders) == FoldLeft(LAMBDA p, amount : Credit(p, "holding", amount), base, orders)

DepositsFold(base, deposits) == FoldLeft(Deposit, base, deposits)

WithdrawFold(pool, base, withdrawals) ==
  FoldLeft(LAMBDA state, withdrawal : Withdraw(pool, state, withdrawal), base, withdrawals)

BurnOne(outcomes, result) ==
  IF result.pointsBurned = 0 THEN outcomes
  ELSE UNION {RemovePoints(p, result.address, result.pointsBurned) : p \in outcomes}

\* The points of a pool's list, added up.
TotalRun(acc, points, n) ==
  /\ acc[0] = 0 /\ acc[n] = TotalOf(points)
  /\ \A k \in 1 .. n : acc[k] = acc[k - 1] + points[k].points

LEMMA TotalHistory ==
  ASSUME NEW n \in Nat, NEW points, DOMAIN points = 1 .. n,
         \A i \in 1 .. n : points[i].points \in Nat
  PROVE  \E acc \in [0 .. n -> Nat] : TotalRun(acc, points, n)
<1> DEFINE step == [i \in 1 .. n |-> [v \in Nat |-> v + points[i].points]]
           Meets(g) ==
             g = [s \in SUBSET DOMAIN points |->
                    IF s = {} THEN 0 ELSE g[s \ {Greatest(s)}] + points[Greatest(s)].points]
           chosen == CHOOSE g : Meets(g)
<1>1. step \in [1 .. n -> [Nat -> Nat]] /\ 0 \in Nat
  OBVIOUS
<1>2. \A i \in 1 .. n : \A v \in Nat : step[i][v] = v + points[i].points
  OBVIOUS
<1>3. TotalOf(points) = chosen[1 .. n]
  BY DEF TotalOf, FoldLeft, MapThenFoldSet, Greatest, Max
<1> HIDE DEF step, chosen
<1>4. \A s \in SUBSET (1 .. n) : s # {} => Greatest(s) \in 1 .. n
  BY GreatestOf
<1>5. PICK fold \in [SUBSET (1 .. n) -> Nat] : IsLeftFold(fold, 0, step, n)
  BY <1>1, LeftFoldExists
<1>6. Meets(fold)
  <2>1. \A s \in SUBSET (1 .. n) : s # {} =>
          step[Greatest(s)][fold[s \ {Greatest(s)}]]
            = fold[s \ {Greatest(s)}] + points[Greatest(s)].points
    BY <1>2, <1>4
  <2> QED
    BY <1>5, <2>1 DEF IsLeftFold
<1>7. Meets(chosen)
  <2> HIDE DEF Meets
  <2> QED
    BY <1>6, Zenon DEF chosen
<1>8. MeetsLeftFold(chosen, 0, step, Nat, n)
  <2>1. chosen[{}] = 0
    BY <1>7
  <2>2. ASSUME NEW s \in SUBSET (1 .. n), s # {}, chosen[s \ {Greatest(s)}] \in Nat
        PROVE  chosen[s] = step[Greatest(s)][chosen[s \ {Greatest(s)}]]
    <3>1. chosen[s] = chosen[s \ {Greatest(s)}] + points[Greatest(s)].points
      BY <1>7, <2>2
    <3> QED
      BY <1>2, <1>4, <2>2, <3>1
  <2> QED
    BY <2>1, <2>2 DEF MeetsLeftFold
<1>9. PICK acc \in [0 .. n -> Nat] : IsHistory(acc, 0, chosen[1 .. n], step, n)
  BY <1>1, <1>8, LeftFoldHistory
<1>10. ASSUME NEW k \in 1 .. n PROVE acc[k] = acc[k - 1] + points[k].points
  <2>1. acc[k - 1] \in Nat
    OBVIOUS
  <2> QED
    BY <1>2, <1>9, <2>1 DEF IsHistory
<1> QED
  BY <1>3, <1>9, <1>10 DEF IsHistory, TotalRun

\* The payments of a batch, added up.
PaidRun(acc, paid, n) ==
  /\ acc[0] = 0 /\ acc[n] = Paid(paid)
  /\ \A k \in 1 .. n : acc[k] = acc[k - 1] + paid[k].localAmount

LEMMA PaidHistory ==
  ASSUME NEW n \in Nat, NEW paid, DOMAIN paid = 1 .. n,
         \A i \in 1 .. n : paid[i].localAmount \in Nat
  PROVE  \E acc \in [0 .. n -> Nat] : PaidRun(acc, paid, n)
<1> DEFINE step == [i \in 1 .. n |-> [v \in Nat |-> v + paid[i].localAmount]]
           Meets(g) ==
             g = [s \in SUBSET DOMAIN paid |->
                    IF s = {} THEN 0 ELSE g[s \ {Greatest(s)}] + paid[Greatest(s)].localAmount]
           chosen == CHOOSE g : Meets(g)
<1>1. step \in [1 .. n -> [Nat -> Nat]] /\ 0 \in Nat
  OBVIOUS
<1>2. \A i \in 1 .. n : \A v \in Nat : step[i][v] = v + paid[i].localAmount
  OBVIOUS
<1>3. Paid(paid) = chosen[1 .. n]
  BY DEF Paid, FoldLeft, MapThenFoldSet, Greatest, Max
<1> HIDE DEF step, chosen
<1>4. \A s \in SUBSET (1 .. n) : s # {} => Greatest(s) \in 1 .. n
  BY GreatestOf
<1>5. PICK fold \in [SUBSET (1 .. n) -> Nat] : IsLeftFold(fold, 0, step, n)
  BY <1>1, LeftFoldExists
<1>6. Meets(fold)
  <2>1. \A s \in SUBSET (1 .. n) : s # {} =>
          step[Greatest(s)][fold[s \ {Greatest(s)}]]
            = fold[s \ {Greatest(s)}] + paid[Greatest(s)].localAmount
    BY <1>2, <1>4
  <2> QED
    BY <1>5, <2>1 DEF IsLeftFold
<1>7. Meets(chosen)
  <2> HIDE DEF Meets
  <2> QED
    BY <1>6, Zenon DEF chosen
<1>8. MeetsLeftFold(chosen, 0, step, Nat, n)
  <2>1. chosen[{}] = 0
    BY <1>7
  <2>2. ASSUME NEW s \in SUBSET (1 .. n), s # {}, chosen[s \ {Greatest(s)}] \in Nat
        PROVE  chosen[s] = step[Greatest(s)][chosen[s \ {Greatest(s)}]]
    <3>1. chosen[s] = chosen[s \ {Greatest(s)}] + paid[Greatest(s)].localAmount
      BY <1>7, <2>2
    <3> QED
      BY <1>2, <1>4, <2>2, <3>1
  <2> QED
    BY <2>1, <2>2 DEF MeetsLeftFold
<1>9. PICK acc \in [0 .. n -> Nat] : IsHistory(acc, 0, chosen[1 .. n], step, n)
  BY <1>1, <1>8, LeftFoldHistory
<1>10. ASSUME NEW k \in 1 .. n PROVE acc[k] = acc[k - 1] + paid[k].localAmount
  <2>1. acc[k - 1] \in Nat
    OBVIOUS
  <2> QED
    BY <1>2, <1>9, <2>1 DEF IsHistory
<1> QED
  BY <1>3, <1>9, <1>10 DEF IsHistory, PaidRun

\* A batch of orders.
OrdersRun(acc, base, orders, n) ==
  /\ acc[0] = base /\ acc[n] = OrdersFold(base, orders)
  /\ \A k \in 1 .. n : acc[k] = Credit(acc[k - 1], "holding", orders[k])

LEMMA OrdersHistory ==
  ASSUME NEW n \in Nat, NEW orders, DOMAIN orders = 1 .. n, NEW V, NEW base \in V,
         \A i \in 1 .. n : \A v \in V : Credit(v, "holding", orders[i]) \in V
  PROVE  \E acc \in [0 .. n -> V] : OrdersRun(acc, base, orders, n)
<1> DEFINE step == [i \in 1 .. n |-> [v \in V |-> Credit(v, "holding", orders[i])]]
           Meets(g) ==
             g = [s \in SUBSET DOMAIN orders |->
                    IF s = {} THEN base ELSE Credit(g[s \ {Greatest(s)}], "holding", orders[Greatest(s)])]
           chosen == CHOOSE g : Meets(g)
<1>1. step \in [1 .. n -> [V -> V]] /\ base \in V
  OBVIOUS
<1>2. \A i \in 1 .. n : \A v \in V : step[i][v] = Credit(v, "holding", orders[i])
  OBVIOUS
<1>3. OrdersFold(base, orders) = chosen[1 .. n]
  BY DEF OrdersFold, FoldLeft, MapThenFoldSet, Greatest, Max
<1> HIDE DEF step, chosen
<1>4. \A s \in SUBSET (1 .. n) : s # {} => Greatest(s) \in 1 .. n
  BY GreatestOf
<1>5. PICK fold \in [SUBSET (1 .. n) -> V] : IsLeftFold(fold, base, step, n)
  BY <1>1, LeftFoldExists
<1>6. Meets(fold)
  <2>1. \A s \in SUBSET (1 .. n) : s # {} =>
          step[Greatest(s)][fold[s \ {Greatest(s)}]]
            = Credit(fold[s \ {Greatest(s)}], "holding", orders[Greatest(s)])
    BY <1>2, <1>4
  <2> QED
    BY <1>5, <2>1 DEF IsLeftFold
<1>7. Meets(chosen)
  <2> HIDE DEF Meets
  <2> QED
    BY <1>6, Zenon DEF chosen
<1>8. MeetsLeftFold(chosen, base, step, V, n)
  <2>1. chosen[{}] = base
    BY <1>7
  <2>2. ASSUME NEW s \in SUBSET (1 .. n), s # {}, chosen[s \ {Greatest(s)}] \in V
        PROVE  chosen[s] = step[Greatest(s)][chosen[s \ {Greatest(s)}]]
    <3>1. chosen[s] = Credit(chosen[s \ {Greatest(s)}], "holding", orders[Greatest(s)])
      BY <1>7, <2>2
    <3> QED
      BY <1>2, <1>4, <2>2, <3>1
  <2> QED
    BY <2>1, <2>2 DEF MeetsLeftFold
<1>9. PICK acc \in [0 .. n -> V] : IsHistory(acc, base, chosen[1 .. n], step, n)
  BY <1>1, <1>8, LeftFoldHistory
<1>10. ASSUME NEW k \in 1 .. n PROVE acc[k] = Credit(acc[k - 1], "holding", orders[k])
  <2>1. acc[k - 1] \in V
    OBVIOUS
  <2> QED
    BY <1>2, <1>9, <2>1 DEF IsHistory
<1> QED
  BY <1>3, <1>9, <1>10 DEF IsHistory, OrdersRun

\* A batch of deposits.
DepositsRun(acc, base, deposits, n) ==
  /\ acc[0] = base /\ acc[n] = DepositsFold(base, deposits)
  /\ \A k \in 1 .. n : acc[k] = Deposit(acc[k - 1], deposits[k])

LEMMA DepositsHistory ==
  ASSUME NEW n \in Nat, NEW deposits, DOMAIN deposits = 1 .. n, NEW V, NEW base \in V,
         \A i \in 1 .. n : \A v \in V : Deposit(v, deposits[i]) \in V
  PROVE  \E acc \in [0 .. n -> V] : DepositsRun(acc, base, deposits, n)
<1> DEFINE step == [i \in 1 .. n |-> [v \in V |-> Deposit(v, deposits[i])]]
           Meets(g) ==
             g = [s \in SUBSET DOMAIN deposits |->
                    IF s = {} THEN base ELSE Deposit(g[s \ {Greatest(s)}], deposits[Greatest(s)])]
           chosen == CHOOSE g : Meets(g)
<1>1. step \in [1 .. n -> [V -> V]] /\ base \in V
  OBVIOUS
<1>2. \A i \in 1 .. n : \A v \in V : step[i][v] = Deposit(v, deposits[i])
  OBVIOUS
<1>3. DepositsFold(base, deposits) = chosen[1 .. n]
  BY DEF DepositsFold, FoldLeft, MapThenFoldSet, Greatest, Max
<1> HIDE DEF step, chosen
<1>4. \A s \in SUBSET (1 .. n) : s # {} => Greatest(s) \in 1 .. n
  BY GreatestOf
<1>5. PICK fold \in [SUBSET (1 .. n) -> V] : IsLeftFold(fold, base, step, n)
  BY <1>1, LeftFoldExists
<1>6. Meets(fold)
  <2>1. \A s \in SUBSET (1 .. n) : s # {} =>
          step[Greatest(s)][fold[s \ {Greatest(s)}]]
            = Deposit(fold[s \ {Greatest(s)}], deposits[Greatest(s)])
    BY <1>2, <1>4
  <2> QED
    BY <1>5, <2>1 DEF IsLeftFold
<1>7. Meets(chosen)
  <2> HIDE DEF Meets
  <2> QED
    BY <1>6, Zenon DEF chosen
<1>8. MeetsLeftFold(chosen, base, step, V, n)
  <2>1. chosen[{}] = base
    BY <1>7
  <2>2. ASSUME NEW s \in SUBSET (1 .. n), s # {}, chosen[s \ {Greatest(s)}] \in V
        PROVE  chosen[s] = step[Greatest(s)][chosen[s \ {Greatest(s)}]]
    <3>1. chosen[s] = Deposit(chosen[s \ {Greatest(s)}], deposits[Greatest(s)])
      BY <1>7, <2>2
    <3> QED
      BY <1>2, <1>4, <2>2, <3>1
  <2> QED
    BY <2>1, <2>2 DEF MeetsLeftFold
<1>9. PICK acc \in [0 .. n -> V] : IsHistory(acc, base, chosen[1 .. n], step, n)
  BY <1>1, <1>8, LeftFoldHistory
<1>10. ASSUME NEW k \in 1 .. n PROVE acc[k] = Deposit(acc[k - 1], deposits[k])
  <2>1. acc[k - 1] \in V
    OBVIOUS
  <2> QED
    BY <1>2, <1>9, <2>1 DEF IsHistory
<1> QED
  BY <1>3, <1>9, <1>10 DEF IsHistory, DepositsRun

\* A batch of withdrawals.
WithdrawRun(acc, pool, base, withdrawals, n) ==
  /\ acc[0] = base /\ acc[n] = WithdrawFold(pool, base, withdrawals)
  /\ \A k \in 1 .. n : acc[k] = Withdraw(pool, acc[k - 1], withdrawals[k])

LEMMA WithdrawHistory ==
  ASSUME NEW n \in Nat, NEW withdrawals, DOMAIN withdrawals = 1 .. n, NEW pool, NEW V, NEW base \in V,
         \A i \in 1 .. n : \A v \in V : Withdraw(pool, v, withdrawals[i]) \in V
  PROVE  \E acc \in [0 .. n -> V] : WithdrawRun(acc, pool, base, withdrawals, n)
<1> DEFINE step == [i \in 1 .. n |-> [v \in V |-> Withdraw(pool, v, withdrawals[i])]]
           Meets(g) ==
             g = [s \in SUBSET DOMAIN withdrawals |->
                    IF s = {} THEN base ELSE Withdraw(pool, g[s \ {Greatest(s)}], withdrawals[Greatest(s)])]
           chosen == CHOOSE g : Meets(g)
<1>1. step \in [1 .. n -> [V -> V]] /\ base \in V
  OBVIOUS
<1>2. \A i \in 1 .. n : \A v \in V : step[i][v] = Withdraw(pool, v, withdrawals[i])
  OBVIOUS
<1>3. WithdrawFold(pool, base, withdrawals) = chosen[1 .. n]
  BY DEF WithdrawFold, FoldLeft, MapThenFoldSet, Greatest, Max
<1> HIDE DEF step, chosen
<1>4. \A s \in SUBSET (1 .. n) : s # {} => Greatest(s) \in 1 .. n
  BY GreatestOf
<1>5. PICK fold \in [SUBSET (1 .. n) -> V] : IsLeftFold(fold, base, step, n)
  BY <1>1, LeftFoldExists
<1>6. Meets(fold)
  <2>1. \A s \in SUBSET (1 .. n) : s # {} =>
          step[Greatest(s)][fold[s \ {Greatest(s)}]]
            = Withdraw(pool, fold[s \ {Greatest(s)}], withdrawals[Greatest(s)])
    BY <1>2, <1>4
  <2> QED
    BY <1>5, <2>1 DEF IsLeftFold
<1>7. Meets(chosen)
  <2> HIDE DEF Meets
  <2> QED
    BY <1>6, Zenon DEF chosen
<1>8. MeetsLeftFold(chosen, base, step, V, n)
  <2>1. chosen[{}] = base
    BY <1>7
  <2>2. ASSUME NEW s \in SUBSET (1 .. n), s # {}, chosen[s \ {Greatest(s)}] \in V
        PROVE  chosen[s] = step[Greatest(s)][chosen[s \ {Greatest(s)}]]
    <3>1. chosen[s] = Withdraw(pool, chosen[s \ {Greatest(s)}], withdrawals[Greatest(s)])
      BY <1>7, <2>2
    <3> QED
      BY <1>2, <1>4, <2>2, <3>1
  <2> QED
    BY <2>1, <2>2 DEF MeetsLeftFold
<1>9. PICK acc \in [0 .. n -> V] : IsHistory(acc, base, chosen[1 .. n], step, n)
  BY <1>1, <1>8, LeftFoldHistory
<1>10. ASSUME NEW k \in 1 .. n PROVE acc[k] = Withdraw(pool, acc[k - 1], withdrawals[k])
  <2>1. acc[k - 1] \in V
    OBVIOUS
  <2> QED
    BY <1>2, <1>9, <2>1 DEF IsHistory
<1> QED
  BY <1>3, <1>9, <1>10 DEF IsHistory, WithdrawRun

\* The removal of what a batch burns.
BurnRun(acc, pool, paid, n) ==
  /\ acc[0] = {pool} /\ acc[n] = BurnAll(pool, paid)
  /\ \A k \in 1 .. n : acc[k] = BurnOne(acc[k - 1], paid[k])

LEMMA BurnHistory ==
  ASSUME NEW n \in Nat, NEW paid, DOMAIN paid = 1 .. n, NEW V, NEW pool, {pool} \in V,
         \A i \in 1 .. n : \A v \in V : BurnOne(v, paid[i]) \in V
  PROVE  \E acc \in [0 .. n -> V] : BurnRun(acc, pool, paid, n)
<1> DEFINE step == [i \in 1 .. n |-> [v \in V |-> BurnOne(v, paid[i])]]
           Meets(g) ==
             g = [s \in SUBSET DOMAIN paid |->
                    IF s = {} THEN {pool} ELSE BurnOne(g[s \ {Greatest(s)}], paid[Greatest(s)])]
           chosen == CHOOSE g : Meets(g)
<1>1. step \in [1 .. n -> [V -> V]] /\ {pool} \in V
  OBVIOUS
<1>2. \A i \in 1 .. n : \A v \in V : step[i][v] = BurnOne(v, paid[i])
  OBVIOUS
<1>3. BurnAll(pool, paid) = chosen[1 .. n]
  BY DEF BurnAll, BurnOne, FoldLeft, MapThenFoldSet, Greatest, Max
<1> HIDE DEF step, chosen
<1>4. \A s \in SUBSET (1 .. n) : s # {} => Greatest(s) \in 1 .. n
  BY GreatestOf
<1>5. PICK fold \in [SUBSET (1 .. n) -> V] : IsLeftFold(fold, {pool}, step, n)
  BY <1>1, LeftFoldExists
<1>6. Meets(fold)
  <2>1. \A s \in SUBSET (1 .. n) : s # {} =>
          step[Greatest(s)][fold[s \ {Greatest(s)}]]
            = BurnOne(fold[s \ {Greatest(s)}], paid[Greatest(s)])
    BY <1>2, <1>4
  <2> QED
    BY <1>5, <2>1 DEF IsLeftFold
<1>7. Meets(chosen)
  <2> HIDE DEF Meets
  <2> QED
    BY <1>6, Zenon DEF chosen
<1>8. MeetsLeftFold(chosen, {pool}, step, V, n)
  <2>1. chosen[{}] = {pool}
    BY <1>7
  <2>2. ASSUME NEW s \in SUBSET (1 .. n), s # {}, chosen[s \ {Greatest(s)}] \in V
        PROVE  chosen[s] = step[Greatest(s)][chosen[s \ {Greatest(s)}]]
    <3>1. chosen[s] = BurnOne(chosen[s \ {Greatest(s)}], paid[Greatest(s)])
      BY <1>7, <2>2
    <3> QED
      BY <1>2, <1>4, <2>2, <3>1
  <2> QED
    BY <2>1, <2>2 DEF MeetsLeftFold
<1>9. PICK acc \in [0 .. n -> V] : IsHistory(acc, {pool}, chosen[1 .. n], step, n)
  BY <1>1, <1>8, LeftFoldHistory
<1>10. ASSUME NEW k \in 1 .. n PROVE acc[k] = BurnOne(acc[k - 1], paid[k])
  <2>1. acc[k - 1] \in V
    OBVIOUS
  <2> QED
    BY <1>2, <1>9, <2>1 DEF IsHistory
<1> QED
  BY <1>3, <1>9, <1>10 DEF IsHistory, BurnRun

-----------------------------------------------------------------------------
(* The points of a list, as a sum over its indexes. *)

PointsOf(points) == [i \in DOMAIN points |-> points[i].points]

LEMMA EntriesFacts ==
  ASSUME NEW points \in Seq(Entries)
  PROVE  /\ Len(points) \in Nat /\ DOMAIN points = 1 .. Len(points)
         /\ \A i \in 1 .. Len(points) :
              /\ points[i] \in Entries /\ points[i].points \in Nat
              /\ PointsOf(points)[i] = points[i].points
<1>1. Len(points) \in Nat /\ DOMAIN points = 1 .. Len(points)
  BY LenProperties
<1>2. \A i \in 1 .. Len(points) : points[i] \in Entries
  BY ElementOfSeq
<1>3. \A i \in 1 .. Len(points) : PointsOf(points)[i] = points[i].points
  BY <1>1 DEF PointsOf
<1> QED
  BY <1>1, <1>2, <1>3 DEF Entries

LEMMA TotalIsSum ==
  ASSUME NEW points \in Seq(Entries)
  PROVE  /\ TotalOf(points) \in Nat
         /\ TotalOf(points) = SumFunctionOnSet(PointsOf(points), 1 .. Len(points))
<1> DEFINE n == Len(points)
           f == PointsOf(points)
<1>1. n \in Nat /\ DOMAIN points = 1 .. n
  BY EntriesFacts
<1>2. \A i \in 1 .. n : points[i].points \in Nat /\ f[i] = points[i].points
  BY EntriesFacts
<1> HIDE DEF n, f
<1>3. PICK acc \in [0 .. n -> Nat] : TotalRun(acc, points, n)
  BY <1>1, <1>2, TotalHistory
<1>4. acc[0] = 0 /\ \A k \in 1 .. n : f[k] \in Nat /\ acc[k] = acc[k - 1] + f[k]
  BY <1>2, <1>3 DEF TotalRun
<1>5. acc[n] = SumFunctionOnSet(f, 1 .. n)
  BY <1>1, <1>4, RunningSum
<1>6. acc[n] \in Nat
  BY <1>1
<1> QED
  BY <1>3, <1>5, <1>6 DEF TotalRun, n, f

LEMMA TotalAppend ==
  ASSUME NEW points \in Seq(Entries), NEW entry \in Entries
  PROVE  /\ Append(points, entry) \in Seq(Entries)
         /\ TotalOf(Append(points, entry)) = TotalOf(points) + entry.points
<1> DEFINE n == Len(points)
           longer == Append(points, entry)
           f == PointsOf(points)
           g == PointsOf(longer)
<1>1. n \in Nat /\ longer \in Seq(Entries) /\ Len(longer) = n + 1 /\ longer[n + 1] = entry
  BY AppendProperties, LenProperties
<1>2. \A i \in 1 .. n : longer[i] = points[i]
  BY AppendProperties
<1>3. /\ \A i \in 1 .. n : f[i] = points[i].points /\ points[i].points \in Nat
      /\ \A i \in 1 .. n + 1 : g[i] = longer[i].points /\ longer[i].points \in Nat
  <2> HIDE DEF longer
  <2> QED
    BY <1>1, EntriesFacts
<1>4. /\ TotalOf(points) = SumFunctionOnSet(f, 1 .. n)
      /\ TotalOf(longer) = SumFunctionOnSet(g, 1 .. n + 1)
  <2> HIDE DEF longer
  <2> QED
    BY <1>1, TotalIsSum
<1> HIDE DEF n, longer, f, g
<1>5. \A i \in 1 .. n + 1 : g[i] \in Int
  BY <1>3
<1>6. \A i \in 1 .. n : g[i] = f[i]
  BY <1>1, <1>2, <1>3
<1>7. SumFunctionOnSet(g, 1 .. n + 1) = SumFunctionOnSet(f, 1 .. n) + g[n + 1]
  BY <1>1, <1>5, <1>6, SumExtend
<1>8. g[n + 1] = entry.points
  BY <1>1, <1>3
<1> QED
  BY <1>1, <1>4, <1>7, <1>8 DEF longer

LEMMA TotalAtLeast ==
  ASSUME NEW points \in Seq(Entries), NEW j \in 1 .. Len(points)
  PROVE  points[j].points <= TotalOf(points)
<1>1. IsFiniteSet(1 .. Len(points))
  BY EntriesFacts, FS_Interval
<1>2. \A i \in 1 .. Len(points) : PointsOf(points)[i] \in Nat
  BY EntriesFacts
<1>3. PointsOf(points)[j] <= SumFunctionOnSet(PointsOf(points), 1 .. Len(points))
  BY <1>1, <1>2, SumAtLeast
<1> QED
  BY <1>3, EntriesFacts, TotalIsSum

LEMMA TotalExcept ==
  ASSUME NEW points \in Seq(Entries), NEW j \in 1 .. Len(points), NEW left \in Nat
  PROVE  /\ [points EXCEPT ![j].points = left] \in Seq(Entries)
         /\ Len([points EXCEPT ![j].points = left]) = Len(points)
         /\ TotalOf([points EXCEPT ![j].points = left]) = TotalOf(points) - points[j].points + left
<1> DEFINE n == Len(points)
           entry == [points[j] EXCEPT !.points = left]
           other == [points EXCEPT ![j] = entry]
           f == PointsOf(points)
           g == PointsOf(other)
<1>1. entry \in Entries /\ entry.points = left
  BY EntriesFacts DEF Entries
<1>2. [points EXCEPT ![j].points = left] = other
  OBVIOUS
<1>3. /\ other \in Seq(Entries) /\ Len(other) = n
      /\ \A i \in 1 .. n : other[i] = IF i = j THEN entry ELSE points[i]
  <2> HIDE DEF entry
  <2> QED
    BY <1>1, ExceptSeq
<1>4. /\ \A i \in 1 .. n : f[i] = points[i].points /\ points[i].points \in Nat
      /\ \A i \in 1 .. n : g[i] = other[i].points /\ other[i].points \in Nat
  <2> HIDE DEF other
  <2> QED
    BY <1>3, EntriesFacts
<1>5. /\ TotalOf(points) = SumFunctionOnSet(f, 1 .. n)
      /\ TotalOf(other) = SumFunctionOnSet(g, 1 .. n)
  <2> HIDE DEF other
  <2> QED
    BY <1>3, TotalIsSum
<1>6. IsFiniteSet(1 .. n)
  BY EntriesFacts, FS_Interval
<1> HIDE DEF n, entry, other, f, g
<1>7. j \in 1 .. n
  BY DEF n
<1>8. g[j] = left /\ f[j] = points[j].points
  BY <1>1, <1>3, <1>4, <1>7
<1>9. \A i \in (1 .. n) \ {j} : g[i] = f[i]
  BY <1>3, <1>4
<1>10. \A i \in 1 .. n : f[i] \in Int /\ g[i] \in Int
  BY <1>4
<1>11. SumFunctionOnSet(g, 1 .. n) = SumFunctionOnSet(f, 1 .. n) - f[j] + g[j]
  <2> DEFINE indexes == 1 .. n
  <2>1. IsFiniteSet(indexes) /\ \A i \in indexes : f[i] \in Int /\ g[i] \in Int
    BY <1>6, <1>10
  <2>2. j \in indexes /\ \A i \in indexes \ {j} : g[i] = f[i]
    BY <1>7, <1>9
  <2> HIDE DEF indexes
  <2>3. ASSUME NEW x \in indexes, \A i \in indexes \ {x} : g[i] = f[i]
        PROVE  SumFunctionOnSet(g, indexes) = SumFunctionOnSet(f, indexes) - f[x] + g[x]
    BY <2>1, <2>3, SumUpdate
  <2> QED
    BY <2>2, <2>3 DEF indexes
<1> QED
  BY <1>2, <1>3, <1>5, <1>8, <1>11 DEF n

LEMMA RemoveAtFacts ==
  ASSUME NEW S, NEW seq \in Seq(S), NEW j \in 1 .. Len(seq)
  PROVE  /\ RemoveAt(seq, j) \in Seq(S) /\ Len(RemoveAt(seq, j)) = Len(seq) - 1
         /\ \A i \in 1 .. Len(seq) - 1 :
              RemoveAt(seq, j)[i] = IF i < j THEN seq[i] ELSE seq[i + 1]
<1> DEFINE n == Len(seq)
           front == SubSeq(seq, 1, j - 1)
           back == SubSeq(seq, j + 1, n)
<1>1. n \in Nat /\ \A i \in 1 .. n : seq[i] \in S
  BY LenProperties
<1>2. /\ front \in Seq(S) /\ Len(front) = j - 1
      /\ \A i \in 1 .. j - 1 : front[i] = seq[i]
  <2>1. \A i \in 1 .. j - 1 : seq[i] \in S
    BY <1>1
  <2>2. 1 \in Int /\ j - 1 \in Int
    OBVIOUS
  <2>3. /\ front \in Seq(S) /\ Len(front) = IF 1 <= j - 1 THEN (j - 1) - 1 + 1 ELSE 0
        /\ \A i \in 1 .. (j - 1) - 1 + 1 : front[i] = seq[1 + i - 1]
    BY <2>1, <2>2, SubSeqProperties
  <2> QED
    BY <2>3
<1>3. /\ back \in Seq(S) /\ Len(back) = n - j
      /\ \A i \in 1 .. n - j : back[i] = seq[j + i]
  <2>1. \A i \in j + 1 .. n : seq[i] \in S
    BY <1>1
  <2>2. j + 1 \in Int /\ n \in Int
    BY <1>1
  <2>3. /\ back \in Seq(S) /\ Len(back) = IF j + 1 <= n THEN n - (j + 1) + 1 ELSE 0
        /\ \A i \in 1 .. n - (j + 1) + 1 : back[i] = seq[j + 1 + i - 1]
    BY <2>1, <2>2, SubSeqProperties
  <2> QED
    BY <1>1, <2>3
<1>4. /\ front \o back \in Seq(S) /\ Len(front \o back) = Len(front) + Len(back)
      /\ \A i \in 1 .. Len(front) + Len(back) :
           (front \o back)[i] = IF i <= Len(front) THEN front[i] ELSE back[i - Len(front)]
  BY <1>2, <1>3, ConcatProperties
<1>5. RemoveAt(seq, j) = front \o back
  BY DEF RemoveAt
<1> HIDE DEF n, front, back
<1>6. j \in 1 .. n
  BY DEF n
<1>7. ASSUME NEW i \in 1 .. n - 1
      PROVE  RemoveAt(seq, j)[i] = IF i < j THEN seq[i] ELSE seq[i + 1]
  <2>1. CASE i < j
    BY <1>1, <1>2, <1>3, <1>4, <1>5, <1>6, <2>1
  <2>2. CASE ~(i < j)
    <3>1. i - (j - 1) \in 1 .. n - j /\ ~(i <= j - 1) /\ j + (i - (j - 1)) = i + 1
      BY <1>1, <1>6, <2>2
    <3> QED
      BY <1>1, <1>2, <1>3, <1>4, <1>5, <1>6, <2>2, <3>1
  <2> QED
    BY <2>1, <2>2
<1>8. RemoveAt(seq, j) \in Seq(S) /\ Len(RemoveAt(seq, j)) = n - 1
  BY <1>1, <1>2, <1>3, <1>4, <1>5, <1>6
<1> QED
  BY <1>7, <1>8 DEF n

LEMMA TotalRemoveAt ==
  ASSUME NEW points \in Seq(Entries), NEW j \in 1 .. Len(points)
  PROVE  /\ RemoveAt(points, j) \in Seq(Entries)
         /\ TotalOf(RemoveAt(points, j)) = TotalOf(points) - points[j].points
<1> DEFINE n == Len(points)
           shorter == RemoveAt(points, j)
           f == PointsOf(points)
           g == PointsOf(shorter)
           Before(k) == SumFunctionOnSet(f, 1 .. k)
           After(k) == SumFunctionOnSet(g, 1 .. k)
<1>1. /\ shorter \in Seq(Entries) /\ Len(shorter) = n - 1
      /\ \A i \in 1 .. n - 1 : shorter[i] = IF i < j THEN points[i] ELSE points[i + 1]
  BY RemoveAtFacts
<1>2. /\ \A i \in 1 .. n : f[i] = points[i].points /\ points[i].points \in Nat
      /\ \A i \in 1 .. n - 1 : g[i] = shorter[i].points /\ shorter[i].points \in Nat
  <2> HIDE DEF shorter
  <2> QED
    BY <1>1, EntriesFacts
<1>3. TotalOf(points) = Before(n) /\ TotalOf(shorter) = After(n - 1)
  <2> HIDE DEF shorter
  <2> QED
    BY <1>1, TotalIsSum
<1>4. n \in Nat /\ j \in 1 .. n
  BY EntriesFacts
<1> HIDE DEF n, shorter, f, g
<1>5. \A i \in 1 .. n - 1 : g[i] = IF i < j THEN f[i] ELSE f[i + 1]
  BY <1>1, <1>2, <1>4
<1>6. Before(0) = 0 /\ After(0) = 0
  <2>1. 1 .. 0 = {}
    OBVIOUS
  <2> QED
    BY <2>1, SumEmpty
<1>7. ASSUME NEW k \in Nat, k < n PROVE Before(k + 1) = Before(k) + f[k + 1] /\ Before(k) \in Int
  <2>1. \A i \in 1 .. k + 1 : f[i] \in Int
    BY <1>2, <1>4, <1>7
  <2>2. IsFiniteSet(1 .. k) /\ \A i \in 1 .. k : f[i] \in Int
    BY <2>1, FS_Interval
  <2> QED
    BY <2>1, <2>2, SumOfPrefix, SumType
<1>8. ASSUME NEW k \in Nat, k < n - 1 PROVE After(k + 1) = After(k) + g[k + 1]
  <2>1. \A i \in 1 .. k + 1 : g[i] \in Int
    BY <1>2, <1>4, <1>8
  <2> QED
    BY <2>1, SumOfPrefix
<1> HIDE DEF Before, After
<1> DEFINE T == {k \in Nat : k < n =>
                   After(k) = IF k < j THEN Before(k) ELSE Before(k + 1) - f[j]}
<1>9. 0 \in T
  BY <1>4, <1>6
<1>10. ASSUME NEW k \in T PROVE k + 1 \in T
  <2>1. CASE k + 1 < n
    <3>1. k \in Nat /\ k < n /\ k < n - 1 /\ k + 1 \in 1 .. n - 1
      BY <1>4, <2>1
    <3>2. After(k) = IF k < j THEN Before(k) ELSE Before(k + 1) - f[j]
      BY <1>10, <3>1
    <3>3. /\ After(k + 1) = After(k) + g[k + 1] /\ Before(k + 1) = Before(k) + f[k + 1]
          /\ Before(k + 1 + 1) = Before(k + 1) + f[k + 1 + 1]
          /\ Before(k) \in Int /\ Before(k + 1) \in Int
      BY <1>7, <1>8, <2>1, <3>1
    <3>4. f[k + 1] \in Nat /\ f[k + 1 + 1] \in Nat /\ f[j] \in Nat
      <4>1. \A i \in 1 .. n : f[i] \in Nat
        BY <1>2
      <4>2. k + 1 \in 1 .. n /\ k + 1 + 1 \in 1 .. n
        BY <1>4, <3>1
      <4> QED
        BY <1>4, <4>1, <4>2
    <3>5. g[k + 1] = IF k + 1 < j THEN f[k + 1] ELSE f[k + 1 + 1]
      <4> DEFINE next == k + 1
      <4>1. next \in 1 .. n - 1
        BY <3>1
      <4> HIDE DEF next
      <4>2. g[next] = IF next < j THEN f[next] ELSE f[next + 1]
        BY <1>5, <4>1
      <4> QED
        BY <4>2 DEF next
    <3>6. After(k + 1) = IF k + 1 < j THEN Before(k + 1) ELSE Before(k + 1 + 1) - f[j]
      <4>1. CASE k + 1 < j
        BY <1>4, <3>1, <3>2, <3>3, <3>5, <4>1
      <4>2. CASE k + 1 = j
        BY <1>4, <3>1, <3>2, <3>3, <3>4, <3>5, <4>2
      <4>3. CASE k + 1 > j
        BY <1>4, <3>1, <3>2, <3>3, <3>4, <3>5, <4>3
      <4> QED
        BY <1>4, <3>1, <4>1, <4>2, <4>3
    <3> QED
      BY <3>1, <3>6
  <2> QED
    BY <2>1
<1>11. n - 1 \in T
  <2> HIDE DEF T
  <2>1. T \in SUBSET Nat
    BY DEF T
  <2> QED
    BY <1>4, <1>9, <1>10, <2>1, NatSetInduction
<1>12. After(n - 1) = Before(n) - f[j]
  <2>1. n - 1 \in Nat /\ n - 1 < n
    BY <1>4
  <2>2. After(n - 1) = IF n - 1 < j THEN Before(n - 1) ELSE Before(n - 1 + 1) - f[j]
    BY <1>11, <2>1
  <2>3. Before(n - 1 + 1) = Before(n - 1) + f[n - 1 + 1] /\ Before(n - 1) \in Int
    BY <1>7, <2>1
  <2>4. n - 1 + 1 = n /\ f[n] \in Nat
    BY <1>2, <1>4
  <2>5. CASE j = n
    BY <1>4, <2>2, <2>3, <2>4, <2>5
  <2>6. CASE j < n
    BY <1>4, <2>2, <2>4, <2>6
  <2> QED
    BY <1>4, <2>5, <2>6
<1> QED
  BY <1>1, <1>2, <1>3, <1>4, <1>12 DEF shorter, n

-----------------------------------------------------------------------------
(* What the operations do to the pools. *)

\* A pool whose total is that of its points.
Balanced == {p \in PoolType : p.total = TotalOf(p.points)}

Ledgers == [PoolIds -> Balanced]

LEMMA CreditFacts ==
  ASSUME NEW p \in Ledgers, NEW id, NEW amount \in Nat
  PROVE  /\ Credit(p, id, amount) \in Ledgers
         /\ \A i \in PoolIds : i # id => Credit(p, id, amount)[i] = p[i]
         /\ id \in PoolIds => Credit(p, id, amount)[id] = [p[id] EXCEPT !.amount = @ + amount]
<1>1. DOMAIN p = PoolIds
  BY DEF Ledgers
<1>2. CASE id \in PoolIds
  <2> DEFINE pool == [p[id] EXCEPT !.amount = @ + amount]
  <2>1. p[id] \in Balanced
    BY <1>2 DEF Ledgers
  <2>2. pool \in Balanced
    BY <2>1 DEF Balanced, PoolType
  <2>3. Credit(p, id, amount) = [p EXCEPT ![id] = pool]
    BY <1>1, <1>2 DEF Credit
  <2> HIDE DEF pool
  <2>4. [p EXCEPT ![id] = pool] \in Ledgers
    BY <2>2 DEF Ledgers
  <2>5. \A i \in PoolIds : [p EXCEPT ![id] = pool][i] = IF i = id THEN pool ELSE p[i]
    BY <1>1
  <2> QED
    BY <1>2, <2>3, <2>4, <2>5 DEF pool
<1>3. CASE id \notin PoolIds
  BY <1>1, <1>3 DEF Credit
<1> QED
  BY <1>2, <1>3

\* A pool is debited if it has enough.
LEMMA DebitFacts ==
  ASSUME NEW p \in Ledgers, NEW id, NEW amount \in Nat
  PROVE  /\ Debit(p, id, amount) \in Ledgers
         /\ \A i \in PoolIds : i # id => Debit(p, id, amount)[i] = p[i]
         /\ id \in PoolIds => Debit(p, id, amount)[id].amount
                                = IF p[id].amount >= amount THEN p[id].amount - amount
                                  ELSE p[id].amount
<1>1. DOMAIN p = PoolIds
  BY DEF Ledgers
<1>2. CASE id \in PoolIds /\ p[id].amount >= amount
  <2> DEFINE pool == [p[id] EXCEPT !.amount = @ - amount]
  <2>1. p[id] \in Balanced
    BY <1>2 DEF Ledgers
  <2>2. pool \in Balanced /\ pool.amount = p[id].amount - amount
    BY <1>2, <2>1 DEF Balanced, PoolType
  <2>3. Debit(p, id, amount) = [p EXCEPT ![id] = pool]
    BY <1>1, <1>2 DEF Debit
  <2> HIDE DEF pool
  <2>4. [p EXCEPT ![id] = pool] \in Ledgers
    BY <2>2 DEF Ledgers
  <2>5. \A i \in PoolIds : [p EXCEPT ![id] = pool][i] = IF i = id THEN pool ELSE p[i]
    BY <1>1
  <2> QED
    BY <1>2, <2>2, <2>3, <2>4, <2>5
<1>3. CASE ~(id \in PoolIds /\ p[id].amount >= amount)
  BY <1>1, <1>3 DEF Debit
<1> QED
  BY <1>2, <1>3

LEMMA ShareIsNat == ASSUME NEW amount \in Nat PROVE amount \div ShareDivisor \in Nat
<1>1. ShareDivisor \in Nat \ {0}
  BY StateAssumption
<1> QED
  BY <1>1

LEMMA AddPointsFacts ==
  ASSUME NEW pool \in Balanced, NEW address \in Addresses, NEW amount \in Nat
  PROVE  /\ AddPoints(pool, address, amount) \in Balanced
         /\ AddPoints(pool, address, amount).amount = pool.amount
<1> DEFINE share == amount \div ShareDivisor
           entry == [address |-> address, points |-> share]
           longer == Append(pool.points, entry)
<1>1. share \in Nat
  BY ShareIsNat
<1>2. pool \in PoolType /\ pool.points \in Seq(Entries) /\ pool.total = TotalOf(pool.points)
  BY DEF Balanced, PoolType
<1> HIDE DEF share
<1>3. entry \in Entries /\ entry.points = share
  BY <1>1 DEF Entries
<1> HIDE DEF entry
<1>4. longer \in Seq(Entries) /\ TotalOf(longer) = TotalOf(pool.points) + share
  BY <1>2, <1>3, TotalAppend
<1>5. AddPoints(pool, address, amount)
        = [pool EXCEPT !.points = longer, !.total = @ + share]
  BY DEF AddPoints, share, entry
<1> HIDE DEF longer
<1>6. AddPoints(pool, address, amount) \in PoolType
  <2>1. pool.total + share \in Nat
    BY <1>1, <1>2 DEF PoolType
  <2> QED
    BY <1>2, <1>4, <1>5, <2>1 DEF PoolType
<1>7. /\ AddPoints(pool, address, amount).points = longer
      /\ AddPoints(pool, address, amount).total = pool.total + share
      /\ AddPoints(pool, address, amount).amount = pool.amount
  BY <1>2, <1>5 DEF PoolType
<1> QED
  BY <1>2, <1>4, <1>6, <1>7 DEF Balanced

\* A deposit credits the liquidity pool, and debits the holding pool if it has
\* enough.
LEMMA DepositFacts ==
  ASSUME NEW p \in Ledgers, NEW deposit \in Deposits
  PROVE  /\ Deposit(p, deposit) \in Ledgers
         /\ {"holding", "liquidity"} \subseteq PoolIds =>
              /\ Deposit(p, deposit)["liquidity"].amount = p["liquidity"].amount + deposit.amount
              /\ Deposit(p, deposit)["holding"].amount
                   = IF p["holding"].amount >= deposit.amount
                     THEN p["holding"].amount - deposit.amount ELSE p["holding"].amount
<1> DEFINE amount == deposit.amount
           paidIn == Credit(p, "liquidity", amount)
           pool == AddPoints(paidIn["liquidity"], deposit.address, amount)
           credited == IF "liquidity" \in DOMAIN p
                       THEN [paidIn EXCEPT !["liquidity"] = pool] ELSE p
<1>1. amount \in Nat /\ deposit.address \in Addresses
  BY StateAssumption DEF Deposits
<1>2. DOMAIN p = PoolIds
  BY DEF Ledgers
<1>3. Deposit(p, deposit) = Debit(credited, "holding", amount)
  BY DEF Deposit
<1> HIDE DEF amount
<1>4. /\ paidIn \in Ledgers
      /\ \A i \in PoolIds : i # "liquidity" => paidIn[i] = p[i]
      /\ "liquidity" \in PoolIds =>
           paidIn["liquidity"] = [p["liquidity"] EXCEPT !.amount = @ + amount]
  BY <1>1, CreditFacts
<1> HIDE DEF paidIn
<1>5. "liquidity" \in PoolIds =>
        pool \in Balanced /\ pool.amount = p["liquidity"].amount + amount
  <2> SUFFICES ASSUME "liquidity" \in PoolIds
               PROVE  pool \in Balanced /\ pool.amount = p["liquidity"].amount + amount
    OBVIOUS
  <2>1. p["liquidity"] \in PoolType /\ paidIn["liquidity"] \in Balanced
    BY <1>4 DEF Ledgers, Balanced
  <2>2. paidIn["liquidity"].amount = p["liquidity"].amount + amount
    BY <1>4, <2>1 DEF PoolType
  <2> QED
    BY <1>1, <2>1, <2>2, AddPointsFacts
<1> HIDE DEF pool
<1>6. /\ credited \in Ledgers
      /\ \A i \in PoolIds : i # "liquidity" => credited[i] = p[i]
      /\ "liquidity" \in PoolIds => credited["liquidity"] = pool
  BY <1>2, <1>4, <1>5 DEF Ledgers
<1> HIDE DEF credited
<1>7. /\ Deposit(p, deposit) \in Ledgers
      /\ \A i \in PoolIds : i # "holding" => Deposit(p, deposit)[i] = credited[i]
      /\ "holding" \in PoolIds =>
           Deposit(p, deposit)["holding"].amount
             = IF credited["holding"].amount >= amount
               THEN credited["holding"].amount - amount ELSE credited["holding"].amount
  BY <1>1, <1>3, <1>6, DebitFacts
<1> QED
  BY <1>5, <1>6, <1>7 DEF amount

LEMMA BatchFacts ==
  ASSUME NEW S, NEW batch \in Batch(S)
  PROVE  /\ batch \in Seq(S) /\ Len(batch) \in Nat \ {0} /\ DOMAIN batch = 1 .. Len(batch)
         /\ \A i \in 1 .. Len(batch) : batch[i] \in S
<1>1. PICK m \in 0 .. MaxBatch : batch \in [1 .. m -> S]
  BY DEF Batch, BoundedSeq, SeqOf
<1>2. batch \in Seq(S)
  BY <1>1, StateAssumption, SeqDef
<1>3. batch # <<>>
  BY DEF Batch
<1> QED
  BY <1>2, <1>3, LenProperties, EmptySeq, ElementOfSeq

\* A batch of orders changes the holding pool only.
LEMMA OrdersFacts ==
  ASSUME NEW p \in Ledgers, NEW orders \in Batch(OrderAmounts)
  PROVE  LET after == OrdersFold(p, orders)
         IN  after \in Ledgers /\ \A i \in PoolIds : i # "holding" => after[i] = p[i]
<1> DEFINE n == Len(orders)
           V == {v \in Ledgers : \A i \in PoolIds : i # "holding" => v[i] = p[i]}
           after == OrdersFold(p, orders)
<1>1. n \in Nat /\ DOMAIN orders = 1 .. n /\ \A i \in 1 .. n : orders[i] \in Nat
  BY BatchFacts, StateAssumption
<1>2. p \in V
  OBVIOUS
<1>3. ASSUME NEW k \in 1 .. n, NEW v \in V PROVE Credit(v, "holding", orders[k]) \in V
  <2> DEFINE amount == orders[k]
             w == Credit(v, "holding", amount)
  <2>1. v \in Ledgers /\ amount \in Nat /\ \A i \in PoolIds : i # "holding" => v[i] = p[i]
    BY <1>1
  <2> HIDE DEF amount
  <2>2. /\ w \in Ledgers
        /\ \A i \in PoolIds : i # "holding" => w[i] = v[i]
        /\ "holding" \in PoolIds => w["holding"] = [v["holding"] EXCEPT !.amount = @ + amount]
    BY <2>1, CreditFacts
  <2> HIDE DEF w
  <2>3. w \in V
    BY <2>1, <2>2
  <2> QED
    BY <2>3 DEF amount, w
<1> HIDE DEF n, V
<1>4. PICK acc \in [0 .. n -> V] : OrdersRun(acc, p, orders, n)
  BY <1>1, <1>2, <1>3, OrdersHistory
<1>5. after \in V
  BY <1>1, <1>4 DEF OrdersRun
<1> QED
  BY <1>5 DEF V

\* What became of the funds of deposits that have put deposited into the liquidity
\* pool while the holding pool went from before to after: those that were made are
\* of deposits the holding pool could not cover.
Covered(deposited, before, after) ==
  LET made == deposited - (before - after)
  IN  /\ made \in 0 .. deposited
      /\ made > 0 => made > after

LEMMA OneMoreCovered ==
  ASSUME NEW deposited \in Nat, NEW before \in Nat, NEW after \in Nat, NEW amount \in Nat,
         Covered(deposited, before, after)
  PROVE  Covered(deposited + amount, before, IF after >= amount THEN after - amount ELSE after)
<1> DEFINE made == deposited - (before - after)
<1>1. made \in Nat /\ made <= deposited /\ (made > 0 => made > after)
  BY DEF Covered
<1>2. CASE after >= amount
  <2>1. (deposited + amount) - (before - (after - amount)) = made
    OBVIOUS
  <2>2. made \in 0 .. deposited + amount /\ (made > 0 => made > after - amount)
    <3> HIDE DEF made
    <3> QED
      BY <1>1
  <2> HIDE DEF made
  <2> QED
    BY <1>2, <2>1, <2>2 DEF Covered
<1>3. CASE ~(after >= amount)
  <2>1. (deposited + amount) - (before - after) = made + amount
    OBVIOUS
  <2>2. made + amount \in 0 .. deposited + amount /\ made + amount > after
    <3> HIDE DEF made
    <3> QED
      BY <1>1, <1>3
  <2> HIDE DEF made
  <2> QED
    BY <1>3, <2>1, <2>2 DEF Covered
<1> QED
  BY <1>2, <1>3

\* Only a deposit the holding pool cannot cover makes funds.
LEMMA DepositsFacts ==
  ASSUME NEW p \in Ledgers, NEW deposits \in Batch(Deposits)
  PROVE  LET after == DepositsFold(p, deposits)
             deposited == after["liquidity"].amount - p["liquidity"].amount
         IN  /\ after \in Ledgers
             /\ {"holding", "liquidity"} \subseteq PoolIds
                => Covered(deposited, p["holding"].amount, after["holding"].amount)
<1> DEFINE n == Len(deposits)
           Moved(v) ==
             LET deposited == v["liquidity"].amount - p["liquidity"].amount
             IN  /\ deposited \in Nat
                 /\ Covered(deposited, p["holding"].amount, v["holding"].amount)
           V == {v \in Ledgers : {"holding", "liquidity"} \subseteq PoolIds => Moved(v)}
           after == DepositsFold(p, deposits)
<1>1. n \in Nat /\ DOMAIN deposits = 1 .. n /\ \A i \in 1 .. n : deposits[i] \in Deposits
  BY BatchFacts
<1>2. ASSUME NEW v \in Ledgers, NEW id \in PoolIds PROVE v[id].amount \in Nat
  BY DEF Ledgers, Balanced, PoolType
<1>3. p \in V
  <2>1. ASSUME {"holding", "liquidity"} \subseteq PoolIds PROVE Moved(p)
    <3>1. p["liquidity"].amount \in Nat /\ p["holding"].amount \in Nat
      BY <1>2, <2>1
    <3> QED
      BY <3>1 DEF Covered
  <2> QED
    BY <2>1
<1>4. ASSUME NEW i \in 1 .. n, NEW v \in V PROVE Deposit(v, deposits[i]) \in V
  <2> DEFINE w == Deposit(v, deposits[i])
             amount == deposits[i].amount
  <2>1. v \in Ledgers /\ ({"holding", "liquidity"} \subseteq PoolIds => Moved(v))
    OBVIOUS
  <2>2. /\ w \in Ledgers
        /\ {"holding", "liquidity"} \subseteq PoolIds =>
             /\ w["liquidity"].amount = v["liquidity"].amount + amount
             /\ w["holding"].amount
                  = IF v["holding"].amount >= amount
                    THEN v["holding"].amount - amount ELSE v["holding"].amount
    BY <1>1, <2>1, DepositFacts
  <2>3. amount \in Nat
    BY <1>1, StateAssumption DEF Deposits
  <2> HIDE DEF w, amount
  <2>4. ASSUME {"holding", "liquidity"} \subseteq PoolIds PROVE Moved(w)
    <3> DEFINE before == v["liquidity"].amount
               first == p["liquidity"].amount
               deposited == before - first
               holding == p["holding"].amount
               left == v["holding"].amount
    <3>1. before \in Nat /\ left \in Nat /\ first \in Nat /\ holding \in Nat
      BY <1>2, <2>1, <2>4
    <3>2. deposited \in Nat /\ Covered(deposited, holding, left)
      BY <2>1, <2>4
    <3>3. /\ w["liquidity"].amount = before + amount
          /\ w["holding"].amount = IF left >= amount THEN left - amount ELSE left
      BY <2>2, <2>4
    <3>4. w["liquidity"].amount - first = deposited + amount
      <4> HIDE DEF before, first
      <4> QED
        BY <2>3, <3>1, <3>3
    <3> HIDE DEF deposited, holding, left, first
    <3>5. Covered(deposited + amount, holding, IF left >= amount THEN left - amount ELSE left)
      BY <2>3, <3>1, <3>2, OneMoreCovered
    <3>6. deposited + amount \in Nat
      BY <2>3, <3>2
    <3>7. /\ w["liquidity"].amount - first \in Nat
          /\ Covered(w["liquidity"].amount - first, holding, w["holding"].amount)
      BY <3>3, <3>4, <3>5, <3>6
    <3> QED
      BY <3>7 DEF first, holding
  <2>5. w \in V
    BY <2>2, <2>4
  <2> QED
    BY <2>5 DEF w
<1> HIDE DEF n, V
<1>5. PICK acc \in [0 .. n -> V] : DepositsRun(acc, p, deposits, n)
  BY <1>1, <1>3, <1>4, DepositsHistory
<1>6. after \in V
  BY <1>1, <1>5 DEF DepositsRun
<1> QED
  BY <1>6 DEF V

-----------------------------------------------------------------------------
(* Prices. *)

LEMMA PairMinMax ==
  ASSUME NEW a \in Int, NEW b \in Int
  PROVE  Min({a, b}) = (IF a <= b THEN a ELSE b) /\ Max({a, b}) = (IF a >= b THEN a ELSE b)
<1>1. ASSUME NEW m \in {a, b}, \A y \in {a, b} : m <= y PROVE m = IF a <= b THEN a ELSE b
  BY <1>1
<1>2. ASSUME NEW m \in {a, b}, \A y \in {a, b} : m >= y PROVE m = IF a >= b THEN a ELSE b
  BY <1>2
<1>3. /\ \E m \in {a, b} : \A y \in {a, b} : m <= y
      /\ \E m \in {a, b} : \A y \in {a, b} : m >= y
  OBVIOUS
<1> QED
  BY <1>1, <1>2, <1>3 DEF Min, Max

\* No more is burned than there is.
LEMMA BurnFacts ==
  ASSUME NEW points \in Nat, NEW percent \in Nat
  PROVE  Burn(points, percent) \in 0 .. points
<1> DEFINE m == Min({percent, 100})
           product == points * m
<1>1. m \in Nat /\ m <= 100
  BY PairMinMax
<1> HIDE DEF m
<1>2. product \in Nat /\ product <= points * 100
  BY <1>1, MulMono
<1>3. Burn(points, percent) = product \div 100
  BY DEF Burn, SafeMulDiv, m
<1> HIDE DEF product
<1>4. product \div 100 \in Nat /\ (product \div 100) * 100 <= product
  BY <1>2, DivFacts
<1> QED
  BY <1>2, <1>3, <1>4

LEMMA PriceFacts ==
  ASSUME NEW x \in Nat, NEW y \in Nat, NEW z \in Nat \ {0}
  PROVE  SafeMulDiv(x, y, z) \in Nat /\ SafeMulDiv(x, y, z) * z <= x * y
<1>1. x * y \in Nat
  OBVIOUS
<1> QED
  BY <1>1, DivFacts DEF SafeMulDiv

-----------------------------------------------------------------------------
(* The entry of a list that the lookup by address has. *)

LastEntry(pool, a) == SelectLastInSeq(pool.points, LAMBDA entry : entry.address = a)

LEMMA LastEntryFacts ==
  ASSUME NEW pool \in PoolType, NEW a
  PROVE  /\ LastEntry(pool, a) \in 0 .. Len(pool.points)
         /\ LastEntry(pool, a) = 0 => \A i \in 1 .. Len(pool.points) : pool.points[i].address # a
         /\ LastEntry(pool, a) # 0 => pool.points[LastEntry(pool, a)].address = a
<1> DEFINE n == Len(pool.points)
           I == {i \in 1 .. n : pool.points[i].address = a}
<1>1. n \in Nat
  BY EntriesFacts DEF PoolType
<1>2. LastEntry(pool, a) = IF I # {} THEN Greatest(I) ELSE 0
  BY DEF LastEntry, SelectLastInSeq, Max, Greatest
<1> HIDE DEF n
<1>3. I # {} => Greatest(I) \in I
  <2>1. I \in SUBSET (1 .. n)
    OBVIOUS
  <2> HIDE DEF I
  <2> QED
    BY <1>1, <2>1, GreatestOf
<1> QED
  BY <1>1, <1>2, <1>3 DEF n

LEMMA LookupFacts ==
  ASSUME NEW pool \in PoolType
  PROVE  /\ PointsByAddress(pool) \in [Addresses -> Nat]
         /\ \A a \in Addresses :
              PointsByAddress(pool)[a] = IF LastEntry(pool, a) = 0 THEN 0
                                         ELSE pool.points[LastEntry(pool, a)].points
<1>1. \A a \in Addresses :
        PointsByAddress(pool)[a] = IF LastEntry(pool, a) = 0 THEN 0
                                   ELSE pool.points[LastEntry(pool, a)].points
  BY DEF PointsByAddress, LastEntry
<1>2. \A i \in 1 .. Len(pool.points) : pool.points[i].points \in Nat
  BY EntriesFacts DEF PoolType
<1>3. ASSUME NEW a \in Addresses PROVE PointsByAddress(pool)[a] \in Nat
  <2>1. LastEntry(pool, a) = 0 \/ LastEntry(pool, a) \in 1 .. Len(pool.points)
    BY LastEntryFacts
  <2> QED
    BY <1>1, <1>2, <2>1
<1>4. PointsByAddress(pool) \in [Addresses -> Nat]
  BY <1>3 DEF PointsByAddress
<1> QED
  BY <1>1, <1>4

-----------------------------------------------------------------------------
(* What a batch of withdrawals reports. *)

Result == [address : Addresses, pointsBurned : Nat, localAmount : Nat]

BurnedOf(paid) == [i \in DOMAIN paid |-> paid[i].pointsBurned]

BurnedBy(paid) == SumFunctionOnSet(BurnedOf(paid), 1 .. Len(paid))

LocalOf(paid) == [i \in DOMAIN paid |-> paid[i].localAmount]

LEMMA ResultFacts ==
  ASSUME NEW paid \in Seq(Result)
  PROVE  /\ Len(paid) \in Nat /\ DOMAIN paid = 1 .. Len(paid)
         /\ \A i \in 1 .. Len(paid) :
              /\ paid[i] \in Result /\ paid[i].localAmount \in Nat
              /\ LocalOf(paid)[i] = paid[i].localAmount /\ LocalOf(paid)[i] \in Nat
              /\ BurnedOf(paid)[i] = paid[i].pointsBurned /\ BurnedOf(paid)[i] \in Nat
<1>1. Len(paid) \in Nat /\ DOMAIN paid = 1 .. Len(paid)
  BY LenProperties
<1>2. \A i \in 1 .. Len(paid) : paid[i] \in Result
  BY ElementOfSeq
<1>3. \A i \in 1 .. Len(paid) : paid[i].localAmount \in Nat /\ paid[i].pointsBurned \in Nat
  BY <1>2 DEF Result
<1>4. \A i \in 1 .. Len(paid) : /\ LocalOf(paid)[i] = paid[i].localAmount
                                /\ BurnedOf(paid)[i] = paid[i].pointsBurned
  BY <1>1 DEF LocalOf, BurnedOf
<1> QED
  BY <1>1, <1>2, <1>3, <1>4

LEMMA PaidIsSum ==
  ASSUME NEW paid \in Seq(Result)
  PROVE  /\ Paid(paid) = SumFunctionOnSet(LocalOf(paid), 1 .. Len(paid))
         /\ Paid(paid) \in Nat /\ BurnedBy(paid) \in Nat
<1> DEFINE n == Len(paid)
           f == LocalOf(paid)
<1>1. n \in Nat /\ DOMAIN paid = 1 .. n
  BY ResultFacts
<1>2. \A i \in 1 .. n : paid[i].localAmount \in Nat /\ f[i] = paid[i].localAmount
  BY ResultFacts
<1>3. \A i \in 1 .. n : BurnedOf(paid)[i] \in Nat
  BY ResultFacts
<1> HIDE DEF f
<1>4. BurnedBy(paid) \in Nat
  <2>1. IsFiniteSet(1 .. n)
    BY <1>1, FS_Interval
  <2> QED
    BY <1>3, <2>1, SumNat DEF BurnedBy
<1> HIDE DEF n
<1>5. PICK acc \in [0 .. n -> Nat] : PaidRun(acc, paid, n)
  BY <1>1, <1>2, PaidHistory
<1>6. acc[0] = 0 /\ \A k \in 1 .. n : f[k] \in Nat /\ acc[k] = acc[k - 1] + f[k]
  BY <1>2, <1>5 DEF PaidRun
<1>7. acc[n] = SumFunctionOnSet(f, 1 .. n)
  BY <1>1, <1>6, RunningSum
<1>8. acc[n] \in Nat
  BY <1>1
<1> QED
  BY <1>4, <1>5, <1>7, <1>8 DEF PaidRun, n, f

LEMMA ReportAppend ==
  ASSUME NEW paid \in Seq(Result), NEW result \in Result
  PROVE  /\ Append(paid, result) \in Seq(Result)
         /\ Paid(Append(paid, result)) = Paid(paid) + result.localAmount
         /\ BurnedBy(Append(paid, result)) = BurnedBy(paid) + result.pointsBurned
<1> DEFINE n == Len(paid)
           longer == Append(paid, result)
<1>1. /\ n \in Nat /\ longer \in Seq(Result) /\ Len(longer) = n + 1 /\ longer[n + 1] = result
      /\ \A i \in 1 .. n : longer[i] = paid[i]
  BY AppendProperties, LenProperties
<1> HIDE DEF longer
<1>2. /\ \A i \in 1 .. n + 1 : LocalOf(longer)[i] \in Int /\ BurnedOf(longer)[i] \in Int
      /\ \A i \in 1 .. n + 1 : /\ LocalOf(longer)[i] = longer[i].localAmount
                               /\ BurnedOf(longer)[i] = longer[i].pointsBurned
  BY <1>1, ResultFacts
<1>3. \A i \in 1 .. n : /\ LocalOf(paid)[i] = paid[i].localAmount
                        /\ BurnedOf(paid)[i] = paid[i].pointsBurned
  BY ResultFacts
<1>4. n + 1 \in 1 .. n + 1 /\ \A i \in 1 .. n : i \in 1 .. n + 1
  BY <1>1
<1>5. Paid(longer) = SumFunctionOnSet(LocalOf(longer), 1 .. n + 1)
  BY <1>1, PaidIsSum
<1>6. BurnedBy(longer) = SumFunctionOnSet(BurnedOf(longer), 1 .. n + 1)
  BY <1>1 DEF BurnedBy
<1>7. Paid(paid) = SumFunctionOnSet(LocalOf(paid), 1 .. n)
  BY PaidIsSum
<1>8. BurnedBy(paid) = SumFunctionOnSet(BurnedOf(paid), 1 .. n)
  BY DEF BurnedBy
<1> HIDE DEF n
<1>9. SumFunctionOnSet(LocalOf(longer), 1 .. n + 1)
        = SumFunctionOnSet(LocalOf(paid), 1 .. n) + LocalOf(longer)[n + 1]
  <2>1. \A i \in 1 .. n + 1 : LocalOf(longer)[i] \in Int
    BY <1>2
  <2>2. \A i \in 1 .. n : LocalOf(longer)[i] = LocalOf(paid)[i]
    BY <1>1, <1>2, <1>3, <1>4
  <2> QED
    BY <1>1, <2>1, <2>2, SumExtend
<1>10. SumFunctionOnSet(BurnedOf(longer), 1 .. n + 1)
         = SumFunctionOnSet(BurnedOf(paid), 1 .. n) + BurnedOf(longer)[n + 1]
  <2>1. \A i \in 1 .. n + 1 : BurnedOf(longer)[i] \in Int
    BY <1>2
  <2>2. \A i \in 1 .. n : BurnedOf(longer)[i] = BurnedOf(paid)[i]
    BY <1>1, <1>2, <1>3, <1>4
  <2> QED
    BY <1>1, <2>1, <2>2, SumExtend
<1>11. LocalOf(longer)[n + 1] = result.localAmount /\ BurnedOf(longer)[n + 1] = result.pointsBurned
  BY <1>1, <1>2, <1>4
<1> QED
  BY <1>1, <1>5, <1>6, <1>7, <1>8, <1>9, <1>10, <1>11 DEF longer

-----------------------------------------------------------------------------
(* What is left of the entries the lookup has, in the course of a batch. *)

LeftOf(pool, left) ==
  [i \in 1 .. Len(pool.points) |->
     IF i = LastEntry(pool, pool.points[i].address) THEN left[pool.points[i].address] ELSE 0]

Left(pool, left) == SumFunctionOnSet(LeftOf(pool, left), 1 .. Len(pool.points))

LEMMA LeftOfFacts ==
  ASSUME NEW pool \in PoolType, NEW left \in [Addresses -> Nat]
  PROVE  /\ Len(pool.points) \in Nat
         /\ \A i \in 1 .. Len(pool.points) :
              /\ pool.points[i].address \in Addresses
              /\ LeftOf(pool, left)[i] \in Nat
              /\ LeftOf(pool, left)[i]
                   = IF i = LastEntry(pool, pool.points[i].address)
                     THEN left[pool.points[i].address] ELSE 0
<1>1. Len(pool.points) \in Nat /\ \A i \in 1 .. Len(pool.points) : pool.points[i] \in Entries
  BY EntriesFacts DEF PoolType
<1>2. \A i \in 1 .. Len(pool.points) : pool.points[i].address \in Addresses
  BY <1>1 DEF Entries
<1>3. \A i \in 1 .. Len(pool.points) :
        LeftOf(pool, left)[i] = IF i = LastEntry(pool, pool.points[i].address)
                                THEN left[pool.points[i].address] ELSE 0
  BY DEF LeftOf
<1>4. \A i \in 1 .. Len(pool.points) : left[pool.points[i].address] \in Nat
  BY <1>2
<1> QED
  BY <1>1, <1>2, <1>3, <1>4

\* The lookup has no more points than the list.
LEMMA LookupWithinTotal ==
  ASSUME NEW pool \in Balanced
  PROVE  Left(pool, PointsByAddress(pool)) \in Nat /\ Left(pool, PointsByAddress(pool)) <= pool.total
<1> DEFINE n == Len(pool.points)
           f == LeftOf(pool, PointsByAddress(pool))
           g == PointsOf(pool.points)
<1>1. pool \in PoolType /\ pool.points \in Seq(Entries) /\ pool.total = TotalOf(pool.points)
  BY DEF Balanced, PoolType
<1>2. n \in Nat /\ \A i \in 1 .. n : g[i] \in Nat /\ g[i] = pool.points[i].points
  BY <1>1, EntriesFacts
<1>3. \A i \in 1 .. n : f[i] \in Nat /\ f[i] <= g[i]
  <2> SUFFICES ASSUME NEW i \in 1 .. n PROVE f[i] \in Nat /\ f[i] <= g[i]
    OBVIOUS
  <2> DEFINE a == pool.points[i].address
  <2>1. PointsByAddress(pool) \in [Addresses -> Nat]
    BY <1>1, LookupFacts
  <2>2. /\ a \in Addresses /\ f[i] \in Nat
        /\ f[i] = IF i = LastEntry(pool, a) THEN PointsByAddress(pool)[a] ELSE 0
    BY <1>1, <2>1, LeftOfFacts
  <2>3. PointsByAddress(pool)[a] = IF LastEntry(pool, a) = 0 THEN 0
                                   ELSE pool.points[LastEntry(pool, a)].points
    BY <1>1, <2>2, LookupFacts
  <2> HIDE DEF f, g, a
  <2> QED
    BY <1>2, <2>2, <2>3
<1>4. IsFiniteSet(1 .. n) /\ Cardinality(1 .. n) \in Nat
  <2> HIDE DEF n
  <2>1. IsFiniteSet(1 .. n)
    BY <1>2, FS_Interval
  <2> QED
    BY <2>1, FS_CardinalityType
<1>5. SumFunctionOnSet(f, 1 .. n) \in Nat /\ SumFunctionOnSet(g, 1 .. n) \in Nat
  <2> HIDE DEF f, g, n
  <2> QED
    BY <1>2, <1>3, <1>4, SumNat
<1>6. SumFunctionOnSet(g, 1 .. n) = pool.total
  BY <1>1, TotalIsSum
<1>7. Left(pool, PointsByAddress(pool)) = SumFunctionOnSet(f, 1 .. n)
  BY DEF Left
<1> HIDE DEF f, g, n
<1>8. SumFunctionOnSet(f, 1 .. n) * 1 <= SumFunctionOnSet(g, 1 .. n) * 1 + 0 * Cardinality(1 .. n)
  <2>1. \A i \in 1 .. n : f[i] \in Nat /\ g[i] \in Nat /\ f[i] * 1 <= g[i] * 1 + 0
    BY <1>2, <1>3
  <2>2. 0 \in Nat /\ 1 \in Nat
    OBVIOUS
  <2> QED
    BY <1>4, <2>1, <2>2, SumCompare
<1> QED
  BY <1>4, <1>5, <1>6, <1>7, <1>8

\* What is taken from an address is missing from what is left.
LEMMA LeftAfter ==
  ASSUME NEW pool \in PoolType, NEW left \in [Addresses -> Nat], NEW a \in Addresses,
         NEW burn \in 0 .. left[a], LastEntry(pool, a) = 0 => left[a] = 0
  PROVE  /\ Left(pool, left) \in Nat
         /\ Left(pool, [left EXCEPT ![a] = left[a] - burn]) = Left(pool, left) - burn
<1> DEFINE n == Len(pool.points)
           after == [left EXCEPT ![a] = left[a] - burn]
           f == LeftOf(pool, left)
           g == LeftOf(pool, after)
           j == LastEntry(pool, a)
<1>1. left[a] \in Nat /\ burn \in Nat /\ burn <= left[a]
  OBVIOUS
<1>2. /\ after \in [Addresses -> Nat] /\ after[a] = left[a] - burn
      /\ \A b \in Addresses : b # a => after[b] = left[b]
  BY <1>1
<1> HIDE DEF after
<1>3. /\ n \in Nat
      /\ \A i \in 1 .. n :
           /\ pool.points[i].address \in Addresses
           /\ f[i] \in Nat
           /\ f[i] = IF i = LastEntry(pool, pool.points[i].address)
                     THEN left[pool.points[i].address] ELSE 0
  BY LeftOfFacts
<1>4. \A i \in 1 .. n :
        /\ g[i] \in Nat
        /\ g[i] = IF i = LastEntry(pool, pool.points[i].address)
                  THEN after[pool.points[i].address] ELSE 0
  BY <1>2, LeftOfFacts
<1>5. /\ Left(pool, left) = SumFunctionOnSet(f, 1 .. n)
      /\ Left(pool, after) = SumFunctionOnSet(g, 1 .. n)
  BY DEF Left
<1>6. /\ j \in 0 .. n
      /\ j = 0 => \A i \in 1 .. n : pool.points[i].address # a
      /\ j # 0 => pool.points[j].address = a
  BY LastEntryFacts
<1>7. ASSUME NEW i \in 1 .. n, i # j PROVE g[i] = f[i]
  <2> DEFINE b == pool.points[i].address
  <2>1. CASE i = LastEntry(pool, b)
    <3>1. b # a
      BY <1>7, <2>1
    <3> QED
      BY <1>2, <1>3, <1>4, <3>1
  <2>2. CASE i # LastEntry(pool, b)
    BY <1>3, <1>4, <2>2
  <2> QED
    BY <2>1, <2>2
<1>8. j # 0 => f[j] = left[a] /\ g[j] = left[a] - burn
  <2> SUFFICES ASSUME j # 0 PROVE f[j] = left[a] /\ g[j] = left[a] - burn
    OBVIOUS
  <2>1. j \in 1 .. n /\ pool.points[j].address = a /\ j = LastEntry(pool, a)
    BY <1>3, <1>6
  <2>2. f[j] = left[pool.points[j].address] /\ g[j] = after[pool.points[j].address]
    <3> HIDE DEF f, g
    <3> QED
      BY <1>3, <1>4, <2>1
  <2> QED
    BY <1>2, <2>1, <2>2
<1> DEFINE indexes == 1 .. n
<1>9. IsFiniteSet(indexes) /\ \A i \in indexes : f[i] \in Nat /\ g[i] \in Nat
  <2> HIDE DEF f, g, n
  <2>1. n \in Nat
    BY <1>3
  <2>2. IsFiniteSet(1 .. n)
    BY <2>1, FS_Interval
  <2> QED
    BY <1>3, <1>4, <2>2
<1>10. j \in {0} \cup indexes
  BY <1>3, <1>6
<1>11. \A i \in indexes : i # j => g[i] = f[i]
  BY <1>7
<1>12. j = 0 => burn = 0 /\ 0 \notin indexes
  BY <1>1
<1> HIDE DEF f, g, j, indexes
<1>13. SumFunctionOnSet(f, indexes) \in Nat
  BY <1>9, SumNat
<1>14. CASE j = 0
  <2>1. \A i \in indexes : f[i] \in Int /\ f[i] = g[i]
    BY <1>9, <1>11, <1>12, <1>14
  <2>2. SumFunctionOnSet(g, indexes) = SumFunctionOnSet(f, indexes)
    BY <1>9, <2>1, SumCongruence
  <2> QED
    BY <1>5, <1>12, <1>13, <1>14, <2>2 DEF after, indexes
<1>15. CASE j \in indexes
  <2>1. /\ \A i \in indexes : f[i] \in Int /\ g[i] \in Int
        /\ \A i \in indexes \ {j} : g[i] = f[i]
    BY <1>9, <1>11
  <2>2. SumFunctionOnSet(g, indexes) = SumFunctionOnSet(f, indexes) - f[j] + g[j]
    BY <1>9, <1>15, <2>1, SumUpdate
  <2>3. f[j] = left[a] /\ g[j] = left[a] - burn
    BY <1>8, <1>15 DEF indexes
  <2> QED
    BY <1>1, <1>5, <1>13, <2>2, <2>3 DEF after, indexes
<1> QED
  BY <1>10, <1>14, <1>15

-----------------------------------------------------------------------------
(* A batch of withdrawals pays no more than the share of what it burns. *)

\* What a batch of withdrawals of a pool may have done so far.
FairStates(pool) ==
  {state \in [points : [Addresses -> Nat], results : Seq(Result)] :
     /\ Paid(state.results) * pool.total <= pool.amount * BurnedBy(state.results)
     /\ BurnedBy(state.results) + Left(pool, state.points) <= pool.total
     /\ \A a \in Addresses : LastEntry(pool, a) = 0 => state.points[a] = 0}

FirstState(pool) == [points |-> PointsByAddress(pool), results |-> <<>>]

\* Nothing was paid and burned yet.
LEMMA FirstStateIsFair ==
  ASSUME NEW pool \in Balanced
  PROVE  FirstState(pool) \in FairStates(pool)
<1>1. /\ pool \in PoolType /\ pool.amount \in Nat /\ pool.total \in Nat
  BY DEF Balanced, PoolType
<1>2. <<>> \in Seq(Result) /\ Len(<<>>) = 0
  BY EmptySeq
<1>3. Paid(<<>>) = 0 /\ BurnedBy(<<>>) = 0
  <2>1. 1 .. 0 = {}
    OBVIOUS
  <2>2. Paid(<<>>) = SumFunctionOnSet(LocalOf(<<>>), 1 .. Len(<<>>))
    BY <1>2, PaidIsSum
  <2>3. /\ SumFunctionOnSet(LocalOf(<<>>), {}) = 0
        /\ SumFunctionOnSet(BurnedOf(<<>>), {}) = 0
    BY SumEmpty
  <2> QED
    BY <1>2, <2>1, <2>2, <2>3 DEF BurnedBy
<1>4. /\ PointsByAddress(pool) \in [Addresses -> Nat]
      /\ \A a \in Addresses : LastEntry(pool, a) = 0 => PointsByAddress(pool)[a] = 0
  BY <1>1, LookupFacts
<1>5. Left(pool, PointsByAddress(pool)) \in Nat /\ Left(pool, PointsByAddress(pool)) <= pool.total
  BY LookupWithinTotal
<1>6. 0 * pool.total <= pool.amount * 0 /\ 0 + Left(pool, PointsByAddress(pool)) <= pool.total
  BY <1>1, <1>5
<1>7. /\ FirstState(pool).points = PointsByAddress(pool) /\ FirstState(pool).results = <<>>
      /\ FirstState(pool) \in [points : [Addresses -> Nat], results : Seq(Result)]
  BY <1>2, <1>4 DEF FirstState
<1> QED
  BY <1>3, <1>4, <1>6, <1>7 DEF FairStates

LEMMA WithdrawFacts ==
  ASSUME NEW pool \in Balanced, pool.total # 0, NEW state \in FairStates(pool),
         NEW withdrawal \in Withdrawals
  PROVE  LET a == withdrawal.address
             burn == Burn(state.points[a], withdrawal.percent)
             result == [address |-> a, pointsBurned |-> burn,
                        localAmount |-> SafeMulDiv(pool.amount, burn, pool.total)]
             after == Withdraw(pool, state, withdrawal)
         IN  /\ burn \in 0 .. state.points[a] /\ result \in Result
             /\ after.points = [state.points EXCEPT ![a] = state.points[a] - burn]
             /\ after.results = Append(state.results, result)
             /\ after \in FairStates(pool)
<1> DEFINE a == withdrawal.address
           burn == Burn(state.points[a], withdrawal.percent)
           local == SafeMulDiv(pool.amount, burn, pool.total)
           result == [address |-> a, pointsBurned |-> burn, localAmount |-> local]
           after == Withdraw(pool, state, withdrawal)
           paid == Paid(state.results)
           burned == BurnedBy(state.results)
           left == Left(pool, state.points)
           amount == pool.amount
           total == pool.total
<1>1. pool \in PoolType /\ amount \in Nat /\ total \in Nat \ {0}
  BY DEF Balanced, PoolType
<1>2. a \in Addresses /\ withdrawal.percent \in Nat
  BY StateAssumption DEF Withdrawals
<1>3. /\ state.points \in [Addresses -> Nat] /\ state.results \in Seq(Result)
      /\ paid * total <= amount * burned
      /\ burned + left <= total
      /\ \A b \in Addresses : LastEntry(pool, b) = 0 => state.points[b] = 0
  BY DEF FairStates
<1>4. state.points[a] \in Nat /\ burn \in 0 .. state.points[a]
  BY <1>2, <1>3, BurnFacts
<1>5. after = [points |-> [state.points EXCEPT ![a] = state.points[a] - burn],
               results |-> Append(state.results, result)]
  BY DEF Withdraw
<1> HIDE DEF burn
<1>6. local \in Nat /\ local * total <= amount * burn
  <2>1. burn \in Nat
    BY <1>4
  <2> HIDE DEF amount, total
  <2>2. local = SafeMulDiv(amount, burn, total)
    BY DEF amount, total
  <2>3. /\ SafeMulDiv(amount, burn, total) \in Nat
        /\ SafeMulDiv(amount, burn, total) * total <= amount * burn
    BY <1>1, <2>1, PriceFacts
  <2> QED
    BY <2>2, <2>3
<1> HIDE DEF local
<1>7. result \in Result /\ result.localAmount = local /\ result.pointsBurned = burn
  BY <1>2, <1>4, <1>6 DEF Result
<1> HIDE DEF result
<1>8. /\ after.points = [state.points EXCEPT ![a] = state.points[a] - burn]
      /\ after.results = Append(state.results, result)
  BY <1>5
<1>9. /\ Append(state.results, result) \in Seq(Result)
      /\ Paid(Append(state.results, result)) = paid + local
      /\ BurnedBy(Append(state.results, result)) = burned + burn
  BY <1>3, <1>7, ReportAppend
<1>10. /\ left \in Nat
       /\ Left(pool, [state.points EXCEPT ![a] = state.points[a] - burn]) = left - burn
  <2> DEFINE points == state.points
  <2>1. /\ points \in [Addresses -> Nat] /\ a \in Addresses /\ burn \in 0 .. points[a]
        /\ LastEntry(pool, a) = 0 => points[a] = 0
    BY <1>2, <1>3, <1>4
  <2> HIDE DEF points, a, after, paid, burned, left, amount, total
  <2>2. /\ Left(pool, points) \in Nat
        /\ Left(pool, [points EXCEPT ![a] = points[a] - burn]) = Left(pool, points) - burn
    BY <1>1, <2>1, LeftAfter
  <2> QED
    BY <2>2 DEF points, left
<1>11. paid \in Nat /\ burned \in Nat
  BY <1>3, PaidIsSum
<1>12. after \in FairStates(pool)
  <2>1. [state.points EXCEPT ![a] = state.points[a] - burn] \in [Addresses -> Nat]
    BY <1>2, <1>3, <1>4
  <2>2. after \in [points : [Addresses -> Nat], results : Seq(Result)]
    BY <1>5, <1>9, <2>1
  <2>3. (paid + local) * total <= amount * (burned + burn)
    <3> HIDE DEF paid, burned, amount, total
    <3>1. /\ (paid + local) * total = paid * total + local * total
          /\ amount * (burned + burn) = amount * burned + amount * burn
      BY <1>1, <1>4, <1>6, <1>11, MulOverSum
    <3>2. /\ paid * total \in Nat /\ local * total \in Nat
          /\ amount * burned \in Nat /\ amount * burn \in Nat
      BY <1>1, <1>4, <1>6, <1>11
    <3> DEFINE w == paid * total
               x == local * total
               y == amount * burned
               z == amount * burn
    <3>3. /\ w \in Nat /\ x \in Nat /\ y \in Nat /\ z \in Nat /\ w <= y /\ x <= z
          /\ (paid + local) * total = w + x /\ amount * (burned + burn) = y + z
      BY <1>3, <1>6, <3>1, <3>2
    <3> HIDE DEF w, x, y, z
    <3> QED
      BY <3>3
  <2>4. (burned + burn) + (left - burn) <= total
    <3> HIDE DEF burned, left, total
    <3> QED
      BY <1>1, <1>3, <1>4, <1>10, <1>11
  <2>5. ASSUME NEW b \in Addresses, LastEntry(pool, b) = 0 PROVE after.points[b] = 0
    <3>1. state.points[b] = 0
      BY <1>3, <2>5
    <3> QED
      BY <1>2, <1>3, <1>4, <1>8, <3>1
  <2> HIDE DEF after, burned, paid, left
  <2> QED
    BY <1>8, <1>9, <1>10, <2>2, <2>3, <2>4, <2>5 DEF FairStates
<1> QED
  BY <1>4, <1>7, <1>8, <1>12 DEF burn, local, result

\* A batch of withdrawals goes through fair states.
LEMMA WithdrawRunExists ==
  ASSUME NEW pool \in Balanced, pool.total # 0, NEW withdrawals \in Batch(Withdrawals)
  PROVE  \E acc \in [0 .. Len(withdrawals) -> FairStates(pool)] :
           WithdrawRun(acc, pool, FirstState(pool), withdrawals, Len(withdrawals))
<1> DEFINE n == Len(withdrawals)
           V == FairStates(pool)
           base == FirstState(pool)
<1>1. n \in Nat /\ DOMAIN withdrawals = 1 .. n /\ \A i \in 1 .. n : withdrawals[i] \in Withdrawals
  BY BatchFacts
<1>2. base \in V
  BY FirstStateIsFair
<1>3. ASSUME NEW i \in 1 .. n, NEW v \in V PROVE Withdraw(pool, v, withdrawals[i]) \in V
  <2> DEFINE withdrawal == withdrawals[i]
  <2>1. withdrawal \in Withdrawals
    BY <1>1
  <2> HIDE DEF withdrawal
  <2>2. Withdraw(pool, v, withdrawal) \in V
    BY <2>1, WithdrawFacts
  <2> QED
    BY <2>2 DEF withdrawal
<1> HIDE DEF n, V, base
<1>4. \E acc \in [0 .. n -> V] : WithdrawRun(acc, pool, base, withdrawals, n)
  BY <1>1, <1>2, <1>3, WithdrawHistory
<1> QED
  BY <1>4 DEF n, V, base

\* What a batch pays is at most the share of what it burns, and that is at most
\* what there is.
LEMMA ReportFacts ==
  ASSUME NEW pool \in Balanced, pool.total # 0, NEW withdrawals \in Batch(Withdrawals)
  PROVE  LET report == WithdrawalResults(pool, withdrawals)
         IN  /\ report \in Seq(Result)
             /\ Paid(report) \in Nat /\ BurnedBy(report) \in Nat
             /\ Paid(report) * pool.total <= pool.amount * BurnedBy(report)
             /\ BurnedBy(report) <= pool.total /\ Paid(report) <= pool.amount
<1> DEFINE report == WithdrawalResults(pool, withdrawals)
           n == Len(withdrawals)
<1>1. PICK acc \in [0 .. n -> FairStates(pool)] :
        WithdrawRun(acc, pool, FirstState(pool), withdrawals, n)
  BY WithdrawRunExists
<1>2. n \in 0 .. n
  BY BatchFacts
<1>3. report = acc[n].results /\ acc[n] \in FairStates(pool)
  BY <1>1, <1>2 DEF WithdrawRun, WithdrawalResults, WithdrawFold, FirstState
<1>4. /\ report \in Seq(Result) /\ acc[n].points \in [Addresses -> Nat]
      /\ Paid(report) * pool.total <= pool.amount * BurnedBy(report)
      /\ BurnedBy(report) + Left(pool, acc[n].points) <= pool.total
  BY <1>3 DEF FairStates
<1>5. pool \in PoolType /\ pool.amount \in Nat /\ pool.total \in Nat \ {0}
  BY DEF Balanced, PoolType
<1>6. Paid(report) \in Nat /\ BurnedBy(report) \in Nat
  BY <1>4, PaidIsSum
<1>7. Left(pool, acc[n].points) \in Nat
  <2> DEFINE left == acc[n].points
  <2>1. left \in [Addresses -> Nat]
    BY <1>4
  <2> HIDE DEF left
  <2>2. \A i \in 1 .. Len(pool.points) : LeftOf(pool, left)[i] \in Nat
    BY <1>5, <2>1, LeftOfFacts
  <2>3. IsFiniteSet(1 .. Len(pool.points))
    <3>1. Len(pool.points) \in Nat
      BY <1>5, <2>1, LeftOfFacts
    <3> QED
      BY <3>1, FS_Interval
  <2>4. Left(pool, left) \in Nat
    BY <2>2, <2>3, SumNat DEF Left
  <2> QED
    BY <2>4 DEF left
<1> HIDE DEF report, n
<1>8. BurnedBy(report) <= pool.total
  BY <1>4, <1>5, <1>6, <1>7
<1>9. Paid(report) <= pool.amount
  <2>1. pool.amount * BurnedBy(report) <= pool.amount * pool.total
    BY <1>5, <1>6, <1>8, MulMono
  <2>2. Paid(report) * pool.total <= pool.amount * pool.total
    <3> DEFINE x == Paid(report) * pool.total
               y == pool.amount * BurnedBy(report)
               z == pool.amount * pool.total
    <3>1. /\ x \in Nat /\ y \in Nat /\ z \in Nat
          /\ x <= y
          /\ y <= z
      <4>1. x \in Nat /\ y \in Nat /\ z \in Nat
        BY <1>5, <1>6
      <4>2. x <= y
        BY <1>4 DEF report
      <4> QED
        BY <2>1, <4>1, <4>2
    <3> HIDE DEF x, y, z
    <3>2. x <= z
      BY <3>1
    <3> QED
      BY <3>2 DEF x, z
  <2> QED
    BY <1>5, <1>6, <2>2, MulCancel
<1> QED
  BY <1>4, <1>6, <1>8, <1>9 DEF report


-----------------------------------------------------------------------------
(* The removal of what a batch burns. *)

\* A pool from whose entry j the points are taken.
TakenFrom(pool, j, points) ==
  LET left == pool.points[j].points - points
  IN  [pool EXCEPT !.total = @ - points,
                   !.points = IF left = 0 THEN RemoveAt(@, j)
                              ELSE [@ EXCEPT ![j].points = left]]

LEMMA RemovePointsCases ==
  ASSUME NEW pool, NEW address, NEW points, NEW q \in RemovePoints(pool, address, points)
  PROVE  \/ q = pool
         \/ \E j \in DOMAIN pool.points :
              /\ pool.points[j].address = address /\ ~(pool.points[j].points < points)
              /\ q = TakenFrom(pool, j, points)
  BY DEF RemovePoints, TakenFrom

\* The total that is kept follows the list.
LEMMA TakenFromFacts ==
  ASSUME NEW pool \in Balanced, NEW j \in DOMAIN pool.points, NEW points \in Nat,
         pool.points[j].points >= points
  PROVE  /\ TakenFrom(pool, j, points) \in Balanced
         /\ TakenFrom(pool, j, points).amount = pool.amount
         /\ TakenFrom(pool, j, points).total = pool.total - points
<1> DEFINE list == pool.points
           left == list[j].points - points
           shorter == IF left = 0 THEN RemoveAt(list, j)
                      ELSE [list EXCEPT ![j].points = left]
           q == TakenFrom(pool, j, points)
<1>1. /\ pool \in PoolType /\ list \in Seq(Entries) /\ pool.total = TotalOf(list)
      /\ pool.total \in Nat /\ pool.amount \in Nat
  BY DEF Balanced, PoolType
<1>2. j \in 1 .. Len(list) /\ list[j].points \in Nat /\ list[j].points >= points
  BY <1>1, EntriesFacts
<1>3. q = [pool EXCEPT !.total = @ - points, !.points = shorter]
  BY DEF TakenFrom
<1>4. left \in Nat /\ list[j].points = left + points
  BY <1>2
<1> HIDE DEF list, left, q
<1>5. list[j].points <= TotalOf(list)
  BY <1>1, <1>2, TotalAtLeast
<1>6. shorter \in Seq(Entries) /\ TotalOf(shorter) = TotalOf(list) - points
  <2>1. CASE left = 0
    <3>1. /\ RemoveAt(list, j) \in Seq(Entries)
          /\ TotalOf(RemoveAt(list, j)) = TotalOf(list) - list[j].points
      BY <1>1, <1>2, TotalRemoveAt
    <3>2. TotalOf(list) \in Int
      BY <1>1
    <3> QED
      BY <1>2, <1>4, <2>1, <3>1, <3>2
  <2>2. CASE left # 0
    <3>1. /\ [list EXCEPT ![j].points = left] \in Seq(Entries)
          /\ TotalOf([list EXCEPT ![j].points = left]) = TotalOf(list) - list[j].points + left
      BY <1>1, <1>2, <1>4, TotalExcept
    <3> HIDE DEF shorter
    <3>2. shorter = [list EXCEPT ![j].points = left]
      BY <2>2 DEF shorter
    <3>3. TotalOf(list) \in Int
      BY <1>1
    <3> QED
      BY <1>2, <1>4, <3>1, <3>2, <3>3
  <2> QED
    BY <2>1, <2>2
<1> HIDE DEF shorter
<1>7. pool.total - points \in Nat
  BY <1>1, <1>2, <1>5
<1>8. q \in PoolType
  BY <1>1, <1>3, <1>6, <1>7 DEF PoolType
<1>9. q.amount = pool.amount /\ q.points = shorter /\ q.total = pool.total - points
  BY <1>1, <1>3 DEF PoolType
<1>10. q.total = TotalOf(q.points)
  BY <1>1, <1>6, <1>9
<1> QED
  BY <1>8, <1>9, <1>10 DEF Balanced, q

LEMMA RemovePointsFacts ==
  ASSUME NEW pool \in Balanced, NEW address, NEW points \in Nat,
         NEW q \in RemovePoints(pool, address, points)
  PROVE  q \in Balanced /\ q.amount = pool.amount
<1>1. CASE q = pool
  BY <1>1
<1>2. ASSUME NEW j \in DOMAIN pool.points, ~(pool.points[j].points < points),
             q = TakenFrom(pool, j, points)
      PROVE  q \in Balanced /\ q.amount = pool.amount
  <2>1. pool.points[j].points \in Nat
    BY EntriesFacts DEF Balanced, PoolType
  <2>2. pool.points[j].points >= points
    BY <1>2, <2>1
  <2>3. TakenFrom(pool, j, points) \in Balanced /\ TakenFrom(pool, j, points).amount = pool.amount
    BY <2>2, TakenFromFacts
  <2> QED
    BY <1>2, <2>3
<1> QED
  BY <1>1, <1>2, RemovePointsCases

\* The removals go through pools that hold what the pool held.
LEMMA BurnRunExists ==
  ASSUME NEW pool \in Balanced, NEW paid \in Seq(Result)
  PROVE  \E acc \in [0 .. Len(paid) -> SUBSET {p \in Balanced : p.amount = pool.amount}] :
           BurnRun(acc, pool, paid, Len(paid))
<1> DEFINE n == Len(paid)
           same == {p \in Balanced : p.amount = pool.amount}
           V == SUBSET same
<1>1. n \in Nat /\ DOMAIN paid = 1 .. n /\ \A i \in 1 .. n : paid[i] \in Result
  BY ResultFacts
<1>2. {pool} \in V
  OBVIOUS
<1>3. ASSUME NEW i \in 1 .. n, NEW v \in V PROVE BurnOne(v, paid[i]) \in V
  <2> DEFINE result == paid[i]
  <2>1. result.pointsBurned \in Nat
    BY <1>1 DEF Result
  <2> HIDE DEF result
  <2>2. ASSUME NEW p \in v, NEW r \in RemovePoints(p, result.address, result.pointsBurned)
        PROVE  r \in same
    <3>1. p \in Balanced /\ p.amount = pool.amount
      OBVIOUS
    <3>2. r \in Balanced /\ r.amount = p.amount
      BY <2>1, <3>1, RemovePointsFacts
    <3> QED
      BY <3>1, <3>2
  <2> HIDE DEF same
  <2>3. BurnOne(v, result) \in V
    BY <2>2 DEF BurnOne
  <2> QED
    BY <2>3 DEF result
<1> HIDE DEF n, V
<1>4. \E acc \in [0 .. n -> V] : BurnRun(acc, pool, paid, n)
  BY <1>1, <1>2, <1>3, BurnHistory
<1> QED
  BY <1>4 DEF n, V

\* Whatever the removals leave holds what the pool held, and its points add up.
LEMMA BurnAllFacts ==
  ASSUME NEW pool \in Balanced, NEW paid \in Seq(Result), NEW q \in BurnAll(pool, paid)
  PROVE  q \in Balanced /\ q.amount = pool.amount
<1> DEFINE n == Len(paid)
           same == {p \in Balanced : p.amount = pool.amount}
<1>1. n \in 0 .. n
  BY ResultFacts
<1>2. PICK acc \in [0 .. n -> SUBSET same] : BurnRun(acc, pool, paid, n)
  BY BurnRunExists
<1>3. BurnAll(pool, paid) = acc[n] /\ acc[n] \in SUBSET same
  BY <1>1, <1>2 DEF BurnRun
<1> QED
  BY <1>3

-----------------------------------------------------------------------------
(* The invariant, and what a batch of withdrawals does to the pools. *)

EventsAreCurrent == \A i \in DOMAIN events : events[i].height = height

Inv == TypeOK /\ pools \in Ledgers /\ EventsAreCurrent /\ EventsBelongToBlock

LEMMA NothingIsPaid ==
  ASSUME NEW withdrawals \in Batch(Withdrawals)
  PROVE  /\ NothingWithdrawn(withdrawals) \in Seq(Result)
         /\ Paid(NothingWithdrawn(withdrawals)) = 0
         /\ BurnedBy(NothingWithdrawn(withdrawals)) = 0
<1> DEFINE n == Len(withdrawals)
           paid == NothingWithdrawn(withdrawals)
           nothing(i) == [address |-> withdrawals[i].address, pointsBurned |-> 0, localAmount |-> 0]
<1>1. n \in Nat /\ DOMAIN withdrawals = 1 .. n /\ \A i \in 1 .. n : withdrawals[i] \in Withdrawals
  BY BatchFacts
<1>2. paid = [i \in 1 .. n |-> nothing(i)]
  BY <1>1 DEF NothingWithdrawn
<1>3. \A i \in 1 .. n : /\ nothing(i) \in Result
                        /\ nothing(i).localAmount = 0 /\ nothing(i).pointsBurned = 0
  BY <1>1 DEF Withdrawals, Result
<1> HIDE DEF n, nothing, paid
<1>4. paid \in Seq(Result) /\ Len(paid) = n
  <2>1. paid \in [1 .. n -> Result]
    BY <1>2, <1>3
  <2>2. paid \in Seq(Result)
    BY <1>1, <2>1, SeqDef
  <2>3. DOMAIN paid = 1 .. n
    BY <2>1
  <2> QED
    BY <1>1, <2>2, <2>3, LenProperties
<1>5. \A i \in 1 .. n : LocalOf(paid)[i] = 0 /\ BurnedOf(paid)[i] = 0
  BY <1>2, <1>3, <1>4, ResultFacts
<1>6. IsFiniteSet(1 .. n)
  BY <1>1, FS_Interval
<1>7. SumFunctionOnSet(LocalOf(paid), 1 .. n) = 0
  BY <1>5, <1>6, SumZero
<1>8. SumFunctionOnSet(BurnedOf(paid), 1 .. n) = 0
  BY <1>5, <1>6, SumZero
<1> QED
  BY <1>4, <1>7, <1>8, PaidIsSum DEF paid, BurnedBy

\* What is paid is what the liquidity pool loses, and its points add up after.
LEMMA WithdrawalsStep ==
  ASSUME pools \in Ledgers, NEW withdrawals \in Batch(Withdrawals),
         ApplyBatchWithdrawals(withdrawals)
  PROVE  /\ pools' \in Ledgers
         /\ results' \in Seq(Result) /\ Paid(results') \in Nat
         /\ "liquidity" \in PoolIds
            => pools'["liquidity"].amount = pools["liquidity"].amount - Paid(results')
<1> DEFINE paid == results'
           first == pools["liquidity"]
           rest == [first EXCEPT !.amount = Max({@ - Paid(paid), 0})]
<1>1. DOMAIN pools = PoolIds
  BY DEF Ledgers
<1>2. CASE CanWithdraw
  <2>1. "liquidity" \in PoolIds /\ first.total # 0 /\ paid = WithdrawalResults(first, withdrawals)
    BY <1>1, <1>2 DEF CanWithdraw, ApplyBatchWithdrawals
  <2>2. PICK pool \in BurnAll(rest, paid) : pools' = [pools EXCEPT !["liquidity"] = pool]
    BY <1>2 DEF ApplyBatchWithdrawals
  <2>3. first \in Balanced
    BY <2>1 DEF Ledgers
  <2> HIDE DEF paid, first, rest
  <2>4. paid \in Seq(Result) /\ Paid(paid) \in Nat /\ Paid(paid) <= first.amount
    BY <2>1, <2>3, ReportFacts
  <2>5. first.amount \in Nat
    BY <2>3 DEF Balanced, PoolType
  <2>6. Max({first.amount - Paid(paid), 0}) = first.amount - Paid(paid)
    <3> DEFINE margin == first.amount - Paid(paid)
    <3>1. margin \in Nat
      BY <2>4, <2>5
    <3> HIDE DEF margin
    <3>2. margin \in Int /\ 0 \in Int
      BY <3>1
    <3>3. Max({margin, 0}) = IF margin >= 0 THEN margin ELSE 0
      BY <3>2, PairMinMax
    <3>4. Max({margin, 0}) = margin
      BY <3>1, <3>3
    <3> QED
      BY <3>4 DEF margin
  <2>7. rest = [first EXCEPT !.amount = first.amount - Paid(paid)]
    BY <2>6 DEF rest
  <2>8. first.amount - Paid(paid) \in Nat
    BY <2>4, <2>5
  <2>9. rest \in Balanced /\ rest.amount = first.amount - Paid(paid)
    BY <2>3, <2>7, <2>8 DEF Balanced, PoolType
  <2>10. pool \in Balanced /\ pool.amount = rest.amount
    BY <2>2, <2>4, <2>9, BurnAllFacts
  <2>11. pools' \in Ledgers /\ pools'["liquidity"] = pool
    BY <1>1, <2>1, <2>2, <2>10 DEF Ledgers
  <2> QED
    BY <2>4, <2>9, <2>10, <2>11 DEF paid, first
<1>3. CASE ~CanWithdraw
  <2>1. paid = NothingWithdrawn(withdrawals) /\ pools' = pools
    BY <1>3 DEF ApplyBatchWithdrawals
  <2>2. paid \in Seq(Result) /\ Paid(paid) = 0
    BY <2>1, NothingIsPaid
  <2>3. ASSUME "liquidity" \in PoolIds PROVE first.amount \in Nat
    BY <2>3 DEF Ledgers, Balanced, PoolType
  <2> QED
    BY <2>1, <2>2, <2>3
<1> QED
  BY <1>2, <1>3

\* The pools a chain is built with.
LEMMA FirstPools == Init => pools \in Ledgers
<1> SUFFICES ASSUME Init PROVE pools \in Ledgers
  OBVIOUS
<1> DEFINE entry == [address |-> Provider, points |-> FirstPoints]
           one == <<entry>>
<1>1. <<>> \in Seq(Entries) /\ TotalOf(<<>>) = 0
  <2>1. <<>> \in Seq(Entries) /\ Len(<<>>) = 0
    BY EmptySeq
  <2>2. 1 .. 0 = {}
    OBVIOUS
  <2>3. SumFunctionOnSet(PointsOf(<<>>), 1 .. Len(<<>>)) = 0
    BY <2>1, <2>2, SumEmpty
  <2> QED
    BY <2>1, <2>3, TotalIsSum
<1>2. entry \in Entries /\ entry.points = FirstPoints /\ FirstPoints \in Nat
  BY StateAssumption DEF Entries
<1>3. one = Append(<<>>, entry)
  OBVIOUS
<1> HIDE DEF entry, one
<1>4. one \in Seq(Entries) /\ TotalOf(one) = FirstPoints
  <2> DEFINE none == <<>>
  <2>1. none \in Seq(Entries) /\ TotalOf(none) = 0 /\ one = Append(none, entry)
    BY <1>1, <1>3
  <2> HIDE DEF none
  <2>2. /\ Append(none, entry) \in Seq(Entries)
        /\ TotalOf(Append(none, entry)) = TotalOf(none) + entry.points
    BY <1>2, <2>1, TotalAppend
  <2> QED
    BY <1>2, <2>1, <2>2
<1>5. \A amount \in Nat : Pool(amount) \in Balanced
  BY <1>1 DEF Pool, Balanced, PoolType
<1> DEFINE last == [amount |-> FirstLiquidity, points |-> one, total |-> FirstPoints]
<1>6. last \in Balanced
  <2>1. last \in PoolType /\ last.points = one /\ last.total = FirstPoints
    BY <1>2, <1>4, StateAssumption DEF PoolType
  <2> QED
    BY <1>4, <2>1 DEF Balanced
<1>7. Pool(0) \in Balanced /\ Pool(FirstHolding) \in Balanced
  BY <1>5, StateAssumption
<1>8. pools = [id \in PoolIds |-> CASE id = "reward" -> Pool(0)
                                    [] id = "holding" -> Pool(FirstHolding)
                                    [] id = "liquidity" -> last]
  BY DEF Init, one, entry
<1> HIDE DEF last
<1> QED
  BY <1>6, <1>7, <1>8, StateAssumption DEF Ledgers

-----------------------------------------------------------------------------
(* The steps. *)

LEMMA BlockFacts ==
  ASSUME NEW h \in 1 .. MaxHeight
  PROVE  /\ \A i \in DOMAIN SlashEvents(h) : SlashEvents(h)[i] = [type |-> "slash", height |-> h]
         /\ NonSignersAt(h) \in Seq(1 .. 3)
         /\ DoubleSignAt(h) \subseteq 0 .. MaxHeight
<1>1. h \in Nat \ {0} /\ MaxHeight \in Nat /\ h <= MaxHeight
  BY StateAssumption
<1>2. \A i \in DOMAIN SlashEvents(h) : SlashEvents(h)[i] = [type |-> "slash", height |-> h]
  BY DEF SlashEvents
<1>3. (h % 3) + 1 \in 1 .. 3 /\ (h % 2) + 1 \in 1 .. 3
  BY <1>1
<1>4. NonSignersAt(h) \in Seq(1 .. 3)
  BY <1>3 DEF NonSignersAt
<1>5. DoubleSignAt(h) \subseteq 0 .. MaxHeight
  BY <1>1 DEF DoubleSignAt
<1> QED
  BY <1>2, <1>4, <1>5

LEMMA InvInit == Init => Inv
<1> SUFFICES ASSUME Init PROVE Inv
  OBVIOUS
<1>1. pools \in Ledgers
  BY FirstPools
<1>2. pools \in [PoolIds -> [amount : Nat, points : Seq(Entries), total : Nat]]
  BY <1>1 DEF Ledgers, Balanced, PoolType
<1>3. height = 0 /\ events = <<>> /\ nonSigners = <<>> /\ doubleSign = {} /\ results = <<>>
      /\ blockEvents = [height |-> 0, events |-> <<>>]
  BY DEF Init
<1>4. DOMAIN <<>> = {} /\ <<>> \in Seq(1 .. 3)
  BY EmptySeq
<1>5. 0 \in 0 .. MaxHeight
  BY StateAssumption
<1>6. TypeOK
  BY <1>2, <1>3, <1>4, <1>5 DEF TypeOK
<1> QED
  BY <1>1, <1>3, <1>4, <1>6 DEF Inv, EventsAreCurrent, EventsBelongToBlock

\* A step that leaves the block alone.
LEMMA SameBlock ==
  ASSUME Inv, UNCHANGED block, pools' \in Ledgers,
         \A i \in DOMAIN results' : results'[i] \in Result
  PROVE  Inv'
<1>1. pools' \in [PoolIds -> [amount : Nat, points : Seq(Entries), total : Nat]]
  BY DEF Ledgers, Balanced, PoolType
<1>2. height' = height /\ events' = events /\ nonSigners' = nonSigners
      /\ doubleSign' = doubleSign /\ blockEvents' = blockEvents
  BY DEF block
<1>3. TypeOK'
  BY <1>1, <1>2 DEF Inv, TypeOK, Result
<1> QED
  BY <1>2, <1>3 DEF Inv, EventsAreCurrent, EventsBelongToBlock

LEMMA BeginBlockStep ==
  ASSUME Inv, height < MaxHeight, BeginBlock(height + 1)
  PROVE  /\ Inv'
         /\ "liquidity" \in PoolIds => pools'["liquidity"] = pools["liquidity"]
<1> DEFINE h == height + 1
<1>1. h \in 1 .. MaxHeight
  BY StateAssumption DEF Inv, TypeOK
<1>2. /\ height' = h /\ events' = SlashEvents(h) /\ nonSigners' = NonSignersAt(h)
      /\ doubleSign' = DoubleSignAt(h) /\ pools' = Credit(pools, "reward", Inflation)
      /\ results' = <<>> /\ blockEvents' = blockEvents
  BY DEF BeginBlock
<1> HIDE DEF h
<1>3. /\ \A i \in DOMAIN events' : events'[i] = [type |-> "slash", height |-> h]
      /\ nonSigners' \in Seq(1 .. 3) /\ doubleSign' \subseteq 0 .. MaxHeight
  BY <1>1, <1>2, BlockFacts
<1>4. /\ pools' \in Ledgers
      /\ \A i \in PoolIds : i # "reward" => pools'[i] = pools[i]
  <2> DEFINE p == pools
             id == "reward"
             after == Credit(p, id, Inflation)
  <2>1. p \in Ledgers /\ Inflation \in Nat
    BY StateAssumption DEF Inv
  <2> HIDE DEF p, id
  <2>2. /\ after \in Ledgers
        /\ \A i \in PoolIds : i # id => after[i] = p[i]
        /\ id \in PoolIds => after[id] = [p[id] EXCEPT !.amount = @ + Inflation]
    BY <2>1, CreditFacts
  <2> QED
    BY <1>2, <2>2 DEF p, id
<1>5. pools' \in [PoolIds -> [amount : Nat, points : Seq(Entries), total : Nat]]
  BY <1>4 DEF Ledgers, Balanced, PoolType
<1>6. h \in 0 .. MaxHeight /\ DOMAIN <<>> = {}
  BY <1>1
<1>7. TypeOK'
  BY <1>1, <1>2, <1>3, <1>5, <1>6 DEF Inv, TypeOK
<1> QED
  BY <1>2, <1>3, <1>4, <1>7 DEF Inv, EventsAreCurrent, EventsBelongToBlock

LEMMA EndBlockStep ==
  ASSUME Inv, EndBlock
  PROVE  Inv' /\ pools' = pools
<1>1. /\ blockEvents' = [height |-> height, events |-> events] /\ results' = <<>>
      /\ height' = height /\ events' = events /\ nonSigners' = nonSigners
      /\ doubleSign' = doubleSign /\ pools' = pools
  BY DEF EndBlock
<1>2. blockEvents'.height = height /\ blockEvents'.events = events /\ DOMAIN <<>> = {}
  BY <1>1
<1>3. TypeOK'
  BY <1>1, <1>2 DEF Inv, TypeOK
<1> QED
  BY <1>1, <1>2, <1>3 DEF Inv, EventsAreCurrent, EventsBelongToBlock

LEMMA OrdersStep ==
  ASSUME Inv, NEW orders \in Batch(OrderAmounts), ApplyBatchOrders(orders)
  PROVE  /\ Inv'
         /\ "liquidity" \in PoolIds => pools'["liquidity"] = pools["liquidity"]
<1>1. pools' = OrdersFold(pools, orders) /\ results' = <<>> /\ UNCHANGED block
  BY DEF ApplyBatchOrders, OrdersFold
<1>2. pools' \in Ledgers /\ \A i \in PoolIds : i # "holding" => pools'[i] = pools[i]
  BY <1>1, OrdersFacts DEF Inv
<1>3. DOMAIN <<>> = {}
  OBVIOUS
<1> QED
  BY <1>1, <1>2, <1>3, SameBlock

LEMMA DepositsStep ==
  ASSUME Inv, NEW deposits \in Batch(Deposits), ApplyBatchDeposits(deposits)
  PROVE  LET deposited == pools'["liquidity"].amount - pools["liquidity"].amount
         IN  /\ Inv'
             /\ {"holding", "liquidity"} \subseteq PoolIds
                => Covered(deposited, pools["holding"].amount, pools'["holding"].amount)
<1>1. pools' = DepositsFold(pools, deposits) /\ results' = <<>> /\ UNCHANGED block
  BY DEF ApplyBatchDeposits, DepositsFold
<1> DEFINE deposited == pools'["liquidity"].amount - pools["liquidity"].amount
<1>2. /\ pools' \in Ledgers
      /\ {"holding", "liquidity"} \subseteq PoolIds
         => Covered(deposited, pools["holding"].amount, pools'["holding"].amount)
  BY <1>1, DepositsFacts DEF Inv
<1>3. DOMAIN <<>> = {}
  OBVIOUS
<1>4. Inv'
  BY <1>1, <1>2, <1>3, SameBlock
<1> QED
  BY <1>2, <1>4

LEMMA InvStep == Inv /\ [Next]_vars => Inv'
<1> SUFFICES ASSUME Inv, [Next]_vars PROVE Inv'
  OBVIOUS
<1>1. CASE height < MaxHeight /\ BeginBlock(height + 1)
  BY <1>1, BeginBlockStep
<1>2. CASE EndBlock
  BY <1>2, EndBlockStep
<1>3. ASSUME NEW orders \in Batch(OrderAmounts), ApplyBatchOrders(orders) PROVE Inv'
  BY <1>3, OrdersStep
<1>4. ASSUME NEW deposits \in Batch(Deposits), ApplyBatchDeposits(deposits) PROVE Inv'
  BY <1>4, DepositsStep
<1>5. ASSUME NEW withdrawals \in Batch(Withdrawals), ApplyBatchWithdrawals(withdrawals)
      PROVE  Inv'
  <2>1. pools' \in Ledgers /\ results' \in Seq(Result)
    BY <1>5, WithdrawalsStep DEF Inv
  <2>2. \A i \in DOMAIN results' : results'[i] \in Result
    BY <2>1, ResultFacts
  <2>3. UNCHANGED block
    BY <1>5 DEF ApplyBatchWithdrawals
  <2> QED
    BY <2>1, <2>2, <2>3, SameBlock
<1>6. CASE UNCHANGED vars
  BY <1>6 DEF vars, block, Inv, TypeOK, EventsAreCurrent, EventsBelongToBlock
<1> QED
  BY <1>1, <1>2, <1>3, <1>4, <1>5, <1>6 DEF Next

\* The invariant of the mutable ledger, for every chain of calls.
THEOREM Invariance == Spec => []Inv
  BY InvInit, InvStep, PTL DEF Spec

\* What the calls leave has the types of the program's fields: no removal takes
\* more points than there are, no payment more than the pool has.
THEOREM TypeCorrect == Spec => []TypeOK
<1>1. Inv => TypeOK
  BY DEF Inv
<1> QED
  BY <1>1, Invariance, PTL

\* The total that prices a point is the sum of the list of points, whatever
\* batches are applied and whichever entries the removals take from.
THEOREM TotalsFollowTheLists == Spec => []PointsAddUp
<1>1. Inv => PointsAddUp
  BY DEF Inv, PointsAddUp, Ledgers, Balanced, TotalOf
<1> QED
  BY <1>1, Invariance, PTL

\* endBlock never returns an event of another block than the one it ends.
THEOREM EventsAreOfTheirBlock == Spec => []EventsBelongToBlock
<1>1. Inv => EventsBelongToBlock
  BY DEF Inv
<1> QED
  BY <1>1, Invariance, PTL

\* What a batch of withdrawals reports as paid is what the pool loses, however
\* many withdrawals of one address it has.
THEOREM PaymentsLeaveThePool == Spec => WithdrawalsArePaid
<1> DEFINE Paying == results' # <<>> /\ "liquidity" \in PoolIds
                       => pools'["liquidity"].amount = pools["liquidity"].amount - Paid(results')
<1>1. Inv /\ [Next]_vars => [Paying]_vars
  <2> SUFFICES ASSUME Inv, Next PROVE Paying
    OBVIOUS
  <2>1. CASE results' = <<>>
    BY <2>1
  <2>2. ASSUME NEW withdrawals \in Batch(Withdrawals), ApplyBatchWithdrawals(withdrawals)
        PROVE  Paying
    BY <2>2, WithdrawalsStep DEF Inv
  <2> QED
    BY <2>1, <2>2 DEF Next, BeginBlock, EndBlock, ApplyBatchOrders, ApplyBatchDeposits
<1> QED
  BY <1>1, Invariance, PTL DEF Spec, WithdrawalsArePaid

\* What a batch of deposits puts into the liquidity pool it takes from the holding
\* pool, but for the deposits the holding pool cannot cover.
THEOREM DepositsOnlyMove == Spec => DepositsMoveFunds
<1> DEFINE deposited == pools'["liquidity"].amount - pools["liquidity"].amount
           Moving == {"holding", "liquidity"} \subseteq PoolIds =>
                       LET moved == pools["holding"].amount - pools'["holding"].amount
                           made == deposited - moved
                       IN  deposited > 0 =>
                             /\ made \in 0 .. deposited
                             /\ made > 0 => made > pools'["holding"].amount
<1>1. Inv /\ [Next]_vars => [Moving]_vars
  <2> SUFFICES ASSUME Inv, Next, {"holding", "liquidity"} \subseteq PoolIds, deposited > 0
               PROVE  Covered(deposited, pools["holding"].amount, pools'["holding"].amount)
    BY DEF Covered
  <2>1. pools["liquidity"].amount \in Nat
    BY DEF Inv, Ledgers, Balanced, PoolType
  <2>2. ASSUME pools'["liquidity"] = pools["liquidity"] PROVE FALSE
    BY <2>1, <2>2
  <2>3. ASSUME NEW deposits \in Batch(Deposits), ApplyBatchDeposits(deposits)
        PROVE  Covered(deposited, pools["holding"].amount, pools'["holding"].amount)
    BY <2>3, DepositsStep
  <2>4. ASSUME NEW withdrawals \in Batch(Withdrawals), ApplyBatchWithdrawals(withdrawals)
        PROVE  FALSE
    <3>1. /\ Paid(results') \in Nat
          /\ pools'["liquidity"].amount = pools["liquidity"].amount - Paid(results')
      BY <2>4, WithdrawalsStep DEF Inv
    <3> QED
      BY <2>1, <3>1
  <2> QED
    BY <2>2, <2>3, <2>4, BeginBlockStep, EndBlockStep, OrdersStep DEF Next
<1> QED
  BY <1>1, Invariance, PTL DEF Spec, DepositsMoveFunds

-----------------------------------------------------------------------------
(* A batch of withdrawals when no address has two entries: the pools the     *)
(* removals go through keep step with the lookup the payments are made from. *)

OneEntryIn(list) ==
  \A i \in 1 .. Len(list) : \A j \in 1 .. Len(list) : list[i].address = list[j].address => i = j

\* The list has the points of the lookup, and nothing of the lookup is missing.
Matches(list, points) ==
  /\ OneEntryIn(list)
  /\ \A i \in 1 .. Len(list) : list[i].points = points[list[i].address]
  /\ \A a \in Addresses : points[a] # 0 => \E i \in 1 .. Len(list) : list[i].address = a

LEMMA FirstMatches ==
  ASSUME NEW pool \in PoolType, OneEntryIn(pool.points)
  PROVE  Matches(pool.points, PointsByAddress(pool))
<1> DEFINE list == pool.points
           n == Len(list)
           lookup == PointsByAddress(pool)
<1>1. list \in Seq(Entries) /\ n \in Nat /\ \A i \in 1 .. n : list[i] \in Entries
  BY EntriesFacts DEF PoolType
<1>2. ASSUME NEW a \in Addresses
      PROVE  /\ LastEntry(pool, a) = 0 => lookup[a] = 0
             /\ LastEntry(pool, a) # 0 => /\ LastEntry(pool, a) \in 1 .. n
                                          /\ list[LastEntry(pool, a)].address = a
                                          /\ lookup[a] = list[LastEntry(pool, a)].points
             /\ LastEntry(pool, a) = 0 => \A i \in 1 .. n : list[i].address # a
  BY LastEntryFacts, LookupFacts
<1>3. ASSUME NEW i \in 1 .. n PROVE list[i].points = lookup[list[i].address]
  <2> DEFINE a == list[i].address
             last == LastEntry(pool, a)
  <2>1. a \in Addresses
    BY <1>1 DEF Entries
  <2> HIDE DEF a, list, n, lookup
  <2>2. last # 0 /\ last \in 1 .. n /\ list[last].address = a /\ lookup[a] = list[last].points
    BY <1>2, <2>1 DEF a
  <2>3. last = i
    BY <2>2 DEF OneEntryIn, a, list, n
  <2> QED
    BY <2>2, <2>3 DEF a
<1>4. ASSUME NEW a \in Addresses, lookup[a] # 0 PROVE \E i \in 1 .. n : list[i].address = a
  <2> HIDE DEF list, n, lookup
  <2> QED
    BY <1>2, <1>4
<1> QED
  BY <1>3, <1>4 DEF Matches

\* Taking points from the entry of an address follows taking them from the
\* lookup: the entry that has none left goes, and nobody else's is touched.
LEMMA TakingMatches ==
  ASSUME NEW list \in Seq(Entries), NEW points \in [Addresses -> Nat], Matches(list, points),
         NEW j \in 1 .. Len(list), NEW burn \in 1 .. list[j].points
  PROVE  LET a == list[j].address
             left == list[j].points - burn
         IN  Matches(IF left = 0 THEN RemoveAt(list, j) ELSE [list EXCEPT ![j].points = left],
                     [points EXCEPT ![a] = points[a] - burn])
<1> DEFINE n == Len(list)
           a == list[j].address
           left == list[j].points - burn
           fewer == [points EXCEPT ![a] = points[a] - burn]
<1>1. /\ n \in Nat /\ \A i \in 1 .. n : /\ list[i] \in Entries /\ list[i].points \in Nat
                                         /\ list[i].address \in Addresses
      /\ DOMAIN list = 1 .. n
  BY EntriesFacts DEF Entries
<1>2. /\ \A i \in 1 .. n : \A k \in 1 .. n : list[i].address = list[k].address => i = k
      /\ \A i \in 1 .. n : list[i].points = points[list[i].address]
      /\ \A b \in Addresses : points[b] # 0 => \E i \in 1 .. n : list[i].address = b
  BY DEF Matches, OneEntryIn
<1>3. a \in Addresses /\ points[a] = list[j].points /\ left \in Nat
  BY <1>1, <1>2
<1>4. /\ fewer[a] = left
      /\ \A b \in Addresses : b # a => fewer[b] = points[b]
  BY <1>3
<1>5. \A i \in 1 .. n : i # j => list[i].address # a
  BY <1>2
<1>6. a = list[j].address
  OBVIOUS
<1> HIDE DEF a, left, fewer, n
<1>7. CASE left = 0
  <2> DEFINE shorter == RemoveAt(list, j)
             Old(i) == IF i < j THEN i ELSE i + 1
  <2>1. /\ Len(shorter) = n - 1
        /\ \A i \in 1 .. n - 1 : shorter[i] = IF i < j THEN list[i] ELSE list[i + 1]
    BY RemoveAtFacts DEF n
  <2> HIDE DEF shorter
  <2>2. j \in 1 .. n
    BY DEF n
  <2>3. \A i \in 1 .. n - 1 : Old(i) \in 1 .. n /\ Old(i) # j /\ shorter[i] = list[Old(i)]
    BY <1>1, <2>1, <2>2
  <2>4. \A i \in 1 .. n - 1 : \A k \in 1 .. n - 1 : Old(i) = Old(k) => i = k
    BY <1>1, <2>2
  <2>5. \A i \in 1 .. n : i # j => \E k \in 1 .. n - 1 : Old(k) = i
    <3>1. ASSUME NEW i \in 1 .. n, i # j PROVE \E k \in 1 .. n - 1 : Old(k) = i
      <4>1. CASE i < j
        BY <1>1, <2>2, <4>1
      <4>2. CASE i > j
        <5>1. i - 1 \in 1 .. n - 1 /\ Old(i - 1) = i
          BY <1>1, <2>2, <4>2
        <5> QED
          BY <5>1
      <4> QED
        BY <2>2, <3>1, <4>1, <4>2
    <3> QED
      BY <3>1
  <2> HIDE DEF Old
  <2>6. \A i \in 1 .. n - 1 : \A k \in 1 .. n - 1 : shorter[i].address = shorter[k].address => i = k
    BY <1>2, <2>3, <2>4
  <2>7. ASSUME NEW i \in 1 .. n - 1 PROVE shorter[i].points = fewer[shorter[i].address]
    BY <1>1, <1>2, <1>4, <1>5, <2>3
  <2>8. ASSUME NEW b \in Addresses, fewer[b] # 0
        PROVE  \E i \in 1 .. n - 1 : shorter[i].address = b
    <3>1. b # a /\ points[b] # 0
      BY <1>4, <1>7, <2>8
    <3>2. PICK i \in 1 .. n : list[i].address = b
      BY <1>2, <3>1
    <3>3. i # j
      BY <1>6, <3>1, <3>2
    <3>4. PICK k \in 1 .. n - 1 : Old(k) = i
      BY <2>5, <3>3
    <3> QED
      BY <2>3, <3>2, <3>4
  <2>9. Matches(shorter, fewer)
    BY <2>1, <2>6, <2>7, <2>8 DEF Matches, OneEntryIn
  <2> QED
    BY <1>7, <2>9 DEF shorter, fewer, left, a
<1>8. CASE left # 0
  <2> DEFINE other == [list EXCEPT ![j].points = left]
  <2>1. j \in 1 .. n
    BY DEF n
  <2>2. Len(other) = n
    BY <1>3, TotalExcept DEF n
  <2>3. \A i \in 1 .. n : /\ other[i].address = list[i].address
                          /\ other[i].points = IF i = j THEN left ELSE list[i].points
    <3>1. \A i \in 1 .. n : other[i] = IF i = j THEN [list[j] EXCEPT !.points = left] ELSE list[i]
      BY <1>1
    <3>2. list[j] \in Entries
      BY <1>1, <2>1
    <3>3. /\ [list[j] EXCEPT !.points = left].address = list[j].address
          /\ [list[j] EXCEPT !.points = left].points = left
      BY <3>2 DEF Entries
    <3> QED
      BY <3>1, <3>3
  <2> HIDE DEF other
  <2>4. \A i \in 1 .. n : \A k \in 1 .. n : other[i].address = other[k].address => i = k
    BY <1>2, <2>3
  <2>5. ASSUME NEW i \in 1 .. n PROVE other[i].points = fewer[other[i].address]
    BY <1>1, <1>2, <1>4, <1>5, <1>6, <2>3
  <2>6. ASSUME NEW b \in Addresses, fewer[b] # 0 PROVE \E i \in 1 .. n : other[i].address = b
    <3>1. \E i \in 1 .. n : list[i].address = b
      BY <1>2, <1>4, <1>6, <2>1, <2>6
    <3> QED
      BY <2>3, <3>1
  <2>7. Matches(other, fewer)
    BY <2>2, <2>4, <2>5, <2>6 DEF Matches, OneEntryIn
  <2> QED
    BY <1>8, <2>7 DEF other, fewer, left, a
<1> QED
  BY <1>7, <1>8

\* What a withdrawal reports.
ResultOf(pool, state, withdrawal) ==
  LET burn == Burn(state.points[withdrawal.address], withdrawal.percent)
  IN  [address |-> withdrawal.address, pointsBurned |-> burn,
       localAmount |-> SafeMulDiv(pool.amount, burn, pool.total)]

\* A batch reports on its withdrawals in their order.
LEMMA ReportOrder ==
  ASSUME NEW pool \in Balanced, pool.total # 0, NEW n \in Nat, NEW withdrawals,
         \A k \in 1 .. n : withdrawals[k] \in Withdrawals,
         NEW acc \in [0 .. n -> FairStates(pool)],
         WithdrawRun(acc, pool, FirstState(pool), withdrawals, n)
  PROVE  /\ Len(acc[n].results) = n
         /\ \A k \in 1 .. n : acc[n].results[k] = ResultOf(pool, acc[k - 1], withdrawals[k])
<1> DEFINE T == {k \in Nat : k <= n =>
                   /\ acc[k].results \in Seq(Result) /\ Len(acc[k].results) = k
                   /\ \A m \in 1 .. k : acc[k].results[m] = ResultOf(pool, acc[m - 1], withdrawals[m])}
<1>1. \A k \in 0 .. n : acc[k] \in FairStates(pool) /\ acc[k].results \in Seq(Result)
  BY DEF FairStates
<1>2. 0 \in T
  <2>1. acc[0].results = <<>> /\ 0 \in 0 .. n
    BY DEF WithdrawRun, FirstState
  <2>2. Len(<<>>) = 0 /\ 1 .. 0 = {}
    BY EmptySeq
  <2> QED
    BY <1>1, <2>1, <2>2
<1>3. ASSUME NEW k \in T PROVE k + 1 \in T
  <2> SUFFICES ASSUME k + 1 <= n PROVE k + 1 \in T
    OBVIOUS
  <2> DEFINE state == acc[k]
             withdrawal == withdrawals[k + 1]
             result == ResultOf(pool, state, withdrawal)
             longer == Append(state.results, result)
  <2>1. k \in Nat /\ k <= n /\ k \in 0 .. n /\ k + 1 \in 1 .. n /\ (k + 1) - 1 = k
    OBVIOUS
  <2>2. /\ state.results \in Seq(Result) /\ Len(state.results) = k
        /\ \A m \in 1 .. k : state.results[m] = ResultOf(pool, acc[m - 1], withdrawals[m])
    BY <2>1
  <2>3. acc[k + 1] = Withdraw(pool, state, withdrawal)
    BY <2>1 DEF WithdrawRun
  <2>4. state \in FairStates(pool) /\ withdrawal \in Withdrawals
    BY <1>1, <2>1
  <2> HIDE DEF state, withdrawal
  <2>5. result \in Result /\ acc[k + 1].results = longer
    <3> DEFINE after == Withdraw(pool, state, withdrawal)
    <3>1. result \in Result /\ after.results = longer
      BY <2>4, WithdrawFacts DEF ResultOf
    <3> QED
      BY <2>3, <3>1
  <2> HIDE DEF result
  <2>6. /\ longer \in Seq(Result) /\ Len(longer) = k + 1 /\ longer[k + 1] = result
        /\ \A m \in 1 .. k : longer[m] = state.results[m]
    BY <2>1, <2>2, <2>5, AppendProperties
  <2> HIDE DEF longer
  <2>7. result = ResultOf(pool, acc[(k + 1) - 1], withdrawals[k + 1])
    BY <2>1 DEF result, state, withdrawal
  <2>8. \A m \in 1 .. k + 1 : longer[m] = ResultOf(pool, acc[m - 1], withdrawals[m])
    <3> SUFFICES ASSUME NEW m \in 1 .. k + 1
                 PROVE  longer[m] = ResultOf(pool, acc[m - 1], withdrawals[m])
      OBVIOUS
    <3>1. CASE m = k + 1
      BY <2>6, <2>7, <3>1
    <3>2. CASE m \in 1 .. k
      BY <2>2, <2>6, <3>2
    <3> QED
      BY <2>1, <3>1, <3>2
  <2> QED
    BY <2>1, <2>5, <2>6, <2>8
<1> HIDE DEF T
<1>4. T = Nat
  BY <1>2, <1>3, NatSetInduction DEF T
<1>5. n \in T /\ n <= n
  BY <1>4
<1> QED
  BY <1>5 DEF T

\* What a removal for one result does to a pool that matches the lookup before:
\* it succeeds, and leaves a pool that matches the lookup after.
LEMMA RemovalMatches ==
  ASSUME NEW q \in Balanced, NEW points \in [Addresses -> Nat], Matches(q.points, points),
         NEW a \in Addresses, NEW burn \in Nat, burn # 0, burn <= points[a],
         NEW r \in RemovePoints(q, a, burn)
  PROVE  /\ r \in Balanced /\ r.total = q.total - burn
         /\ Matches(r.points, [points EXCEPT ![a] = points[a] - burn])
<1> DEFINE list == q.points
           n == Len(list)
<1>1. list \in Seq(Entries) /\ DOMAIN list = 1 .. n /\ n \in Nat /\ q.total \in Nat
      /\ \A i \in 1 .. n : list[i].points \in Nat /\ list[i].address \in Addresses
  BY EntriesFacts DEF Balanced, PoolType, Entries
<1>2. PICK i \in 1 .. n : list[i].address = a
  <2>1. points[a] # 0
    BY SMT
  <2> QED
    BY <2>1 DEF Matches
<1>3. ASSUME NEW j \in 1 .. n, list[j].address = a PROVE list[j].points = points[a]
  BY <1>3 DEF Matches
<1>4. PICK j \in 1 .. n : /\ list[j].address = a
                          /\ r = IF list[j].points < burn THEN q ELSE TakenFrom(q, j, burn)
  <2>1. \A j \in 1 .. n : list[j].address = a => j \in {k \in DOMAIN list : list[k].address = a}
    BY <1>1
  <2>2. {k \in DOMAIN list : list[k].address = a} # {}
    BY <1>2, <2>1
  <2>3. RemovePoints(q, a, burn) = {IF list[j].points < burn THEN q ELSE TakenFrom(q, j, burn) :
                                      j \in {k \in DOMAIN list : list[k].address = a}}
    BY <2>2 DEF RemovePoints, TakenFrom
  <2> QED
    BY <1>1, <2>3
<1>5. list[j].points = points[a] /\ list[j].points \in Nat /\ burn \in 1 .. list[j].points
  BY <1>1, <1>3, <1>4
<1>6. r = TakenFrom(q, j, burn)
  BY <1>4, <1>5
<1>7. r \in Balanced /\ r.total = q.total - burn
  BY <1>1, <1>5, <1>6, TakenFromFacts
<1>8. r.points = LET left == list[j].points - burn
                 IN  IF left = 0 THEN RemoveAt(list, j) ELSE [list EXCEPT ![j].points = left]
  BY <1>6 DEF TakenFrom, Balanced, PoolType
<1>9. Matches(r.points, [points EXCEPT ![a] = points[a] - burn])
  <2> DEFINE left == list[j].points - burn
             after == IF left = 0 THEN RemoveAt(list, j) ELSE [list EXCEPT ![j].points = left]
  <2> HIDE DEF list
  <2>1. Matches(list, points) /\ j \in 1 .. Len(list)
    BY DEF list
  <2>2. Matches(after, [points EXCEPT ![list[j].address] = points[list[j].address] - burn])
    BY <1>1, <1>5, <2>1, TakingMatches
  <2> HIDE DEF after
  <2>3. r.points = after
    BY <1>8 DEF after
  <2> QED
    BY <1>4, <2>2, <2>3
<1> QED
  BY <1>7, <1>9

\* The removals take what the batch reports as burned, whichever way they go.
LEMMA RemovalsSucceed ==
  ASSUME NEW pool \in Balanced, pool.total # 0, OneEntryIn(pool.points),
         NEW withdrawals \in Batch(Withdrawals),
         NEW rest \in Balanced, rest.points = pool.points, rest.total = pool.total,
         NEW left \in BurnAll(rest, WithdrawalResults(pool, withdrawals))
  PROVE  left.total + BurnedBy(WithdrawalResults(pool, withdrawals)) = pool.total
<1> DEFINE n == Len(withdrawals)
           report == WithdrawalResults(pool, withdrawals)
           Follows(q, state) == /\ q \in Balanced /\ Matches(q.points, state.points)
                                /\ q.total + BurnedBy(state.results) = pool.total
<1>1. n \in Nat /\ \A k \in 1 .. n : withdrawals[k] \in Withdrawals
  BY BatchFacts
<1>2. PICK acc \in [0 .. n -> FairStates(pool)] :
        WithdrawRun(acc, pool, FirstState(pool), withdrawals, n)
  BY WithdrawRunExists
<1>3. \A k \in 0 .. n : /\ acc[k] \in FairStates(pool) /\ acc[k].results \in Seq(Result)
                        /\ acc[k].points \in [Addresses -> Nat]
  BY DEF FairStates
<1>4. report = acc[n].results
  BY <1>2 DEF WithdrawRun, WithdrawalResults, WithdrawFold, FirstState
<1>5. report \in Seq(Result)
  BY <1>1, <1>3, <1>4
<1> HIDE DEF n
<1>6. Len(report) = n /\ \A k \in 1 .. n : report[k] = ResultOf(pool, acc[k - 1], withdrawals[k])
  <2> HIDE DEF report
  <2>1. /\ Len(acc[n].results) = n
        /\ \A k \in 1 .. n : acc[n].results[k] = ResultOf(pool, acc[k - 1], withdrawals[k])
    BY <1>1, <1>2, ReportOrder
  <2> QED
    BY <1>4, <2>1
<1> HIDE DEF report
<1>7. PICK outcomes \in [0 .. n -> SUBSET {p \in Balanced : p.amount = rest.amount}] :
        BurnRun(outcomes, rest, report, n)
  BY <1>5, <1>6, BurnRunExists
<1> DEFINE T == {k \in Nat : k <= n => \A q \in outcomes[k] : Follows(q, acc[k])}
<1>8. 0 \in T
  <2>1. outcomes[0] = {rest} /\ acc[0] = FirstState(pool)
    BY <1>2, <1>7 DEF BurnRun, WithdrawRun
  <2>2. pool \in PoolType /\ pool.total \in Nat
    BY DEF Balanced, PoolType
  <2>3. Matches(pool.points, PointsByAddress(pool))
    BY <2>2, FirstMatches
  <2>4. acc[0].points = PointsByAddress(pool) /\ acc[0].results = <<>>
    BY <2>1 DEF FirstState
  <2>5. BurnedBy(<<>>) = 0
    <3>1. Len(<<>>) = 0 /\ 1 .. 0 = {}
      BY EmptySeq
    <3> QED
      BY <3>1, SumEmpty DEF BurnedBy
  <2> QED
    BY <2>1, <2>2, <2>3, <2>4, <2>5
<1>9. ASSUME NEW k \in T PROVE k + 1 \in T
  <2> SUFFICES ASSUME k + 1 <= n, NEW r \in outcomes[k + 1] PROVE Follows(r, acc[k + 1])
    OBVIOUS
  <2> DEFINE state == acc[k]
             withdrawal == withdrawals[k + 1]
             a == withdrawal.address
             burn == Burn(state.points[a], withdrawal.percent)
             result == ResultOf(pool, state, withdrawal)
             after == Withdraw(pool, state, withdrawal)
  <2>1. k \in Nat /\ k <= n /\ k \in 0 .. n /\ k + 1 \in 1 .. n /\ (k + 1) - 1 = k
    BY <1>1
  <2>2. \A q \in outcomes[k] : Follows(q, state)
    BY <2>1
  <2>3. acc[k + 1] = after /\ report[k + 1] = result
    BY <1>2, <1>6, <2>1 DEF WithdrawRun
  <2>4. outcomes[k + 1] = BurnOne(outcomes[k], result)
    BY <1>7, <2>1, <2>3 DEF BurnRun
  <2>5. /\ state \in FairStates(pool) /\ withdrawal \in Withdrawals
        /\ state.results \in Seq(Result) /\ state.points \in [Addresses -> Nat]
    BY <1>1, <1>3, <2>1
  <2>6. a \in Addresses
    BY <2>5 DEF Withdrawals
  <2> HIDE DEF state, withdrawal
  <2>7. /\ burn \in 0 .. state.points[a] /\ result \in Result
        /\ after.points = [state.points EXCEPT ![a] = state.points[a] - burn]
        /\ after.results = Append(state.results, result)
    BY <2>5, WithdrawFacts DEF ResultOf
  <2>8. result.address = a /\ result.pointsBurned = burn
    BY DEF ResultOf
  <2> HIDE DEF result, after, burn, a
  <2>9. BurnedBy(after.results) = BurnedBy(state.results) + burn
    BY <2>5, <2>7, <2>8, ReportAppend
  <2>10. burn \in Nat /\ state.points[a] \in Nat /\ burn <= state.points[a]
    BY <2>5, <2>6, <2>7
  <2>11. BurnedBy(state.results) \in Nat
    BY <2>5, PaidIsSum
  <2>12. CASE burn = 0
    <3>1. r \in outcomes[k] /\ after.points = state.points
      <4>1. r \in outcomes[k]
        BY <2>4, <2>8, <2>12 DEF BurnOne
      <4> DEFINE points == state.points
      <4>2. points \in [Addresses -> Nat] /\ points[a] - burn = points[a]
        BY <2>5, <2>10, <2>12
      <4> HIDE DEF points
      <4>3. [points EXCEPT ![a] = points[a]] = points
        BY <4>2
      <4> QED
        BY <2>7, <4>1, <4>2, <4>3 DEF points
    <3>2. Follows(r, state)
      BY <2>2, <3>1
    <3>3. BurnedBy(after.results) = BurnedBy(state.results)
      BY <2>9, <2>11, <2>12
    <3> QED
      BY <2>3, <3>1, <3>2, <3>3
  <2>13. CASE burn # 0
    <3>1. PICK q \in outcomes[k] : r \in RemovePoints(q, a, burn)
      BY <2>4, <2>8, <2>13 DEF BurnOne
    <3>2. /\ q \in Balanced /\ Matches(q.points, state.points)
          /\ q.total + BurnedBy(state.results) = pool.total
      BY <2>2, <3>1
    <3> DEFINE points == state.points
    <3>3. points \in [Addresses -> Nat] /\ burn <= points[a] /\ Matches(q.points, points)
      BY <2>5, <2>10, <3>2
    <3> HIDE DEF points
    <3>4. /\ r \in Balanced /\ r.total = q.total - burn
          /\ Matches(r.points, [points EXCEPT ![a] = points[a] - burn])
      BY <2>6, <2>10, <2>13, <3>1, <3>2, <3>3, RemovalMatches
    <3>5. Matches(r.points, after.points)
      BY <2>7, <3>4 DEF points
    <3>6. q.total \in Nat /\ r.total \in Nat
      BY <3>2, <3>4 DEF Balanced, PoolType
    <3>7. r.total + BurnedBy(after.results) = pool.total
      BY <2>9, <2>10, <2>11, <3>2, <3>4, <3>6
    <3> QED
      BY <2>3, <3>4, <3>5, <3>7
  <2> QED
    BY <2>12, <2>13
<1> HIDE DEF T, Follows
<1>10. T = Nat
  BY <1>8, <1>9, NatSetInduction DEF T
<1>11. left \in outcomes[n]
  BY <1>7 DEF BurnRun, report
<1>12. Follows(left, acc[n])
  BY <1>1, <1>10, <1>11 DEF T
<1> QED
  BY <1>4, <1>12 DEF Follows, report

\* What is burned is worth at least what is paid, so a point that stays is worth
\* no less.
LEMMA PriceAfter ==
  ASSUME NEW amount \in Nat, NEW total \in Nat, NEW paid \in Nat, NEW burned \in Nat,
         NEW left \in Nat, left + burned = total, paid <= amount,
         paid * total <= amount * burned
  PROVE  (amount - paid) * total >= amount * left
<1> DEFINE stays == amount - paid
<1>1. stays \in Nat /\ stays + paid = amount
  OBVIOUS
<1> HIDE DEF stays
<1>2. amount * total = stays * total + paid * total
  BY <1>1, MulOverSum
<1>3. amount * total = amount * left + amount * burned
  BY MulOverSum
<1> DEFINE w == stays * total
           x == paid * total
           y == amount * left
           z == amount * burned
           all == amount * total
<1>4. w \in Nat /\ x \in Nat /\ y \in Nat /\ z \in Nat /\ x <= z /\ all = w + x /\ all = y + z
  BY <1>1, <1>2, <1>3
<1> HIDE DEF w, x, y, z, all
<1>5. w >= y
  BY <1>4
<1> QED
  BY <1>5 DEF w, y, stays

\* As long as no address has two entries, whatever a batch of withdrawals does
\* leaves a point worth at least what it was worth.
THEOREM NobodyElsePays == Spec => SharesKeepTheirValue
<1> DEFINE old == pools["liquidity"]
           new == pools'["liquidity"]
           Keeping == results' # <<>> /\ "liquidity" \in PoolIds /\ OneEntryEach
                        => new.amount * old.total >= old.amount * new.total
<1>1. Inv /\ [Next]_vars => [Keeping]_vars
  <2> SUFFICES ASSUME Inv, Next, results' # <<>>, "liquidity" \in PoolIds, OneEntryEach
               PROVE  new.amount * old.total >= old.amount * new.total
    OBVIOUS
  <2>1. PICK withdrawals \in Batch(Withdrawals) : ApplyBatchWithdrawals(withdrawals)
    BY DEF Next, BeginBlock, EndBlock, ApplyBatchOrders, ApplyBatchDeposits
  <2>2. /\ pools' \in Ledgers /\ results' \in Seq(Result) /\ Paid(results') \in Nat
        /\ new.amount = old.amount - Paid(results')
    BY <2>1, WithdrawalsStep DEF Inv
  <2>3. old \in Balanced /\ new \in Balanced /\ DOMAIN pools = PoolIds
    BY <2>2 DEF Inv, Ledgers
  <2>4. /\ old.amount \in Nat /\ old.total \in Nat /\ old.points \in Seq(Entries)
        /\ new.amount \in Nat /\ new.total \in Nat
    BY <2>3 DEF Balanced, PoolType
  <2>5. CASE CanWithdraw
    <3> DEFINE paid == results'
               rest == [old EXCEPT !.amount = Max({@ - Paid(paid), 0})]
    <3>1. old.total # 0 /\ paid = WithdrawalResults(old, withdrawals)
      BY <2>1, <2>5 DEF CanWithdraw, ApplyBatchWithdrawals
    <3>2. PICK pool \in BurnAll(rest, paid) : pools' = [pools EXCEPT !["liquidity"] = pool]
      BY <2>1, <2>5 DEF ApplyBatchWithdrawals
    <3>3. new = pool
      BY <2>3, <3>2
    <3> HIDE DEF old, new, paid, rest
    <3>4. /\ Paid(paid) \in Nat /\ BurnedBy(paid) \in Nat
          /\ Paid(paid) * old.total <= old.amount * BurnedBy(paid)
          /\ Paid(paid) <= old.amount
      BY <2>3, <3>1, ReportFacts
    <3>5. Max({old.amount - Paid(paid), 0}) \in Nat
      <4> DEFINE margin == old.amount - Paid(paid)
      <4>1. margin \in Int /\ 0 \in Int /\ margin \in Nat
        BY <2>4, <3>4
      <4> HIDE DEF margin
      <4>2. Max({margin, 0}) = IF margin >= 0 THEN margin ELSE 0
        BY <4>1, PairMinMax
      <4> QED
        BY <4>1, <4>2 DEF margin
    <3>6. rest \in Balanced /\ rest.points = old.points /\ rest.total = old.total
      BY <2>3, <3>5 DEF Balanced, PoolType, rest
    <3>7. OneEntryIn(old.points)
      BY <2>4, EntriesFacts DEF OneEntryEach, OneEntryIn, old
    <3>8. new.total + BurnedBy(paid) = old.total
      BY <2>3, <3>1, <3>2, <3>3, <3>6, <3>7, RemovalsSucceed
    <3>9. new.amount = old.amount - Paid(paid)
      BY <2>2 DEF paid
    <3>10. (old.amount - Paid(paid)) * old.total >= old.amount * new.total
      BY <2>4, <3>4, <3>8, PriceAfter
    <3> QED
      BY <3>9, <3>10
  <2>6. CASE ~CanWithdraw
    <3>1. pools' = pools
      BY <2>1, <2>6 DEF ApplyBatchWithdrawals
    <3>2. new = old
      BY <3>1
    <3>3. old.amount * old.total \in Nat
      BY <2>4
    <3> QED
      BY <3>2, <3>3
  <2> QED
    BY <2>5, <2>6
<1> QED
  BY <1>1, Invariance, PTL DEF Spec, SharesKeepTheirValue

\* The removals take at most what the batch reports as burned, also from a list with
\* several entries of one address.
LEMMA RemovalsTakeAtMost ==
  ASSUME NEW rest \in Balanced, NEW paid \in Seq(Result), NEW left \in BurnAll(rest, paid)
  PROVE  left.total <= rest.total /\ rest.total <= left.total + BurnedBy(paid)
<1> DEFINE n == Len(paid)
           f == BurnedOf(paid)
           upto(k) == SumFunctionOnSet(f, 1 .. k)
           Within(q, k) == /\ q \in Balanced /\ q.total <= rest.total
                           /\ rest.total <= q.total + upto(k)
<1>1. n \in Nat /\ \A k \in 1 .. n : f[k] = paid[k].pointsBurned /\ f[k] \in Nat
  BY ResultFacts
<1>2. BurnedBy(paid) = upto(n)
  BY DEF BurnedBy
<1>3. rest.total \in Nat
  BY DEF Balanced, PoolType
<1> HIDE DEF n, f
<1>4. PICK outcomes \in [0 .. n -> SUBSET {p \in Balanced : p.amount = rest.amount}] :
        BurnRun(outcomes, rest, paid, n)
  BY BurnRunExists DEF n
<1> DEFINE T == {k \in Nat : k <= n => \A q \in outcomes[k] : Within(q, k)}
<1>5. 0 \in T
  <2>1. outcomes[0] = {rest}
    BY <1>4 DEF BurnRun
  <2>2. upto(0) = 0
    <3>1. 1 .. 0 = {}
      OBVIOUS
    <3> QED
      BY <3>1, SumEmpty
  <2> QED
    BY <1>3, <2>1, <2>2
<1>6. ASSUME NEW k \in T PROVE k + 1 \in T
  <2> SUFFICES ASSUME k + 1 <= n, NEW r \in outcomes[k + 1] PROVE Within(r, k + 1)
    OBVIOUS
  <2> DEFINE result == paid[k + 1]
             burn == result.pointsBurned
  <2>1. k \in Nat /\ k <= n /\ k + 1 \in 1 .. n /\ (k + 1) - 1 = k
    BY <1>1
  <2>2. \A q \in outcomes[k] : Within(q, k)
    BY <2>1
  <2>3. outcomes[k + 1] = BurnOne(outcomes[k], result)
    BY <1>4, <2>1 DEF BurnRun
  <2>4. burn \in Nat /\ upto(k + 1) = upto(k) + burn /\ upto(k) \in Nat
    <3>1. \A i \in 1 .. k + 1 : f[i] \in Int
      BY <1>1, <2>1
    <3>2. upto(k + 1) = upto(k) + f[k + 1]
      BY <2>1, <3>1, SumOfPrefix
    <3>3. \A i \in 1 .. k : f[i] \in Nat
      BY <1>1, <2>1
    <3>4. IsFiniteSet(1 .. k)
      BY <2>1, FS_Interval
    <3>5. upto(k) \in Nat
      BY <3>3, <3>4, SumNat
    <3> QED
      BY <1>1, <2>1, <3>2, <3>5
  <2>5. PICK q \in outcomes[k] : r = q \/ r \in RemovePoints(q, result.address, burn)
    BY <2>3 DEF BurnOne
  <2> HIDE DEF upto, burn
  <2>6. /\ q \in Balanced /\ q.total \in Nat /\ q.total <= rest.total
        /\ rest.total <= q.total + upto(k)
    BY <2>2 DEF Balanced, PoolType
  <2>7. CASE r = q
    BY <1>3, <2>4, <2>6, <2>7
  <2>8. CASE r # q
    <3>1. PICK j \in DOMAIN q.points : ~(q.points[j].points < burn) /\ r = TakenFrom(q, j, burn)
      BY <2>5, <2>8, RemovePointsCases
    <3>2. q.points[j].points \in Nat /\ q.points[j].points >= burn
      <4>1. q.points \in Seq(Entries)
        BY <2>6 DEF Balanced, PoolType
      <4>2. q.points[j].points \in Nat
        BY <4>1, EntriesFacts
      <4> QED
        BY <2>4, <3>1, <4>2
    <3>3. r \in Balanced /\ r.total = q.total - burn
      BY <2>4, <2>6, <3>1, <3>2, TakenFromFacts
    <3>4. r.total \in Nat
      BY <3>3 DEF Balanced, PoolType
    <3> QED
      BY <1>3, <2>4, <2>6, <3>3, <3>4
  <2> QED
    BY <2>7, <2>8
<1> HIDE DEF T, Within
<1>7. T = Nat
  BY <1>5, <1>6, NatSetInduction DEF T
<1>8. left \in outcomes[n]
  BY <1>4 DEF BurnRun
<1>9. Within(left, n)
  BY <1>1, <1>7, <1>8 DEF T
<1> QED
  BY <1>2, <1>9 DEF Within

LEMMA BurnedIsSum ==
  ASSUME NEW paid \in Seq(Result)
  PROVE  Burned(paid) = BurnedBy(paid) /\ Burned(paid) \in Nat
<1>1. DOMAIN paid = 1 .. Len(paid) /\ BurnedBy(paid) \in Nat
  BY ResultFacts, PaidIsSum
<1> QED
  BY <1>1 DEF Burned, BurnedBy, BurnedOf

\* However the entries of the pool lie, what a batch burns is there, covers what is
\* paid, and is all that leaves the list; with one entry for each address, all of
\* it leaves.
THEOREM BurnsArePaidFor == Spec => BurnsAreCovered
<1> DEFINE old == pools["liquidity"]
           new == pools'["liquidity"]
           gone == old.total - new.total
           burned == Burned(results')
           Covering == results' # <<>> /\ "liquidity" \in PoolIds =>
                         /\ burned <= old.total
                         /\ Paid(results') * old.total <= old.amount * burned
                         /\ gone \in 0 .. burned
                         /\ OneEntryEach => gone = burned
<1>1. Inv /\ [Next]_vars => [Covering]_vars
  <2> SUFFICES ASSUME Inv, Next, results' # <<>>, "liquidity" \in PoolIds
               PROVE  /\ burned <= old.total
                      /\ Paid(results') * old.total <= old.amount * burned
                      /\ gone \in 0 .. burned
                      /\ OneEntryEach => gone = burned
    OBVIOUS
  <2>1. PICK withdrawals \in Batch(Withdrawals) : ApplyBatchWithdrawals(withdrawals)
    BY DEF Next, BeginBlock, EndBlock, ApplyBatchOrders, ApplyBatchDeposits
  <2>2. /\ pools' \in Ledgers /\ results' \in Seq(Result) /\ Paid(results') \in Nat
        /\ new.amount = old.amount - Paid(results')
    BY <2>1, WithdrawalsStep DEF Inv
  <2>3. old \in Balanced /\ new \in Balanced /\ DOMAIN pools = PoolIds
    BY <2>2 DEF Inv, Ledgers
  <2>4. /\ old.amount \in Nat /\ old.total \in Nat /\ old.points \in Seq(Entries)
        /\ new.total \in Nat
    BY <2>3 DEF Balanced, PoolType
  <2>5. burned = BurnedBy(results') /\ burned \in Nat
    BY <2>2, BurnedIsSum
  <2>6. CASE CanWithdraw
    <3> DEFINE paid == results'
               rest == [old EXCEPT !.amount = Max({@ - Paid(paid), 0})]
    <3>1. old.total # 0 /\ paid = WithdrawalResults(old, withdrawals)
      BY <2>1, <2>6 DEF CanWithdraw, ApplyBatchWithdrawals
    <3>2. PICK pool \in BurnAll(rest, paid) : pools' = [pools EXCEPT !["liquidity"] = pool]
      BY <2>1, <2>6 DEF ApplyBatchWithdrawals
    <3>3. new = pool
      BY <2>3, <3>2
    <3> HIDE DEF old, new, paid, rest, burned
    <3>4. /\ Paid(paid) \in Nat /\ BurnedBy(paid) \in Nat
          /\ Paid(paid) * old.total <= old.amount * BurnedBy(paid)
          /\ BurnedBy(paid) <= old.total /\ Paid(paid) <= old.amount
      BY <2>3, <3>1, ReportFacts
    <3>5. Max({old.amount - Paid(paid), 0}) \in Nat
      <4> DEFINE margin == old.amount - Paid(paid)
      <4>1. margin \in Int /\ 0 \in Int /\ margin \in Nat
        BY <2>4, <3>4
      <4> HIDE DEF margin
      <4>2. Max({margin, 0}) = IF margin >= 0 THEN margin ELSE 0
        BY <4>1, PairMinMax
      <4> QED
        BY <4>1, <4>2 DEF margin
    <3>6. rest \in Balanced /\ rest.points = old.points /\ rest.total = old.total
      BY <2>3, <3>5 DEF Balanced, PoolType, rest
    <3>7. burned = BurnedBy(paid) /\ paid \in Seq(Result)
      BY <2>2, <2>5 DEF paid
    <3>8. new.total <= old.total /\ old.total <= new.total + BurnedBy(paid)
      BY <3>2, <3>3, <3>6, <3>7, RemovalsTakeAtMost
    <3>9. gone \in 0 .. burned
      BY <2>4, <2>5, <3>7, <3>8
    <3>10. ASSUME OneEntryEach PROVE gone = burned
      <4>1. OneEntryIn(old.points)
        BY <2>4, <3>10, EntriesFacts DEF OneEntryEach, OneEntryIn, old
      <4>2. new.total + BurnedBy(paid) = old.total
        BY <2>3, <3>1, <3>2, <3>3, <3>6, <4>1, RemovalsSucceed
      <4> QED
        BY <2>4, <2>5, <3>7, <4>2
    <3>11. Paid(results') * old.total <= old.amount * burned
      BY <3>4, <3>7 DEF paid
    <3>12. burned <= old.total
      BY <3>4, <3>7
    <3> QED
      BY <3>9, <3>10, <3>11, <3>12
  <2>7. CASE ~CanWithdraw
    <3>1. pools' = pools /\ results' = NothingWithdrawn(withdrawals)
      BY <2>1, <2>7 DEF ApplyBatchWithdrawals
    <3>2. Paid(results') = 0 /\ burned = 0
      BY <2>5, <3>1, NothingIsPaid
    <3>3. gone = 0
      BY <2>4, <3>1
    <3> HIDE DEF old, gone, burned
    <3>4. Paid(results') * old.total <= old.amount * burned
      <4>1. old.amount \in Nat /\ old.total \in Nat
        BY <2>4
      <4>2. 0 * old.total = 0 /\ old.amount * 0 = 0
        BY <4>1
      <4> QED
        BY <3>2, <4>2
    <3> QED
      BY <2>4, <3>2, <3>3, <3>4
  <2> QED
    BY <2>6, <2>7
<1> QED
  BY <1>1, Invariance, PTL DEF Spec, BurnsAreCovered
=============================================================================
