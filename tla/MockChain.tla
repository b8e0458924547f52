------------------------------ MODULE MockChain ------------------------------
(***************************************************************************)
(* The chain builder of mockserver/internal/chain/mock_data.go.            *)
(*                                                                         *)
(* newMockChain derives the validators and the genesis snapshot and then   *)
(* runs one loop over the heights.  A turn of the loop stores, in this     *)
(* order, the height's transactions, events, block, locked dex batch, next *)
(* dex batch, state snapshot and certificate in seven Go maps.  Several of *)
(* these stores read what an earlier one left behind, so the order of the  *)
(* stores matters; every store is an action here.                          *)
(*                                                                         *)
(* What the program samples from hash-seeded generators (transaction       *)
(* counts and types, events, balances, unstaking heights) is a             *)
(* nondeterministic choice here.  A SHA-256 hash is represented by the     *)
(* thing that is hashed, and a Go map by a function on the keys present.   *)
(***************************************************************************)
EXTENDS Integers, Sequences, FiniteSets, Functions

CONSTANTS
  NumBlocks,          \* numBlocks, the number of heights to build
  ValidatorOptions,   \* arguments WithValidatorCount is given; 0 if it is not used
  DefaultValidators,  \* validators without the option (10 in the code)
  UnstakeHeights,     \* heights UnstakeHeightFor may schedule
  DoubleSignPeriod,   \* heights between two double-sign evidences (30 in the code)
  DrawnLabels,        \* bound: transaction and event labels that are drawn
  MaxTxs,             \* bound: transactions per block
  MaxEvents,          \* bound: events per block
  Nil                 \* Go's nil

ASSUME ChainAssumption ==
  /\ NumBlocks \in Nat
  /\ ValidatorOptions \subseteq Nat
  /\ DefaultValidators \in Nat \ {0}
  /\ UnstakeHeights \subseteq Nat \ {0}
  /\ DoubleSignPeriod \in Nat \ {0, 1}
  /\ MaxTxs \in Nat
  /\ MaxEvents \in Nat

VARIABLES
  validatorOption,  \* cfg.validatorCount
  profile,          \* the traffic profile
  unstakeAt,        \* per validator, the height at which it unstakes
  pc,               \* the statement newMockChain executes next
  height,           \* the loop's height
  lockedBatch,      \* mc.lockedBatch
  txs, events, blocks, dexBatches, nextDexBatches, states, certs  \* mc's maps

config == <<validatorOption, profile, unstakeAt>>
maps == <<txs, events, blocks, dexBatches, nextDexBatches, states, certs>>
vars == <<config, pc, height, lockedBatch, maps>>

Heights == 1 .. NumBlocks

-----------------------------------------------------------------------------
(* Go maps, hashes and the other helpers. *)

EmptyMap == [h \in {} |-> Nil]

Put(map, key, value) ==
  [k \in DOMAIN map \cup {key} |-> IF k = key THEN value ELSE map[k]]

Get(map, key) == IF key \in DOMAIN map THEN map[key] ELSE Nil

\* The hash of a block depends on its height alone; genesis has the zero hash.
BlockHash(h) == IF h = 0 THEN <<"zero", 0>> ELSE <<"block", h>>

ValidatorCount == IF validatorOption > 0 THEN validatorOption ELSE DefaultValidators

Validators == 1 .. ValidatorCount

ValidatorStatusAt(v, h) == IF h < unstakeAt[v] THEN "active" ELSE "unstaked"

LatestHeight == Cardinality(DOMAIN blocks)

-----------------------------------------------------------------------------
(* The generators and constructors. *)

\* Only the busy profile draws certificate results, and it never leaves a
\* block empty.
TxCounts == IF profile = "busy" THEN 1 .. MaxTxs ELSE 0 .. MaxTxs

BusyLabels == {"send", "dexLimitOrder", "editStake", "certResults",
               "dexLiqDeposit", "stake", "unstake", "dexLiqWithdraw"}
QuietLabels == {"dexLiqDeposit", "editStake", "dexLimitOrder"}

TxLabels ==
  DrawnLabels \cap (IF profile = "busy" THEN BusyLabels ELSE QuietLabels)

EventLabels ==
  DrawnLabels \cap ({"dexSwap", "reward", "dexLiquidityDeposit"}
                      \cup (IF profile = "busy" THEN {"other"} ELSE {}))

\* The account the hash of a number picks.  A block's senders, recipients and event
\* addresses are all picked this way, from the height plus the slot: the recipient
\* of a slot is the sender of the next, and an event's address the sender of the
\* transaction in its slot.
PickAccount(n) == <<"account", n>>

ClosedFormEvent(label, h, i) ==
  [height  |-> h,
   address |-> PickAccount(h + i - 1),
   type    |-> IF label \in {"dexSwap", "dexLiquidityDeposit"} THEN label ELSE "reward"]

\* Mutant: the certificate slashes for the snapshot before.
DoubleSignersOfParent(h) ==
  IF h - 1 \in DOMAIN states THEN states[h - 1].doubleSigners ELSE {}

DoubleSigners(h) ==
  IF h \in DOMAIN states THEN states[h].doubleSigners ELSE {}

\* Mutant: without its block, the certificate names the parent's.
BuildCertificateOnParent(h) ==
  [height    |-> h,
   blockHash |-> IF h \in DOMAIN blocks THEN blocks[h].hash ELSE BlockHash(h - 1),
   dexBatch  |-> Get(dexBatches, h),
   slashed   |-> DoubleSigners(h)]

\* buildCertificateForTx reads the block, the locked batch and the snapshot
\* of the height from the maps, and falls back when they are not there yet.
BuildCertificate(h) ==
  [height    |-> h,
   blockHash |-> IF h \in DOMAIN blocks THEN blocks[h].hash ELSE BlockHash(h),
   dexBatch  |-> Get(dexBatches, h),
   slashed   |-> DoubleSigners(h)]

TxResult(label, h, i) ==
  [height    |-> h,
   index     |-> i - 1,
   sender    |-> PickAccount(h + i - 1),
   recipient |-> PickAccount(h + i),
   message   |-> label,
   qc        |-> IF label = "certResults" THEN BuildCertificate(h) ELSE Nil]

\* Mutant: the transactions of the earlier blocks are not counted.
GenerateBlockUncounted(h, blockTxs, blockEvents) ==
  [height       |-> h,
   hash         |-> BlockHash(h),
   lastHash     |-> BlockHash(h - 1),
   numTxs       |-> Len(blockTxs),
   totalTxs     |-> Len(blockTxs),
   transactions |-> blockTxs,
   events       |-> blockEvents]

GenerateBlock(h, blockTxs, blockEvents) ==
  [height       |-> h,
   hash         |-> BlockHash(h),
   lastHash     |-> BlockHash(h - 1),
   numTxs       |-> Len(blockTxs),
   totalTxs     |-> Len(blockTxs)
                      + (IF h - 1 \in DOMAIN blocks THEN blocks[h - 1].totalTxs ELSE 0),
   transactions |-> blockTxs,
   events       |-> blockEvents]

GenerateDexBatch(h, next) == [lockedHeight |-> h, livenessFallback |-> next]

NonSignersAt(h) ==
  IF ValidatorCount >= 2 THEN <<(h % 3) + 1, (h % 2) + 1>> ELSE <<>>

\* Mutant: no guard against height zero.
DoubleSignersAtAnyHeight(h) ==
  IF h % DoubleSignPeriod = 0 /\ ValidatorCount >= 2
  THEN {[id |-> 2, heights |-> {h - 1, h}]}
  ELSE {}

\* Mutant: evidence for the height and the one after.
DoubleSignersAtAhead(h) ==
  IF h > 0 /\ h % DoubleSignPeriod = 0 /\ ValidatorCount >= 2
  THEN {[id |-> 2, heights |-> {h, h + 1}]}
  ELSE {}

\* Evidence against the second validator, for the height and the one before.
DoubleSignersAt(h) ==
  IF h > 0 /\ h % DoubleSignPeriod = 0 /\ ValidatorCount >= 2
  THEN {[id |-> 2, heights |-> {h - 1, h}]}
  ELSE {}

SnapshotStateAt(h) ==
  [height        |-> h,
   unstaking     |-> [v \in Validators |->
                        IF ValidatorStatusAt(v, h) = "unstaked" THEN unstakeAt[v] ELSE 0],
   nonSigners    |-> NonSignersAt(h),
   doubleSigners |-> DoubleSignersAt(h)]

-----------------------------------------------------------------------------
Init ==
  /\ validatorOption \in ValidatorOptions
  /\ profile \in {"busy", "quiet"}
  /\ unstakeAt = EmptyMap
  /\ pc = "setup"
  /\ height = 1
  /\ lockedBatch = Nil
  /\ txs = EmptyMap
  /\ events = EmptyMap
  /\ blocks = EmptyMap
  /\ dexBatches = EmptyMap
  /\ nextDexBatches = EmptyMap
  /\ states = EmptyMap
  /\ certs = EmptyMap

\* Mutant: the last height is not built.
LoopHeadStopsEarly(h) == IF h < NumBlocks THEN "txs" ELSE "done"

\* The head of the loop: the next height, or the end of newMockChain.
LoopHead(h) == IF h <= NumBlocks THEN "txs" ELSE "done"

\* Validators, accounts, pools, order books and the other fixed data.
Setup ==
  /\ pc = "setup"
  /\ ValidatorCount >= 2
  /\ unstakeAt' \in [Validators -> UnstakeHeights]
  /\ pc' = "genesis"
  /\ UNCHANGED <<validatorOption, profile, height, lockedBatch, maps>>

\* buildOrderBooks indexes the second validator without looking at the count.
SetupPanics ==
  /\ pc = "setup"
  /\ ValidatorCount < 2
  /\ pc' = "panicked"
  /\ UNCHANGED <<config, height, lockedBatch, maps>>

Genesis ==
  /\ pc = "genesis"
  /\ lockedBatch' = GenerateDexBatch(0, FALSE)
  /\ states' = Put(states, 0, SnapshotStateAt(0))
  /\ pc' = LoopHead(height)
  /\ UNCHANGED <<config, height, txs, events, blocks, dexBatches, nextDexBatches, certs>>

\* The code stores the two lists when it has generated both; neither generator
\* reads the map the other's list goes to.
GenerateTxs ==
  /\ pc = "txs"
  /\ \E count \in TxCounts : \E labels \in [1 .. count -> TxLabels] :
       txs' = Put(txs, height, [i \in 1 .. count |-> TxResult(labels[i], height, i)])
  /\ pc' = "events"
  /\ UNCHANGED <<config, height, lockedBatch,
                 events, blocks, dexBatches, nextDexBatches, states, certs>>

GenerateEvents ==
  /\ pc = "events"
  /\ \E count \in 0 .. MaxEvents : \E labels \in [1 .. count -> EventLabels] :
       events' = Put(events, height, [i \in 1 .. count |-> ClosedFormEvent(labels[i], height, i)])
  /\ pc' = "block"
  /\ UNCHANGED <<config, height, lockedBatch,
                 txs, blocks, dexBatches, nextDexBatches, states, certs>>

\* Mutant: an empty block is not stored.
StoreBlockUnlessEmpty ==
  /\ pc = "block"
  /\ blocks' = IF txs[height] = <<>> THEN blocks
               ELSE Put(blocks, height, GenerateBlock(height, txs[height], events[height]))
  /\ pc' = "dexBatch"
  /\ UNCHANGED <<config, height, lockedBatch,
                 txs, events, dexBatches, nextDexBatches, states, certs>>

StoreBlock ==
  /\ pc = "block"
  /\ blocks' = Put(blocks, height, GenerateBlock(height, txs[height], events[height]))
  /\ pc' = "dexBatch"
  /\ UNCHANGED <<config, height, lockedBatch,
                 txs, events, dexBatches, nextDexBatches, states, certs>>

StoreDexBatch ==
  /\ pc = "dexBatch"
  /\ dexBatches' = Put(dexBatches, height, lockedBatch)
  /\ pc' = "nextDexBatch"
  /\ UNCHANGED <<config, height, lockedBatch,
                 txs, events, blocks, nextDexBatches, states, certs>>

\* Mutant: one batch object is updated and shared by all heights.
StoreNextDexBatchShared ==
  /\ pc = "nextDexBatch"
  /\ nextDexBatches' = [h \in DOMAIN nextDexBatches \cup {height} |-> GenerateDexBatch(height, TRUE)]
  /\ pc' = "state"
  /\ UNCHANGED <<config, height, lockedBatch,
                 txs, events, blocks, dexBatches, states, certs>>

StoreNextDexBatch ==
  /\ pc = "nextDexBatch"
  /\ nextDexBatches' = Put(nextDexBatches, height, GenerateDexBatch(height, TRUE))
  /\ pc' = "state"
  /\ UNCHANGED <<config, height, lockedBatch,
                 txs, events, blocks, dexBatches, states, certs>>

StoreState ==
  /\ pc = "state"
  /\ states' = Put(states, height, SnapshotStateAt(height))
  /\ pc' = "cert"
  /\ UNCHANGED <<config, height, lockedBatch,
                 txs, events, blocks, dexBatches, nextDexBatches, certs>>

\* Mutant: the loop does not advance.
StoreCertAgain ==
  /\ pc = "cert"
  /\ certs' = Put(certs, height, BuildCertificate(height))
  /\ pc' = LoopHead(height)
  /\ UNCHANGED <<config, height, lockedBatch,
                 txs, events, blocks, dexBatches, nextDexBatches, states>>

StoreCert ==
  /\ pc = "cert"
  /\ certs' = Put(certs, height, BuildCertificate(height))
  /\ height' = height + 1
  /\ pc' = LoopHead(height')
  /\ UNCHANGED <<config, lockedBatch,
                 txs, events, blocks, dexBatches, nextDexBatches, states>>

Next ==
  \/ Setup
  \/ SetupPanics
  \/ Genesis
  \/ GenerateTxs
  \/ GenerateEvents
  \/ StoreBlock
  \/ StoreDexBatch
  \/ StoreNextDexBatch
  \/ StoreState
  \/ StoreCert

Spec == Init /\ [][Next]_vars

\* The builder is straight-line code of one goroutine: it keeps running.
FairSpec == Spec /\ WF_vars(Next)

-----------------------------------------------------------------------------
(* Types. *)

Batches == [lockedHeight : 0 .. NumBlocks, livenessFallback : BOOLEAN]
Hashes == {"zero", "block"} \X (0 .. NumBlocks)
Evidence == [id : {2}, heights : SUBSET (0 .. NumBlocks)]
Certificates ==
  [height : Heights, blockHash : Hashes, dexBatch : Batches \cup {Nil},
   slashed : SUBSET Evidence]
Accounts == {"account"} \X Nat
TxResults ==
  [height : Heights, index : Nat, sender : Accounts, recipient : Accounts,
   message : TxLabels, qc : Certificates \cup {Nil}]
Events ==
  [height : Heights, address : Accounts, type : {"dexSwap", "reward", "dexLiquidityDeposit"}]
BlockResults ==
  [height : Heights, hash : Hashes, lastHash : Hashes, numTxs : Nat, totalTxs : Nat,
   transactions : Seq(TxResults), events : Seq(Events)]
Snapshots ==
  [height : 0 .. NumBlocks, unstaking : [Validators -> UnstakeHeights \cup {0}],
   nonSigners : Seq(Nat), doubleSigners : SUBSET Evidence]

\* map is a Go map from heights up to the head to values in S.
GoMap(map, S) == DOMAIN map \subseteq 0 .. NumBlocks /\ map \in [DOMAIN map -> S]

Stages == {"setup", "genesis", "txs", "events", "block", "dexBatch", "nextDexBatch",
           "state", "cert", "done", "panicked"}

\* Every map of the chain holds values of its Go type, and every height an
\* evidence names is a height the chain has: the subtraction height - 1 of
\* snapshotStateAt never wraps around, not even in the genesis snapshot.
TypeOK ==
  /\ validatorOption \in ValidatorOptions
  /\ profile \in {"busy", "quiet"}
  /\ pc \in Stages
  /\ pc \notin {"setup", "panicked"} => unstakeAt \in [Validators -> UnstakeHeights]
  /\ height \in 1 .. NumBlocks + 1
  /\ lockedBatch \in Batches \cup {Nil}
  /\ GoMap(txs, Seq(TxResults))
  /\ GoMap(events, Seq(Events))
  /\ GoMap(blocks, BlockResults)
  /\ GoMap(dexBatches, Batches)
  /\ GoMap(nextDexBatches, Batches)
  /\ GoMap(states, Snapshots)
  /\ GoMap(certs, Certificates)

-----------------------------------------------------------------------------
(* Safety. *)

\* The certificate stored for a height is the one the finished maps would
\* give: it names the height's block, carries its locked dex batch and slashes
\* its double signers.  It holds only because the certificate is stored last,
\* after the entries it reads.
CertAgreesWithHeight ==
  \A h \in DOMAIN certs :
    /\ h \in DOMAIN blocks /\ certs[h].blockHash = blocks[h].hash
    /\ h \in DOMAIN dexBatches /\ certs[h].dexBatch = dexBatches[h]
    /\ h \in DOMAIN states /\ certs[h].slashed = states[h].doubleSigners

\* A certificate inside a transaction is built before the block that includes
\* the transaction exists; the hash it guesses is nevertheless the hash the
\* block gets.
TxCertNamesItsBlock ==
  \A h \in DOMAIN txs \cap DOMAIN blocks : \A i \in DOMAIN txs[h] :
    txs[h][i].qc # Nil => txs[h][i].qc.blockHash = blocks[h].hash

\* latestHeight counts the blocks, and that count is the newest height: no
\* height is skipped or stored twice under another key.
HeadIsNewestBlock == DOMAIN blocks = 1 .. LatestHeight

\* When newMockChain returns, every height up to the head reads from every
\* map, and genesis from the snapshots: no route has a hole.
CompleteWhenDone ==
  pc = "done" =>
    /\ LatestHeight = NumBlocks
    /\ DOMAIN states = 0 .. NumBlocks
    /\ DOMAIN txs = Heights /\ DOMAIN events = Heights /\ DOMAIN certs = Heights
    /\ DOMAIN dexBatches = Heights /\ DOMAIN nextDexBatches = Heights

\* A block's TotalTxs counts every transaction of the chain up to it.
TotalTxsIsRunningSum ==
  \A h \in DOMAIN blocks :
    blocks[h].totalTxs = SumFunctionOnSet([k \in 1 .. h |-> Len(txs[k])], 1 .. h)

\* Evidence in a snapshot is about blocks that are stored by then, the
\* snapshot's own among them.
EvidenceNamesBuiltBlocks ==
  \A h \in DOMAIN states : \A evidence \in states[h].doubleSigners :
    h \in evidence.heights /\ evidence.heights \subseteq DOMAIN blocks

-----------------------------------------------------------------------------
(* Liveness and refinement. *)

\* newMockChain returns for every count of validators but one: with a single
\* validator it panics in buildOrderBooks, and nothing else stops it.
Terminates == <>(pc = IF ValidatorCount >= 2 THEN "done" ELSE "panicked")

\* The builder implements the archive: a height is committed when its
\* certificate, the last of its entries, is stored.
Entry(h) ==
  [txs |-> txs[h], events |-> events[h], block |-> blocks[h],
   dexBatch |-> dexBatches[h], nextDexBatch |-> nextDexBatches[h],
   state |-> states[h], cert |-> certs[h]]

Phase ==
  CASE pc = "done" -> "sealed"
    [] pc = "panicked" -> "failed"
    [] OTHER -> "building"

A == INSTANCE Archive WITH
       Target <- NumBlocks,
       archive <- [h \in 1 .. height - 1 |-> Entry(h)],
       tip <- height - 1,
       phase <- Phase

\* Heights are committed in order, coherent and linked, and never change again.
ImplementsArchive == A!Spec

-----------------------------------------------------------------------------
(* What the README says and the code does not do. *)

\* README: certificate-result transactions use populated certificates with dex
\* batch info.
CertResultsTxCarriesDexBatch ==
  \A h \in DOMAIN txs : \A i \in DOMAIN txs[h] :
    txs[h][i].qc # Nil => txs[h][i].qc.dexBatch # Nil
=============================================================================
