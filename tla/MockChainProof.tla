--------------------------- MODULE MockChainProof ---------------------------
(***************************************************************************)
(* Proofs about MockChain for every value of its constants.  The inductive *)
(* invariant Inv says which heights each map holds at each statement of    *)
(* the loop and what the entries are; everything else follows from it.     *)
(***************************************************************************)
EXTENDS MockChain, FoldLemmas

\* The heights a map holds when its store has been executed for the current
\* height exactly at the statements in later.
Upto(later) == 1 .. (IF pc \in later THEN height ELSE height - 1)

Before == {"setup", "genesis", "panicked"}
InLoop == {"txs", "events", "block", "dexBatch", "nextDexBatch", "state", "cert"}

Progress ==
  /\ pc \in Before => height = 1
  /\ pc \in InLoop => height \in Heights
  /\ pc = "done" => height = NumBlocks + 1
  /\ pc \notin Before => lockedBatch \in Batches

Filled ==
  /\ DOMAIN txs = Upto(InLoop \ {"txs"})
  /\ DOMAIN events = Upto(InLoop \ {"txs", "events"})
  /\ DOMAIN blocks = Upto({"dexBatch", "nextDexBatch", "state", "cert"})
  /\ DOMAIN dexBatches = Upto({"nextDexBatch", "state", "cert"})
  /\ DOMAIN nextDexBatches = Upto({"state", "cert"})
  /\ DOMAIN states = IF pc \in Before THEN {} ELSE {0} \cup Upto({"cert"})
  /\ DOMAIN certs = Upto({})

Contents ==
  /\ \A h \in DOMAIN blocks :
       /\ blocks[h].height = h
       /\ blocks[h].hash = BlockHash(h)
       /\ blocks[h].lastHash = BlockHash(h - 1)
       /\ blocks[h].transactions = txs[h]
       /\ blocks[h].events = events[h]
       /\ blocks[h].numTxs = Len(txs[h])
       /\ blocks[h].totalTxs =
            blocks[h].numTxs
              + (IF h - 1 \in DOMAIN blocks THEN blocks[h - 1].totalTxs ELSE 0)
  /\ \A h \in DOMAIN states : states[h] = SnapshotStateAt(h)
  /\ \A h \in DOMAIN certs : certs[h].height = h

Inv ==
  /\ TypeOK
  /\ Progress
  /\ Filled
  /\ Contents
  /\ CertAgreesWithHeight

-----------------------------------------------------------------------------
(* A store at a height of the chain keeps a Go map typed. *)
LEMMA PutGoMap ==
  ASSUME NEW S, NEW map, GoMap(map, S), NEW key \in 0 .. NumBlocks, NEW value \in S
  PROVE  GoMap(Put(map, key, value), S)
  BY DEF GoMap, Put

(* One is no multiple of a period greater than one: the genesis height and  *)
(* the first height carry no evidence.                                      *)
LEMMA NoEvidenceAtOne ==
  ASSUME NEW h \in Nat, h > 0, h % DoubleSignPeriod = 0
  PROVE  h >= 2
<1>1. DoubleSignPeriod \in Nat /\ DoubleSignPeriod > 1
  BY ChainAssumption
<1>2. 1 % DoubleSignPeriod = 1
  BY <1>1
<1> QED
  BY <1>2

LEMMA DoubleSignersType ==
  ASSUME NEW h \in 0 .. NumBlocks
  PROVE  DoubleSignersAt(h) \in SUBSET Evidence
<1>1. NumBlocks \in Nat
  BY ChainAssumption
<1>2. CASE h = 0
  BY <1>1, <1>2 DEF DoubleSignersAt
<1>3. CASE h > 0
  <2>1. {h - 1, h} \subseteq 0 .. NumBlocks
    BY <1>1, <1>3
  <2>2. [id |-> 2, heights |-> {h - 1, h}] \in Evidence
    BY <2>1 DEF Evidence
  <2> QED
    BY <2>2 DEF DoubleSignersAt
<1> QED
  BY <1>1, <1>2, <1>3

LEMMA SnapshotType ==
  ASSUME NEW h \in 0 .. NumBlocks, unstakeAt \in [Validators -> UnstakeHeights]
  PROVE  SnapshotStateAt(h) \in Snapshots
<1>1. h \in Nat
  BY ChainAssumption
<1>2. NonSignersAt(h) \in Seq(Nat)
  <2>1. (h % 3) + 1 \in Nat /\ (h % 2) + 1 \in Nat
    BY <1>1
  <2> QED
    BY <2>1 DEF NonSignersAt
<1>3. [v \in Validators |-> IF ValidatorStatusAt(v, h) = "unstaked" THEN unstakeAt[v] ELSE 0]
        \in [Validators -> UnstakeHeights \cup {0}]
  OBVIOUS
<1> QED
  BY <1>2, <1>3, DoubleSignersType DEF SnapshotStateAt, Snapshots

LEMMA BlockHashType ==
  ASSUME NEW h \in 0 .. NumBlocks
  PROVE  BlockHash(h) \in Hashes
  BY ChainAssumption DEF BlockHash, Hashes
(* The sampled configuration fixes the types and the snapshots: a step that *)
(* leaves it alone leaves them alone.                                       *)
LEMMA ConfigFrame ==
  ASSUME UNCHANGED config
  PROVE  /\ Validators' = Validators
         /\ ValidatorCount' = ValidatorCount
         /\ TxResults' = TxResults
         /\ BlockResults' = BlockResults
         /\ Snapshots' = Snapshots
         /\ \A h : SnapshotStateAt(h)' = SnapshotStateAt(h)
<1>1. UNCHANGED <<validatorOption, profile, unstakeAt>>
  BY DEF config
<1>2. ValidatorCount' = ValidatorCount /\ Validators' = Validators
  BY <1>1 DEF ValidatorCount, Validators
<1>3. TxLabels' = TxLabels
  BY <1>1 DEF TxLabels
<1>4. TxResults' = TxResults /\ BlockResults' = BlockResults
  BY <1>3 DEF TxResults, BlockResults
<1>5. Snapshots' = Snapshots
  BY <1>2 DEF Snapshots
<1>6. ASSUME NEW h PROVE SnapshotStateAt(h)' = SnapshotStateAt(h)
  BY <1>1, <1>2
     DEF SnapshotStateAt, NonSignersAt, DoubleSignersAt, ValidatorStatusAt
<1> QED
  BY <1>2, <1>4, <1>5, <1>6

(* What buildCertificateForTx assembles is a certificate, whichever of the  *)
(* entries it reads are already there.                                      *)
LEMMA CertificateType ==
  ASSUME TypeOK, NEW h \in Heights
  PROVE  BuildCertificate(h) \in Certificates
<1>1. h \in 0 .. NumBlocks
  BY ChainAssumption DEF Heights
<1>2. (IF h \in DOMAIN blocks THEN blocks[h].hash ELSE BlockHash(h)) \in Hashes
  <2>1. blocks \in [DOMAIN blocks -> BlockResults]
    BY DEF TypeOK, GoMap
  <2> QED
    BY <1>1, <2>1, BlockHashType DEF BlockResults
<1>3. Get(dexBatches, h) \in Batches \cup {Nil}
  BY DEF TypeOK, GoMap, Get
<1>4. DoubleSigners(h) \in SUBSET Evidence
  <2>1. states \in [DOMAIN states -> Snapshots]
    BY DEF TypeOK, GoMap
  <2> QED
    BY <2>1 DEF DoubleSigners, Snapshots
<1> QED
  BY <1>2, <1>3, <1>4 DEF BuildCertificate, Certificates

-----------------------------------------------------------------------------
(* The invariant holds before the first statement. *)
LEMMA InvInit == Init => Inv
<1> SUFFICES ASSUME Init PROVE Inv
  OBVIOUS
<1> USE DEF Init
<1>1. DOMAIN EmptyMap = {} /\ \A S : GoMap(EmptyMap, S)
  BY DEF EmptyMap, GoMap
<1>2. TypeOK
  BY <1>1, ChainAssumption DEF TypeOK, Stages
<1>3. Progress
  BY DEF Progress, Before, InLoop
<1>4. Filled
  BY <1>1 DEF Filled, Upto, Before, InLoop
<1>5. Contents /\ CertAgreesWithHeight
  BY <1>1 DEF Contents, CertAgreesWithHeight
<1> QED
  BY <1>2, <1>3, <1>4, <1>5 DEF Inv

LEMMA EventType ==
  ASSUME NEW label, NEW h \in Heights, NEW i \in Nat \ {0}
  PROVE  ClosedFormEvent(label, h, i) \in Events
<1>1. h + i - 1 \in Nat
  BY ChainAssumption DEF Heights
<1> QED
  BY <1>1 DEF ClosedFormEvent, Events, PickAccount, Accounts

LEMMA TxResultType ==
  ASSUME TypeOK, height \in Heights, NEW label \in TxLabels, NEW i \in Nat \ {0}
  PROVE  TxResult(label, height, i) \in TxResults
<1>1. height + i - 1 \in Nat /\ height + i \in Nat /\ i - 1 \in Nat
  BY ChainAssumption DEF Heights
<1>2. PickAccount(height + i - 1) \in Accounts /\ PickAccount(height + i) \in Accounts
  BY <1>1 DEF PickAccount, Accounts
<1>3. BuildCertificate(height) \in Certificates
  BY CertificateType
<1> QED
  BY <1>1, <1>2, <1>3 DEF TxResult, TxResults

LEMMA BlockType ==
  ASSUME TypeOK, height \in Heights, height \in DOMAIN txs, height \in DOMAIN events
  PROVE  GenerateBlock(height, txs[height], events[height]) \in BlockResults
<1>1. height \in 0 .. NumBlocks /\ height - 1 \in 0 .. NumBlocks
  BY ChainAssumption DEF Heights
<1>2. txs[height] \in Seq(TxResults) /\ events[height] \in Seq(Events)
  BY DEF TypeOK, GoMap
<1>3. Len(txs[height]) \in Nat
  BY <1>2
<1>4. Len(txs[height]) + (IF height - 1 \in DOMAIN blocks
                           THEN blocks[height - 1].totalTxs ELSE 0) \in Nat
  <2>1. blocks \in [DOMAIN blocks -> BlockResults]
    BY DEF TypeOK, GoMap
  <2> QED
    BY <1>3, <2>1 DEF BlockResults
<1>5. BlockHash(height) \in Hashes /\ BlockHash(height - 1) \in Hashes
  BY <1>1, BlockHashType
<1> QED
  BY <1>2, <1>3, <1>4, <1>5 DEF GenerateBlock, BlockResults

-----------------------------------------------------------------------------
(* Every statement of the builder preserves the invariant. *)
LEMMA InvNext == Inv /\ [Next]_vars => Inv'
<1> SUFFICES ASSUME Inv, [Next]_vars PROVE Inv'
  OBVIOUS
<1> USE DEF Inv
<1>a. NumBlocks \in Nat /\ height \in Nat /\ height >= 1
  BY ChainAssumption DEF TypeOK
<1>b. height \in Heights => height \in 0 .. NumBlocks /\ height + 1 \in 1 .. NumBlocks + 1
  BY <1>a DEF Heights
<1>d. (1 .. height - 1) \cup {height} = 1 .. height /\ height \notin 1 .. height - 1
  BY <1>a
<1>c. \A h : LoopHead(h) \in {"txs", "done"}
  BY DEF LoopHead
<1>1. CASE Setup
  <2> USE <1>1 DEF Setup
  <2>1. UNCHANGED <<validatorOption, profile, height, lockedBatch, txs, events, blocks,
                    dexBatches, nextDexBatches, states, certs>>
    BY DEF maps, config
  <2>2. height = 1 /\ pc = "setup"
    BY DEF Progress, Before
  <2>3. DOMAIN blocks = {} /\ DOMAIN states = {} /\ DOMAIN certs = {} /\ DOMAIN txs = {}
    BY <2>2 DEF Filled, Upto, Before, InLoop
  <2>4. TypeOK'
    BY <2>1, <2>2, <2>3, <1>a DEF TypeOK, GoMap, Stages, TxResults, BlockResults, Snapshots, TxLabels, Validators, ValidatorCount
  <2>5. Progress'
    BY <2>1, <2>2 DEF Progress, Before, InLoop
  <2>6. Filled'
    BY <2>1, <2>2 DEF Filled, Upto, Before, InLoop
  <2>7. Contents' /\ CertAgreesWithHeight'
    BY <2>1, <2>3 DEF Contents, CertAgreesWithHeight
  <2> QED
    BY <2>4, <2>5, <2>6, <2>7
<1>2. CASE SetupPanics
  <2> USE <1>2 DEF SetupPanics
  <2>1. UNCHANGED <<validatorOption, profile, height, lockedBatch, txs, events, blocks,
                    dexBatches, nextDexBatches, states, certs>>
    BY DEF maps, config
  <2>2. height = 1 /\ pc = "setup"
    BY DEF Progress, Before
  <2>3. DOMAIN blocks = {} /\ DOMAIN states = {} /\ DOMAIN certs = {} /\ DOMAIN txs = {}
    BY <2>2 DEF Filled, Upto, Before, InLoop
  <2>4. TypeOK'
    BY <2>1, <2>2, <2>3, <1>a DEF TypeOK, GoMap, Stages, TxResults, BlockResults, Snapshots, TxLabels, Validators, ValidatorCount
  <2>5. Progress'
    BY <2>1, <2>2 DEF Progress, Before, InLoop
  <2>6. Filled'
    BY <2>1, <2>2 DEF Filled, Upto, Before, InLoop
  <2>7. Contents' /\ CertAgreesWithHeight'
    BY <2>1, <2>3 DEF Contents, CertAgreesWithHeight
  <2> QED
    BY <2>4, <2>5, <2>6, <2>7
<1>3. CASE Genesis
  <2> USE <1>3 DEF Genesis
  <2>1. UNCHANGED config
    OBVIOUS
  <2>2. UNCHANGED <<validatorOption, profile, unstakeAt>>
    BY <2>1 DEF config
  <2>3. /\ height = 1 /\ pc = "genesis"
        /\ DOMAIN txs = {} /\ DOMAIN events = {} /\ DOMAIN blocks = {}
        /\ DOMAIN states = {} /\ DOMAIN certs = {}
    BY DEF Progress, Filled, Upto, Before, InLoop
  <2>4. GenerateDexBatch(0, FALSE) \in Batches
    BY <1>a DEF GenerateDexBatch, Batches
  <2>5. SnapshotStateAt(0) \in Snapshots
    BY <1>a, <2>3, SnapshotType DEF TypeOK
  <2>6. DOMAIN states' = {0} /\ states'[0] = SnapshotStateAt(0)
    BY <2>3 DEF Put
  <2>10. TypeOK'
    <3>1. GoMap(states', Snapshots)
      BY <1>a, <2>5, PutGoMap DEF TypeOK
    <3> QED
      BY <3>1, <1>c, <2>1, <2>2, <2>3, <2>4, ConfigFrame DEF TypeOK, Stages
  <2>11. Progress'
    <3>1. lockedBatch' \in Batches /\ height' = 1 /\ pc' = LoopHead(1)
      BY <2>3, <2>4
    <3>2. CASE 1 <= NumBlocks
      <4>1. pc' = "txs" /\ 1 \in Heights
        BY <1>a, <3>1, <3>2 DEF LoopHead, Heights
      <4> QED
        BY <3>1, <4>1 DEF Progress, Before, InLoop
    <3>3. CASE NumBlocks = 0
      <4>1. pc' = "done" /\ height' = NumBlocks + 1
        BY <3>1, <3>3 DEF LoopHead
      <4> QED
        BY <3>1, <4>1 DEF Progress, Before, InLoop
    <3> QED
      BY <1>a, <3>2, <3>3
  <2>12. Filled'
    BY <2>3, <2>6, <1>a DEF Filled, Upto, Before, InLoop, LoopHead
  <2>13. Contents' /\ CertAgreesWithHeight'
    BY <2>1, <2>3, <2>6, ConfigFrame DEF Contents, CertAgreesWithHeight
  <2> QED
    BY <2>10, <2>11, <2>12, <2>13
<1>4. CASE GenerateTxs
  <2> USE <1>4 DEF GenerateTxs
  <2>1. UNCHANGED config
    OBVIOUS
  <2>2. UNCHANGED <<validatorOption, profile, unstakeAt>>
    BY <2>1 DEF config
  <2>3. height \in Heights /\ pc = "txs" /\ lockedBatch \in Batches
    BY DEF Progress, Before, InLoop
  <2>4. /\ DOMAIN txs = 1 .. height - 1
        /\ DOMAIN events = 1 .. height - 1
        /\ DOMAIN blocks = 1 .. height - 1
        /\ DOMAIN dexBatches = 1 .. height - 1
        /\ DOMAIN nextDexBatches = 1 .. height - 1
        /\ DOMAIN certs = 1 .. height - 1
        /\ DOMAIN states = {0} \cup (1 .. height - 1)
    BY <2>3 DEF Filled, Upto, Before, InLoop
  <2>5. PICK count \in TxCounts : \E labels \in [1 .. count -> TxLabels] :
          txs' = Put(txs, height, [i \in 1 .. count |-> TxResult(labels[i], height, i)])
    OBVIOUS
  <2>6. PICK labels \in [1 .. count -> TxLabels] :
          txs' = Put(txs, height, [i \in 1 .. count |-> TxResult(labels[i], height, i)])
    BY <2>5
  <2>7. [i \in 1 .. count |-> TxResult(labels[i], height, i)] \in Seq(TxResults)
    <3>1. count \in Nat
      BY ChainAssumption DEF TxCounts
    <3>2. \A i \in 1 .. count : TxResult(labels[i], height, i) \in TxResults
      BY TxResultType, <2>3
    <3> QED
      BY <3>1, <3>2
  <2>8. txs' = Put(txs, height, [i \in 1 .. count |-> TxResult(labels[i], height, i)])
    BY <2>6
  <2>9. /\ DOMAIN txs' = 1 .. height
        /\ txs'[height] = [i \in 1 .. count |-> TxResult(labels[i], height, i)]
        /\ \A h \in 1 .. height - 1 : txs'[h] = txs[h]
    BY <2>4, <2>8, <1>a, <1>d DEF Put
  <2>10. TypeOK'
    <3>1. GoMap(txs', Seq(TxResults))
      BY <2>3, <2>7, <2>8, <1>b, PutGoMap DEF TypeOK
    <3> QED
      BY <3>1, <2>1, <2>2, <2>3, ConfigFrame DEF TypeOK, Stages
  <2>11. Progress'
    BY <2>1, <2>3, <1>a, ConfigFrame DEF Progress, Before, InLoop
  <2>12. Filled'
    BY <2>3, <2>4, <2>9, <1>a DEF Filled, Upto, Before, InLoop
  <2>13. Contents'
    BY <2>1, <2>3, <2>4, <2>9, <1>a, ConfigFrame DEF Contents
  <2>14. CertAgreesWithHeight'
    BY <2>3, <2>4, <2>9, <1>a DEF CertAgreesWithHeight
  <2> QED
    BY <2>10, <2>11, <2>12, <2>13, <2>14
<1>5. CASE GenerateEvents
  <2> USE <1>5 DEF GenerateEvents
  <2>1. UNCHANGED config
    OBVIOUS
  <2>2. UNCHANGED <<validatorOption, profile, unstakeAt>>
    BY <2>1 DEF config
  <2>3. height \in Heights /\ pc = "events" /\ lockedBatch \in Batches
    BY DEF Progress, Before, InLoop
  <2>4. /\ DOMAIN txs = 1 .. height
        /\ DOMAIN events = 1 .. height - 1
        /\ DOMAIN blocks = 1 .. height - 1
        /\ DOMAIN dexBatches = 1 .. height - 1
        /\ DOMAIN nextDexBatches = 1 .. height - 1
        /\ DOMAIN certs = 1 .. height - 1
        /\ DOMAIN states = {0} \cup (1 .. height - 1)
    BY <2>3 DEF Filled, Upto, Before, InLoop
  <2>5. PICK count \in 0 .. MaxEvents : \E labels \in [1 .. count -> EventLabels] :
          events' = Put(events, height, [i \in 1 .. count |-> ClosedFormEvent(labels[i], height, i)])
    OBVIOUS
  <2>6. PICK labels \in [1 .. count -> EventLabels] :
          events' = Put(events, height, [i \in 1 .. count |-> ClosedFormEvent(labels[i], height, i)])
    BY <2>5
  <2>7. [i \in 1 .. count |-> ClosedFormEvent(labels[i], height, i)] \in Seq(Events)
    <3>1. count \in Nat
      BY ChainAssumption
    <3>2. \A i \in 1 .. count : ClosedFormEvent(labels[i], height, i) \in Events
      BY <2>3, EventType
    <3> QED
      BY <3>1, <3>2
  <2>8. events' = Put(events, height, [i \in 1 .. count |-> ClosedFormEvent(labels[i], height, i)])
    BY <2>6
  <2>9. /\ DOMAIN events' = 1 .. height
        /\ events'[height] = [i \in 1 .. count |-> ClosedFormEvent(labels[i], height, i)]
        /\ \A h \in 1 .. height - 1 : events'[h] = events[h]
    BY <2>4, <2>8, <1>a, <1>d DEF Put
  <2>10. TypeOK'
    <3>1. GoMap(events', Seq(Events))
      BY <2>3, <2>7, <2>8, <1>b, PutGoMap DEF TypeOK
    <3> QED
      BY <3>1, <2>1, <2>2, <2>3, ConfigFrame DEF TypeOK, Stages
  <2>11. Progress'
    BY <2>1, <2>3, <1>a, ConfigFrame DEF Progress, Before, InLoop
  <2>12. Filled'
    BY <2>3, <2>4, <2>9, <1>a DEF Filled, Upto, Before, InLoop
  <2>13. Contents'
    BY <2>1, <2>3, <2>4, <2>9, <1>a, ConfigFrame DEF Contents
  <2>14. CertAgreesWithHeight'
    BY <2>3, <2>4, <2>9, <1>a DEF CertAgreesWithHeight
  <2> QED
    BY <2>10, <2>11, <2>12, <2>13, <2>14
<1>6. CASE StoreBlock
  <2> USE <1>6 DEF StoreBlock
  <2>1. UNCHANGED config
    OBVIOUS
  <2>2. UNCHANGED <<validatorOption, profile, unstakeAt>>
    BY <2>1 DEF config
  <2>3. height \in Heights /\ pc = "block" /\ lockedBatch \in Batches
    BY DEF Progress, Before, InLoop
  <2>4. /\ DOMAIN txs = 1 .. height
        /\ DOMAIN events = 1 .. height
        /\ DOMAIN blocks = 1 .. height - 1
        /\ DOMAIN dexBatches = 1 .. height - 1
        /\ DOMAIN nextDexBatches = 1 .. height - 1
        /\ DOMAIN certs = 1 .. height - 1
        /\ DOMAIN states = {0} \cup (1 .. height - 1)
    BY <2>3 DEF Filled, Upto, Before, InLoop
  <2>7. GenerateBlock(height, txs[height], events[height]) \in BlockResults
    BY BlockType, <2>3, <2>4, <1>a
  <2>8. blocks' = Put(blocks, height, GenerateBlock(height, txs[height], events[height]))
    OBVIOUS
  <2>9. /\ DOMAIN blocks' = 1 .. height
        /\ blocks'[height] = GenerateBlock(height, txs[height], events[height])
        /\ \A h \in 1 .. height - 1 : blocks'[h] = blocks[h]
    BY <2>4, <2>8, <1>a, <1>d DEF Put
  <2>10. TypeOK'
    <3>1. GoMap(blocks', BlockResults)
      BY <2>3, <2>7, <2>8, <1>b, PutGoMap DEF TypeOK
    <3> QED
      BY <3>1, <2>1, <2>2, <2>3, ConfigFrame DEF TypeOK, Stages
  <2>11. Progress'
    BY <2>1, <2>3, <1>a, ConfigFrame DEF Progress, Before, InLoop
  <2>12. Filled'
    BY <2>3, <2>4, <2>9, <1>a DEF Filled, Upto, Before, InLoop
  <2>13. Contents'
    <3> DEFINE new == GenerateBlock(height, txs[height], events[height])
    <3>1. /\ new.height = height /\ new.hash = BlockHash(height)
          /\ new.lastHash = BlockHash(height - 1)
          /\ new.transactions = txs[height] /\ new.events = events[height]
          /\ new.numTxs = Len(txs[height])
          /\ new.totalTxs =
               new.numTxs
                 + (IF height - 1 \in DOMAIN blocks THEN blocks[height - 1].totalTxs ELSE 0)
      BY DEF GenerateBlock
    <3>2. height - 1 \in DOMAIN blocks' <=> height - 1 \in DOMAIN blocks
      BY <2>4, <2>9, <1>a, <2>3
    <3>3. \A h \in 1 .. height - 1 :
            /\ h # height
            /\ (h - 1 \in DOMAIN blocks') <=> (h - 1 \in DOMAIN blocks)
            /\ h - 1 \in DOMAIN blocks => h - 1 \in 1 .. height - 1
      <4>1. /\ DOMAIN blocks = 1 .. height - 1 /\ DOMAIN blocks' = 1 .. height
            /\ height \in Int
        BY <2>4, <2>9, <1>a, <2>3
      <4> HIDE DEF StoreBlock
      <4> QED
        BY <4>1
    <3> HIDE DEF new
    <3>4. \A h \in DOMAIN blocks' : h = height \/ h \in 1 .. height - 1
      BY <2>9, <1>a, <2>3
    <3> USE <2>1, <2>3, <2>4, <2>9
    <3>5. blocks'[height] = new
      BY DEF new
    <3>6. /\ \A h \in DOMAIN states' : states'[h] = SnapshotStateAt(h)'
          /\ \A h \in DOMAIN certs' : certs'[h].height = h
      BY ConfigFrame DEF Contents
    <3>7. ASSUME NEW h \in DOMAIN blocks'
          PROVE  /\ blocks'[h].height = h
                 /\ blocks'[h].hash = BlockHash(h)
                 /\ blocks'[h].lastHash = BlockHash(h - 1)
                 /\ blocks'[h].transactions = txs'[h]
                 /\ blocks'[h].events = events'[h]
                 /\ blocks'[h].numTxs = Len(txs'[h])
                 /\ blocks'[h].totalTxs =
                      blocks'[h].numTxs
                        + (IF h - 1 \in DOMAIN blocks' THEN blocks'[h - 1].totalTxs ELSE 0)
      <4>1. CASE h = height
        BY <3>1, <3>2, <3>5, <4>1
      <4>2. CASE h \in 1 .. height - 1
        <5>1. /\ h \in DOMAIN blocks /\ blocks'[h] = blocks[h]
              /\ txs' = txs /\ events' = events
              /\ h - 1 \in DOMAIN blocks => blocks'[h - 1] = blocks[h - 1]
          BY <3>3, <4>2
        <5> HIDE DEF StoreBlock
        <5> QED
          BY <3>3, <4>2, <5>1 DEF Contents
      <4> QED
        BY <3>4, <4>1, <4>2
    <3> QED
      BY <3>6, <3>7 DEF Contents
  <2>14. CertAgreesWithHeight'
    BY <2>3, <2>4, <2>9, <1>a DEF CertAgreesWithHeight
  <2> QED
    BY <2>10, <2>11, <2>12, <2>13, <2>14
<1>7. CASE StoreDexBatch
  <2> USE <1>7 DEF StoreDexBatch
  <2>1. UNCHANGED config
    OBVIOUS
  <2>2. UNCHANGED <<validatorOption, profile, unstakeAt>>
    BY <2>1 DEF config
  <2>3. height \in Heights /\ pc = "dexBatch" /\ lockedBatch \in Batches
    BY DEF Progress, Before, InLoop
  <2>4. /\ DOMAIN txs = 1 .. height
        /\ DOMAIN events = 1 .. height
        /\ DOMAIN blocks = 1 .. height
        /\ DOMAIN dexBatches = 1 .. height - 1
        /\ DOMAIN nextDexBatches = 1 .. height - 1
        /\ DOMAIN certs = 1 .. height - 1
        /\ DOMAIN states = {0} \cup (1 .. height - 1)
    BY <2>3 DEF Filled, Upto, Before, InLoop
  <2>7. lockedBatch \in Batches
    BY <2>3
  <2>8. dexBatches' = Put(dexBatches, height, lockedBatch)
    OBVIOUS
  <2>9. /\ DOMAIN dexBatches' = 1 .. height
        /\ dexBatches'[height] = lockedBatch
        /\ \A h \in 1 .. height - 1 : dexBatches'[h] = dexBatches[h]
    BY <2>4, <2>8, <1>a, <1>d DEF Put
  <2>10. TypeOK'
    <3>1. GoMap(dexBatches', Batches)
      BY <2>3, <2>7, <2>8, <1>b, PutGoMap DEF TypeOK
    <3> QED
      BY <3>1, <2>1, <2>2, <2>3, ConfigFrame DEF TypeOK, Stages
  <2>11. Progress'
    BY <2>1, <2>3, <1>a, ConfigFrame DEF Progress, Before, InLoop
  <2>12. Filled'
    BY <2>3, <2>4, <2>9, <1>a DEF Filled, Upto, Before, InLoop
  <2>13. Contents'
    BY <2>1, <2>3, <2>4, <2>9, <1>a, ConfigFrame DEF Contents
  <2>14. CertAgreesWithHeight'
    BY <2>3, <2>4, <2>9, <1>a DEF CertAgreesWithHeight
  <2> QED
    BY <2>10, <2>11, <2>12, <2>13, <2>14
<1>8. CASE StoreNextDexBatch
  <2> USE <1>8 DEF StoreNextDexBatch
  <2>1. UNCHANGED config
    OBVIOUS
  <2>2. UNCHANGED <<validatorOption, profile, unstakeAt>>
    BY <2>1 DEF config
  <2>3. height \in Heights /\ pc = "nextDexBatch" /\ lockedBatch \in Batches
    BY DEF Progress, Before, InLoop
  <2>4. /\ DOMAIN txs = 1 .. height
        /\ DOMAIN events = 1 .. height
        /\ DOMAIN blocks = 1 .. height
        /\ DOMAIN dexBatches = 1 .. height
        /\ DOMAIN nextDexBatches = 1 .. height - 1
        /\ DOMAIN certs = 1 .. height - 1
        /\ DOMAIN states = {0} \cup (1 .. height - 1)
    BY <2>3 DEF Filled, Upto, Before, InLoop
  <2>7. GenerateDexBatch(height, TRUE) \in Batches
    BY <2>3, <1>b DEF GenerateDexBatch, Batches
  <2>8. nextDexBatches' = Put(nextDexBatches, height, GenerateDexBatch(height, TRUE))
    OBVIOUS
  <2>9. /\ DOMAIN nextDexBatches' = 1 .. height
        /\ nextDexBatches'[height] = GenerateDexBatch(height, TRUE)
        /\ \A h \in 1 .. height - 1 : nextDexBatches'[h] = nextDexBatches[h]
    BY <2>4, <2>8, <1>a, <1>d DEF Put
  <2>10. TypeOK'
    <3>1. GoMap(nextDexBatches', Batches)
      BY <2>3, <2>7, <2>8, <1>b, PutGoMap DEF TypeOK
    <3> QED
      BY <3>1, <2>1, <2>2, <2>3, ConfigFrame DEF TypeOK, Stages
  <2>11. Progress'
    BY <2>1, <2>3, <1>a, ConfigFrame DEF Progress, Before, InLoop
  <2>12. Filled'
    BY <2>3, <2>4, <2>9, <1>a DEF Filled, Upto, Before, InLoop
  <2>13. Contents'
    BY <2>1, <2>3, <2>4, <2>9, <1>a, ConfigFrame DEF Contents
  <2>14. CertAgreesWithHeight'
    BY <2>3, <2>4, <2>9, <1>a DEF CertAgreesWithHeight
  <2> QED
    BY <2>10, <2>11, <2>12, <2>13, <2>14
<1>9. CASE StoreState
  <2> USE <1>9 DEF StoreState
  <2>1. UNCHANGED config
    OBVIOUS
  <2>2. UNCHANGED <<validatorOption, profile, unstakeAt>>
    BY <2>1 DEF config
  <2>3. height \in Heights /\ pc = "state" /\ lockedBatch \in Batches
    BY DEF Progress, Before, InLoop
  <2>4. /\ DOMAIN txs = 1 .. height
        /\ DOMAIN events = 1 .. height
        /\ DOMAIN blocks = 1 .. height
        /\ DOMAIN dexBatches = 1 .. height
        /\ DOMAIN nextDexBatches = 1 .. height
        /\ DOMAIN certs = 1 .. height - 1
        /\ DOMAIN states = {0} \cup (1 .. height - 1)
    BY <2>3 DEF Filled, Upto, Before, InLoop
  <2>7. SnapshotStateAt(height) \in Snapshots
    BY SnapshotType, <2>3, <1>b DEF TypeOK
  <2>8. states' = Put(states, height, SnapshotStateAt(height))
    OBVIOUS
  <2>9. /\ DOMAIN states' = {0} \cup (1 .. height)
        /\ states'[height] = SnapshotStateAt(height)
        /\ \A h \in DOMAIN states : states'[h] = states[h]
    <3>1. (1 .. height - 1) \cup {height} = 1 .. height /\ height \notin DOMAIN states
      BY <1>a, <2>4
    <3> QED
      BY <2>4, <2>8, <3>1 DEF Put
  <2>10. TypeOK'
    <3>1. GoMap(states', Snapshots)
      BY <2>3, <2>7, <2>8, <1>b, PutGoMap DEF TypeOK
    <3> QED
      BY <3>1, <2>1, <2>2, <2>3, ConfigFrame DEF TypeOK, Stages
  <2>11. Progress'
    BY <2>1, <2>3, <1>a, ConfigFrame DEF Progress, Before, InLoop
  <2>12. Filled'
    BY <2>3, <2>4, <2>9, <1>a DEF Filled, Upto, Before, InLoop
  <2>13. Contents'
    BY <2>1, <2>3, <2>4, <2>9, <1>a, ConfigFrame DEF Contents
  <2>14. CertAgreesWithHeight'
    BY <2>3, <2>4, <2>9, <1>a DEF CertAgreesWithHeight
  <2> QED
    BY <2>10, <2>11, <2>12, <2>13, <2>14
<1>10. CASE StoreCert
  <2> USE <1>10 DEF StoreCert
  <2>1. UNCHANGED config
    OBVIOUS
  <2>2. UNCHANGED <<validatorOption, profile, unstakeAt>>
    BY <2>1 DEF config
  <2>3. height \in Heights /\ pc = "cert" /\ lockedBatch \in Batches
    BY DEF Progress, Before, InLoop
  <2>4. /\ DOMAIN txs = 1 .. height
        /\ DOMAIN events = 1 .. height
        /\ DOMAIN blocks = 1 .. height
        /\ DOMAIN dexBatches = 1 .. height
        /\ DOMAIN nextDexBatches = 1 .. height
        /\ DOMAIN certs = 1 .. height - 1
        /\ DOMAIN states = {0} \cup (1 .. height)
    BY <2>3 DEF Filled, Upto, Before, InLoop
  <2>7. BuildCertificate(height) \in Certificates
    BY CertificateType, <2>3
  <2>8. certs' = Put(certs, height, BuildCertificate(height))
    OBVIOUS
  <2>9. /\ DOMAIN certs' = 1 .. height
        /\ certs'[height] = BuildCertificate(height)
        /\ \A h \in 1 .. height - 1 : certs'[h] = certs[h]
    BY <2>4, <2>8, <1>a, <1>d DEF Put
  <2>10. TypeOK'
    <3>1. GoMap(certs', Certificates)
      BY <2>3, <2>7, <2>8, <1>b, PutGoMap DEF TypeOK
    <3> QED
      BY <3>1, <2>1, <2>2, <2>3, ConfigFrame, <1>b, <1>c DEF TypeOK, Stages
  <2>11. Progress'
    BY <2>1, <2>3, <1>a, ConfigFrame DEF Progress, Before, InLoop, LoopHead, Heights
  <2>12. Filled'
    BY <2>3, <2>4, <2>9, <1>a DEF Filled, Upto, Before, InLoop, LoopHead
  <2>13. Contents'
    <3>1. \A h \in DOMAIN certs' : certs'[h].height = h
      BY <2>4, <2>9, <1>a DEF Contents, BuildCertificate
    <3>2. UNCHANGED <<txs, events, blocks, states>>
      OBVIOUS
    <3> QED
      BY <2>1, <3>1, <3>2, ConfigFrame DEF Contents
  <2>14. CertAgreesWithHeight'
    <3>1. UNCHANGED <<blocks, dexBatches, states>> /\ height \in Nat \ {0}
      BY <2>3, <1>a
    <3>2. /\ certs'[height].blockHash = blocks[height].hash
          /\ certs'[height].dexBatch = dexBatches[height]
          /\ certs'[height].slashed = states[height].doubleSigners
      BY <2>4, <2>9, <3>1 DEF BuildCertificate, Get, DoubleSigners
    <3>3. \A h \in 1 .. height : h \in DOMAIN blocks /\ h \in DOMAIN dexBatches /\ h \in DOMAIN states
      BY <2>4
    <3>4. ASSUME NEW h \in 1 .. height
          PROVE  /\ certs'[h].blockHash = blocks[h].hash
                 /\ certs'[h].dexBatch = dexBatches[h]
                 /\ certs'[h].slashed = states[h].doubleSigners
      <4>1. CASE h = height
        BY <3>2, <4>1
      <4>2. CASE h # height
        <5>1. h \in 1 .. height - 1 /\ h \in DOMAIN certs /\ certs'[h] = certs[h]
          BY <2>4, <2>9, <3>1, <4>2
        <5> QED
          BY <5>1 DEF CertAgreesWithHeight
      <4> QED
        BY <4>1, <4>2
    <3> QED
      BY <2>9, <3>1, <3>3, <3>4 DEF CertAgreesWithHeight
  <2> QED
    BY <2>10, <2>11, <2>12, <2>13, <2>14
<1>11. CASE UNCHANGED vars
  <2>1. UNCHANGED config /\ UNCHANGED <<pc, height, lockedBatch, unstakeAt, validatorOption, profile,
                    txs, events, blocks, dexBatches, nextDexBatches, states, certs>>
    BY <1>11 DEF vars, maps, config
  <2>4. TypeOK'
    BY <2>1, ConfigFrame DEF TypeOK
  <2>5. Progress'
    BY <2>1, ConfigFrame DEF Progress
  <2>6. Filled'
    BY <2>1 DEF Filled, Upto
  <2>7. Contents' /\ CertAgreesWithHeight'
    BY <2>1, ConfigFrame DEF Contents, CertAgreesWithHeight
  <2> QED
    BY <2>4, <2>5, <2>6, <2>7
<1> QED
  BY <1>1, <1>2, <1>3, <1>4, <1>5, <1>6, <1>7, <1>8, <1>9, <1>10, <1>11 DEF Next

(* The invariant holds at every statement of the builder. *)
THEOREM Invariance == Spec => []Inv
<1>1. Init => Inv
  BY InvInit
<1>2. Inv /\ [Next]_vars => Inv'
  BY InvNext
<1> QED
  BY <1>1, <1>2, PTL DEF Spec

-----------------------------------------------------------------------------
(* Every map holds values of its Go type, and height - 1 never wraps. *)
THEOREM TypeCorrect == Spec => []TypeOK
<1>1. Inv => TypeOK
  BY DEF Inv
<1> QED
  BY <1>1, Invariance, PTL

(* A stored certificate agrees with the block, the dex batch and the double *)
(* signers stored for its height.                                           *)
THEOREM CertificatesAgree == Spec => []CertAgreesWithHeight
<1>1. Inv => CertAgreesWithHeight
  BY DEF Inv
<1> QED
  BY <1>1, Invariance, PTL

(* The number of blocks, which is what latestHeight returns, is the height  *)
(* of the newest block.                                                     *)
THEOREM HeadIsNewest == Spec => []HeadIsNewestBlock
<1>1. Inv => HeadIsNewestBlock
  <2> SUFFICES ASSUME Inv PROVE DOMAIN blocks = 1 .. Cardinality(DOMAIN blocks)
    BY DEF HeadIsNewestBlock, LatestHeight
  <2>1. PICK n \in Nat : DOMAIN blocks = 1 .. n
    <3>1. height \in Nat /\ height - 1 \in Nat
      BY ChainAssumption DEF Inv, TypeOK
    <3> QED
      BY <3>1 DEF Inv, Filled, Upto
  <2>2. Cardinality(1 .. n) = n
    BY FS_Interval
  <2> QED
    BY <2>1, <2>2
<1> QED
  BY <1>1, Invariance, PTL

(* When the constructor returns, no map has a hole up to the head. *)
THEOREM Complete == Spec => []CompleteWhenDone
<1>1. Inv => CompleteWhenDone
  <2> SUFFICES ASSUME Inv, pc = "done" PROVE CompleteWhenDone
    BY DEF CompleteWhenDone
  <2>1. NumBlocks \in Nat /\ height = NumBlocks + 1
    BY ChainAssumption DEF Inv, Progress
  <2>2. /\ DOMAIN txs = 1 .. NumBlocks /\ DOMAIN events = 1 .. NumBlocks
        /\ DOMAIN blocks = 1 .. NumBlocks /\ DOMAIN certs = 1 .. NumBlocks
        /\ DOMAIN dexBatches = 1 .. NumBlocks /\ DOMAIN nextDexBatches = 1 .. NumBlocks
        /\ DOMAIN states = {0} \cup (1 .. NumBlocks)
    BY <2>1 DEF Inv, Filled, Upto, InLoop, Before
  <2>3. {0} \cup (1 .. NumBlocks) = 0 .. NumBlocks
    BY <2>1
  <2>4. Cardinality(1 .. NumBlocks) = NumBlocks
    <3>1. Cardinality(1 .. NumBlocks) = IF 1 > NumBlocks THEN 0 ELSE NumBlocks - 1 + 1
      BY <2>1, FS_Interval
    <3> QED
      BY <2>1, <3>1
  <2> QED
    BY <2>2, <2>3, <2>4 DEF CompleteWhenDone, LatestHeight, Heights
<1> QED
  BY <1>1, Invariance, PTL

(* TotalTxs is the sum of the lengths of the lists of transactions: by      *)
(* induction over the heights, along the recursion of Contents.             *)
THEOREM TotalTxsAreCounted == Spec => []TotalTxsIsRunningSum
<1>1. ASSUME Inv PROVE TotalTxsIsRunningSum
  <2> DEFINE counts(h) == [k \in 1 .. h |-> Len(txs[k])]
             total(h) == SumFunctionOnSet(counts(h), 1 .. h)
             T == {h \in Nat : h \in DOMAIN blocks => blocks[h].totalTxs = total(h)}
  <2>1. /\ \A h \in DOMAIN blocks : h \in Nat \ {0} /\ (1 .. h) \subseteq DOMAIN blocks
        /\ \A h \in DOMAIN blocks : Len(txs[h]) \in Nat
    <3>1. PICK top \in Int : DOMAIN blocks = 1 .. top
      <4>1. height \in Int
        BY <1>1, ChainAssumption DEF Inv, TypeOK
      <4> QED
        BY <1>1, <4>1 DEF Inv, Filled, Upto
    <3>2. \A h \in DOMAIN blocks : Len(txs[h]) \in Nat
      BY <1>1 DEF Inv, Contents, TypeOK, GoMap, BlockResults
    <3> QED
      BY <3>1, <3>2
  <2>2. ASSUME NEW h \in Nat, h \in T, h + 1 \in DOMAIN blocks
        PROVE  blocks[h + 1].totalTxs = total(h + 1)
    <3>1. /\ h + 1 - 1 = h
          /\ \A k \in 1 .. h + 1 : counts(h + 1)[k] \in Nat /\ counts(h + 1)[k] = Len(txs[k])
          /\ \A k \in 1 .. h : k \in 1 .. h + 1 /\ counts(h)[k] = counts(h + 1)[k]
      BY <2>1, <2>2
    <3>2. h + 1 \in 1 .. h + 1
      OBVIOUS
    <3> HIDE DEF counts
    <3>3. IsFiniteSet(1 .. h)
      BY FS_Interval
    <3>4. SumFunctionOnSet(counts(h + 1), 1 .. h + 1)
            = SumFunctionOnSet(counts(h + 1), 1 .. h) + Len(txs[h + 1])
      <4>1. \A k \in 1 .. h + 1 : counts(h + 1)[k] \in Int
        BY <3>1
      <4> QED
        BY <3>1, <3>2, <4>1, SumOfPrefix
    <3>5. SumFunctionOnSet(counts(h + 1), 1 .. h) = SumFunctionOnSet(counts(h), 1 .. h)
      <4>1. \A k \in 1 .. h : counts(h + 1)[k] \in Int /\ counts(h + 1)[k] = counts(h)[k]
        BY <3>1
      <4> QED
        BY <3>3, <4>1, SumCongruence
    <3>6. blocks[h + 1].totalTxs
            = Len(txs[h + 1]) + (IF h \in DOMAIN blocks THEN blocks[h].totalTxs ELSE 0)
      BY <1>1, <2>2, <3>1 DEF Inv, Contents
    <3>7. total(h) \in Int
      <4>1. \A k \in 1 .. h : counts(h)[k] \in Int
        BY <3>1
      <4> QED
        BY <3>3, <4>1, SumType
    <3>8. CASE h \in DOMAIN blocks
      BY <2>1, <2>2, <3>2, <3>4, <3>5, <3>6, <3>7, <3>8
    <3>9. CASE h \notin DOMAIN blocks
      <4>1. h = 0
        BY <2>1, <2>2, <3>9
      <4>2. total(h) = 0
        <5>1. 1 .. h = {}
          BY <4>1
        <5> QED
          BY <5>1, SumEmpty
      <4> QED
        BY <2>1, <2>2, <3>2, <3>4, <3>5, <3>6, <3>9, <4>2
    <3> QED
      BY <3>8, <3>9
  <2>3. T = Nat
    <3>1. T \in SUBSET Nat /\ 0 \in T
      BY <2>1
    <3>2. ASSUME NEW h \in T PROVE h + 1 \in T
      BY <2>2
    <3> HIDE DEF T
    <3> QED
      BY <3>1, <3>2, NatSetInduction
  <2>4. \A h \in DOMAIN blocks : blocks[h].totalTxs = total(h)
    <3> HIDE DEF total
    <3> QED
      BY <2>1, <2>3
  <2> QED
    BY <2>4 DEF TotalTxsIsRunningSum
<1> QED
  BY <1>1, Invariance, PTL

(* Evidence names stored blocks: the block of the snapshot, stored two      *)
(* statements earlier, and the one before it.                               *)
THEOREM EvidenceIsBuilt == Spec => []EvidenceNamesBuiltBlocks
<1>1. Inv => EvidenceNamesBuiltBlocks
  <2> SUFFICES ASSUME Inv, NEW h \in DOMAIN states,
                      NEW evidence \in states[h].doubleSigners
               PROVE  h \in evidence.heights /\ evidence.heights \subseteq DOMAIN blocks
    BY DEF EvidenceNamesBuiltBlocks
  <2>1. height \in Nat /\ height >= 1
    BY ChainAssumption DEF Inv, TypeOK
  <2>2. evidence \in DoubleSignersAt(h)
    BY DEF Inv, Contents, SnapshotStateAt
  <2>3. /\ h > 0 /\ h % DoubleSignPeriod = 0
        /\ evidence = [id |-> 2, heights |-> {h - 1, h}]
    BY <2>2 DEF DoubleSignersAt
  <2>4. h \in Nat /\ h \in DOMAIN blocks /\ \A k \in 1 .. h : k \in DOMAIN blocks
    BY <2>1, <2>3 DEF Inv, Filled, Upto, Before
  <2>5. h >= 2
    BY <2>3, <2>4, NoEvidenceAtOne
  <2> QED
    BY <2>3, <2>4, <2>5
<1> QED
  BY <1>1, Invariance, PTL

(* What hash the certificates inside transactions carry: the one fact Inv   *)
(* does not record that the next theorem needs.                             *)
GuessedHashes ==
  \A h \in DOMAIN txs : \A i \in DOMAIN txs[h] :
    txs[h][i].qc # Nil => txs[h][i].qc.blockHash = BlockHash(h)

LEMMA GuessedNext == Inv /\ GuessedHashes /\ [Next]_vars => GuessedHashes'
<1> SUFFICES ASSUME Inv, GuessedHashes, [Next]_vars PROVE GuessedHashes'
  OBVIOUS
<1>1. CASE GenerateTxs
  <2>1. height \in Nat /\ pc = "txs" /\ height \in Heights
    BY <1>1, ChainAssumption DEF Inv, TypeOK, GenerateTxs, Progress, InLoop
  <2>2. DOMAIN txs = 1 .. height - 1 /\ height \notin DOMAIN blocks
    BY <2>1 DEF Inv, Filled, Upto, InLoop
  <2>3. PICK count \in TxCounts : \E labels \in [1 .. count -> TxLabels] :
          txs' = Put(txs, height, [i \in 1 .. count |-> TxResult(labels[i], height, i)])
    BY <1>1 DEF GenerateTxs
  <2>4. PICK labels \in [1 .. count -> TxLabels] :
          txs' = Put(txs, height, [i \in 1 .. count |-> TxResult(labels[i], height, i)])
    BY <2>3
  <2>5. \A label, i : TxResult(label, height, i).qc # Nil
          => TxResult(label, height, i).qc.blockHash = BlockHash(height)
    BY <2>2 DEF TxResult, BuildCertificate
  <2> QED
    BY <2>4, <2>5 DEF GuessedHashes, Put
<1>2. CASE UNCHANGED txs
  BY <1>2 DEF GuessedHashes
<1> QED
  BY <1>1, <1>2
     DEF Next, vars, maps, Setup, SetupPanics, Genesis, GenerateEvents, StoreBlock,
         StoreDexBatch, StoreNextDexBatch, StoreState, StoreCert

(* A certificate inside a transaction, built before its block is stored,    *)
(* guesses the block's hash right.                                          *)
THEOREM TxCertificatesAgree == Spec => []TxCertNamesItsBlock
<1>1. Init => GuessedHashes
  BY DEF Init, GuessedHashes, EmptyMap
<1>2. Inv /\ GuessedHashes => TxCertNamesItsBlock
  BY DEF Inv, Contents, GuessedHashes, TxCertNamesItsBlock
<1> QED
  BY <1>1, <1>2, Invariance, GuessedNext, PTL DEF Spec

-----------------------------------------------------------------------------
(* Refinement: the builder implements the archive. *)

(* The entries below the current height are not touched by a step.          *)
LEMMA EntriesStay ==
  ASSUME Inv, [Next]_vars, NEW h \in 1 .. height - 1
  PROVE  Entry(h)' = Entry(h)
<1>1. height \in Nat /\ h # height /\ h \in 1 .. height
  BY ChainAssumption DEF Inv, TypeOK
<1>2. /\ h \in DOMAIN txs /\ h \in DOMAIN events /\ h \in DOMAIN blocks
      /\ h \in DOMAIN dexBatches /\ h \in DOMAIN nextDexBatches
      /\ h \in DOMAIN states /\ h \in DOMAIN certs
  BY <1>1 DEF Inv, Filled, Upto, Progress, Before
<1> DEFINE Stays ==
      /\ txs'[h] = txs[h] /\ events'[h] = events[h] /\ blocks'[h] = blocks[h]
      /\ dexBatches'[h] = dexBatches[h] /\ nextDexBatches'[h] = nextDexBatches[h]
      /\ states'[h] = states[h] /\ certs'[h] = certs[h]
<1>3. ASSUME UNCHANGED maps PROVE Stays
  BY <1>3 DEF maps
<1>4. ASSUME Genesis PROVE Stays
  BY <1>1, <1>4, ChainAssumption DEF Genesis, Inv, Progress, Before
<1>5. ASSUME GenerateTxs PROVE Stays
  BY <1>1, <1>2, <1>5 DEF GenerateTxs, Put
<1>6. ASSUME GenerateEvents PROVE Stays
  BY <1>1, <1>2, <1>6 DEF GenerateEvents, Put
<1>7. ASSUME StoreBlock PROVE Stays
  BY <1>1, <1>2, <1>7 DEF StoreBlock, Put
<1>8. ASSUME StoreDexBatch PROVE Stays
  BY <1>1, <1>2, <1>8 DEF StoreDexBatch, Put
<1>9. ASSUME StoreNextDexBatch PROVE Stays
  BY <1>1, <1>2, <1>9 DEF StoreNextDexBatch, Put
<1>10. ASSUME StoreState PROVE Stays
  BY <1>1, <1>2, <1>10 DEF StoreState, Put
<1>11. ASSUME StoreCert PROVE Stays
  BY <1>1, <1>2, <1>11 DEF StoreCert, Put
<1>12. Stays
  BY <1>3, <1>4, <1>5, <1>6, <1>7, <1>8, <1>9, <1>10, <1>11 DEF Next, vars, Setup, SetupPanics
<1> QED
  BY <1>12 DEF Entry

Committed == [h \in 1 .. height - 1 |-> Entry(h)]

\* Storing the certificate commits the height.
LEMMA CertCommits == ASSUME Inv, StoreCert PROVE A!Commit
<1> USE DEF StoreCert
<1>1. /\ NumBlocks \in Nat /\ height \in Nat /\ height >= 1 /\ height <= NumBlocks
      /\ pc = "cert"
  BY ChainAssumption DEF Inv, TypeOK, Progress, InLoop, Heights
<1>2. height' - 1 = height
  BY <1>1
<1>3. /\ height \in DOMAIN txs /\ height \in DOMAIN events /\ height \in DOMAIN blocks
      /\ height \in DOMAIN dexBatches /\ height \in DOMAIN nextDexBatches
      /\ height \in DOMAIN states
      /\ height > 1 => height - 1 \in DOMAIN blocks
      /\ DOMAIN certs = 1 .. height - 1
  BY <1>1 DEF Inv, Filled, Upto, InLoop, Before
<1>4. certs'[height] = BuildCertificate(height)
  BY DEF Put
<1>5. \A h : Entry(h)' = [txs |-> txs[h], events |-> events[h], block |-> blocks[h],
                         dexBatch |-> dexBatches[h], nextDexBatch |-> nextDexBatches[h],
                         state |-> states[h], cert |-> certs'[h]]
  BY DEF Entry
<1>6. DOMAIN Committed' = 1 .. height
  BY <1>2 DEF Committed
<1>7. \A h \in 1 .. height - 1 : Committed'[h] = Committed[h]
  BY <1>1, <1>2, EntriesStay DEF Committed, Next
<1>8. /\ Committed'[height].txs = txs[height]
      /\ Committed'[height].events = events[height]
      /\ Committed'[height].block = blocks[height]
      /\ Committed'[height].dexBatch = dexBatches[height]
      /\ Committed'[height].state = states[height]
      /\ Committed'[height].cert = BuildCertificate(height)
  BY <1>1, <1>2, <1>4, <1>5 DEF Committed
<1>9. /\ blocks[height].height = height /\ blocks[height].transactions = txs[height]
      /\ blocks[height].events = events[height] /\ states[height].height = height
  BY <1>3 DEF Inv, Contents, SnapshotStateAt
<1>10. A!Coherent(Committed'[height], height)
  BY <1>3, <1>8, <1>9 DEF A!Coherent, BuildCertificate, Get, DoubleSigners
<1>11. ASSUME height - 1 > 0 PROVE A!Linked(Committed'[height], Committed[height - 1])
  <2>1. Committed[height - 1].block = blocks[height - 1]
    BY <1>1, <1>11 DEF Committed, Entry
  <2>2. height \in DOMAIN blocks /\ height - 1 \in DOMAIN blocks
    BY <1>1, <1>3, <1>11
  <2>3. blocks[height].lastHash = blocks[height - 1].hash
    BY <2>2 DEF Inv, Contents
  <2>4. blocks[height].totalTxs = blocks[height].numTxs + blocks[height - 1].totalTxs
    BY <2>2 DEF Inv, Contents
  <2>5. blocks[height].numTxs \in Nat /\ blocks[height - 1].totalTxs \in Nat
    BY <2>2 DEF Inv, TypeOK, GoMap, BlockResults
  <2> QED
    BY <1>8, <2>1, <2>3, <2>4, <2>5 DEF A!Linked
<1>12. Phase = "building" /\ Phase' = IF height = NumBlocks THEN "sealed" ELSE "building"
  <2>1. pc' = IF height + 1 <= NumBlocks THEN "txs" ELSE "done"
    BY DEF LoopHead
  <2> QED
    BY <1>1, <2>1 DEF Phase
<1>13. height - 1 + 1 = height /\ height - 1 < NumBlocks
  BY <1>1
<1> QED
  BY <1>2, <1>6, <1>7, <1>10, <1>11, <1>12, <1>13 DEF A!Commit, Committed

(* The builder implements the archive: every statement is either invisible  *)
(* to a reader of committed heights, or commits one coherent height, linked *)
(* to its predecessor, or ends the construction before the first commit.    *)
THEOREM Refinement == Spec => ImplementsArchive
<1>1. Init => A!Init
  <2> SUFFICES ASSUME Init PROVE A!Init
    OBVIOUS
  <2>1. height - 1 = 0 /\ 1 .. height - 1 = {} /\ Phase = "building"
    BY DEF Init, Phase
  <2> QED
    BY <2>1 DEF A!Init
<1>2. Inv /\ Inv' /\ [Next]_vars => [A!Next]_(A!vars)
  <2> SUFFICES ASSUME Inv, Inv', [Next]_vars PROVE [A!Next]_(A!vars)
    OBVIOUS
  <2>1. CASE StoreCert
    BY <2>1, CertCommits DEF A!Next
  <2>2. CASE SetupPanics
    <3>1. height = 1 /\ height' = 1 /\ Phase = "building" /\ Phase' = "failed"
      BY <2>2 DEF SetupPanics, Inv, Progress, Before, Phase
    <3>2. Committed' = Committed
      BY <3>1 DEF Committed
    <3> QED
      BY <3>1, <3>2 DEF A!Next, A!Fail, Committed
  <2>3. CASE Genesis
    <3>1. height = 1 /\ height' = 1 /\ Phase = "building"
      BY <2>3 DEF Genesis, Inv, Progress, Before, Phase
    <3>2. Committed' = Committed
      BY <3>1 DEF Committed
    <3>3. CASE NumBlocks = 0
      <4>1. Phase' = "sealed"
        BY <2>3, <3>1, <3>3 DEF Genesis, LoopHead, Phase
      <4> QED
        BY <3>1, <3>2, <3>3, <4>1 DEF A!Next, A!SealEmpty, Committed
    <3>4. CASE NumBlocks # 0
      <4>1. Phase' = "building"
        BY <2>3, <3>1, <3>4, ChainAssumption DEF Genesis, LoopHead, Phase
      <4> QED
        BY <3>1, <3>2, <4>1 DEF A!vars, Committed
    <3> QED
      BY <3>3, <3>4
  <2>4. ASSUME height' = height, Phase' = Phase PROVE UNCHANGED A!vars
    <3>1. Committed' = Committed
      BY <2>4, EntriesStay DEF Committed
    <3> QED
      BY <2>4, <3>1 DEF A!vars, Committed
  <2>5. CASE UNCHANGED vars
    BY <2>4, <2>5 DEF vars, Phase
  <2>6. CASE Setup \/ GenerateTxs \/ GenerateEvents \/ StoreBlock \/ StoreDexBatch
                   \/ StoreNextDexBatch \/ StoreState
    BY <2>4, <2>6
       DEF Setup, GenerateTxs, GenerateEvents, StoreBlock, StoreDexBatch,
           StoreNextDexBatch, StoreState, Phase
  <2> QED
    BY <2>1, <2>2, <2>3, <2>5, <2>6 DEF Next
<1> QED
  BY <1>1, <1>2, Invariance, PTL DEF Spec, ImplementsArchive, A!Spec
=============================================================================
