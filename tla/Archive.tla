------------------------------ MODULE Archive ------------------------------
(***************************************************************************)
(* What a mock chain promises its readers: an append-only archive of       *)
(* heights.  Heights appear one at a time and never change again; each one *)
(* is coherent in itself (its block, transactions, dex batch, snapshot and *)
(* certificate tell the same story) and linked to the one before it.  The  *)
(* archive is handed out complete or not at all.                           *)
(***************************************************************************)
EXTENDS Integers

CONSTANT Target   \* the heights a complete archive holds are 1 .. Target

VARIABLES
  archive,  \* the committed heights, a function on 1 .. tip
  tip,      \* the newest committed height, 0 if there is none
  phase     \* "building", "sealed" (handed to readers) or "failed"

vars == <<archive, tip, phase>>

Coherent(entry, h) ==
  /\ entry.block.height = h
  /\ entry.block.transactions = entry.txs
  /\ entry.block.events = entry.events
  /\ entry.state.height = h
  /\ entry.cert.height = h
  /\ entry.cert.blockHash = entry.block.hash
  /\ entry.cert.dexBatch = entry.dexBatch
  /\ entry.cert.slashed = entry.state.doubleSigners

Linked(entry, parent) ==
  /\ entry.block.lastHash = parent.block.hash
  /\ entry.block.totalTxs = parent.block.totalTxs + entry.block.numTxs

Init ==
  /\ archive = [h \in {} |-> 0]
  /\ tip = 0
  /\ phase = "building"

Commit ==
  /\ phase = "building"
  /\ tip < Target
  /\ tip' = tip + 1
  /\ DOMAIN archive' = 1 .. tip + 1
  /\ \A h \in 1 .. tip : archive'[h] = archive[h]
  /\ Coherent(archive'[tip + 1], tip + 1)
  /\ tip > 0 => Linked(archive'[tip + 1], archive[tip])
  /\ phase' = IF tip + 1 = Target THEN "sealed" ELSE "building"

\* An archive without heights is complete at once.
SealEmpty ==
  /\ phase = "building"
  /\ Target = 0
  /\ phase' = "sealed"
  /\ UNCHANGED <<archive, tip>>

\* Construction may fail, but only before the first height is committed.
Fail ==
  /\ phase = "building"
  /\ tip = 0
  /\ phase' = "failed"
  /\ UNCHANGED <<archive, tip>>

Next == Commit \/ SealEmpty \/ Fail

Spec == Init /\ [][Next]_vars
=============================================================================
