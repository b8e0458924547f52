------------------------------ MODULE MCRoutes ------------------------------
(***************************************************************************)
(* Routes with up to two blocks.  Every second height has no non-signers.  *)
(* The lists have none to four items, in pages of one, two (the default)   *)
(* or three.                                                               *)
(***************************************************************************)
EXTENDS Routes

MCBlockLists == [route \in BlockRoutes |-> IF route = "txs" THEN <<4, 0>> ELSE <<1, 3>>]
MCSnapshotLists == [accounts |-> 4, pools |-> 3, validators |-> 1]
=============================================================================
