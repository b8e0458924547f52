------------------------------ MODULE MCLedger ------------------------------
(***************************************************************************)
(* Instances of Ledger for TLC.  MCBase has one account as large as the    *)
(* residual, so that tie-breaking matters, and a noise of 7/4 on both      *)
(* other accounts is enough for the fallback.                              *)
(***************************************************************************)
EXTENDS Ledger

MCBase == <<5, 7, 7>>
=============================================================================
