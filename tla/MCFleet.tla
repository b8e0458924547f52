------------------------------ MODULE MCFleet ------------------------------
(***************************************************************************)
(* Fleet with up to three chains on ports 2, 3 and 4 of four: the last     *)
(* chain of three uses the last port there is, the fourth has none, and    *)
(* the temporary listeners may get the ports of the chains, as they may in *)
(* the code (Linux hands out 32768 .. 60999, the fleet starts at 60000).   *)
(***************************************************************************)
EXTENDS Fleet

MCChainCounts == -1 .. 4
=============================================================================
