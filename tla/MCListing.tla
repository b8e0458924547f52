----------------------------- MODULE MCListing -----------------------------
(***************************************************************************)
(* Listing with five-bit ints: lists of up to nine items, every page size  *)
(* and every page number an int can hold.                                  *)
(***************************************************************************)
EXTENDS Listing

MCInts == -16 .. 15
=============================================================================
