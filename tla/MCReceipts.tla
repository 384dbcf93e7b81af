----------------------------- MODULE MCReceipts -----------------------------
(* A chain of five blocks, a hot store of two, one missing receipt per tick. *)
EXTENDS Receipts
=============================================================================
