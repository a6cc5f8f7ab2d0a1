----------------------------- MODULE MCReceipts -----------------------------
(* Constants for model-checking Receipts.                                  *)
EXTENDS Receipts, TLC

CONSTANTS admin, ann, r1, r2

MCRole == (admin :> "ADMIN") @@ (ann :> "CONTRIBUTOR")

MCSymmetry == Permutations(Receipts)
=============================================================================
