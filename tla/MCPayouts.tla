----------------------------- MODULE MCPayouts -----------------------------
(***************************************************************************)
(* Small instances of Payouts for TLC.                                     *)
(***************************************************************************)
EXTENDS Payouts

CONSTANTS n1, n2

============================================================================
