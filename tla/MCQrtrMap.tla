------------------------------ MODULE MCQrtrMap ------------------------------
(***************************************************************************)
(* A small instance of QrtrMap: tables of 1, 2 and 3 slots, and keys that  *)
(* share home slots in each.                                               *)
(***************************************************************************)
EXTENDS QrtrMap

MCKeys == {0, 1, 3, 6}
=============================================================================
