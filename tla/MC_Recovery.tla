---------------------------- MODULE MC_Recovery ----------------------------
(***************************************************************************)
(* The pending commands are interchangeable.                               *)
(***************************************************************************)
EXTENDS Recovery, TLC

PendingSymmetry == Permutations(Pending)
=============================================================================
