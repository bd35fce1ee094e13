----------------------------- MODULE MC_Session -----------------------------
(***************************************************************************)
(* Small sessions for TLC.  The commands are interchangeable.              *)
(***************************************************************************)
EXTENDS SessionService, TLC

CmdSymmetry == Permutations(Cmd)
=============================================================================
