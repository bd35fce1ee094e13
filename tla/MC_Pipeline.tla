---------------------------- MODULE MC_Pipeline ----------------------------
(***************************************************************************)
(* A device of five blocks of which two fit in a burst, and addresses that *)
(* are too large for the short CDBs from block 4 on.                       *)
(***************************************************************************)
EXTENDS Pipeline, TLC

ThreeBlocks ==
    {[op |-> "read", lba |-> 1, count |-> 3], [op |-> "write", lba |-> 2, count |-> 3]}

FixedSense ==
    [long : {TRUE}, format : {"fixed"}, key : {"unitAttention", "mediumError"}]

AnySense ==
    [long : BOOLEAN, format : {"fixed", "descriptor"}, key : {"unitAttention", "mediumError"}]
=============================================================================
