-------------------------- MODULE MC_BlockDevice --------------------------
(***************************************************************************)
(* Small devices for TLC: blocks of one or two bytes, two to four blocks.  *)
(***************************************************************************)
EXTENDS BlockDeviceDisk, TLC

CallerSymmetry == Permutations(Callers)

\* <<offset, size>> of requests to a device of two blocks of two bytes:
\* whole blocks, parts of blocks, requests that cross the end of the device,
\* begin behind it or ask for nothing.
MixedReads  == {<<1, 2>>, <<0, 4>>, <<3, 3>>, <<4, 1>>, <<1, 0>>}
MixedWrites == {<<0, 2>>, <<1, 2>>, <<3, 3>>, <<4, 1>>}

\* Requests to a device of one-byte blocks.
EachBlock   == Byte \X {1}
FirstBlock  == {<<0, 1>>}
LastOfThree == {<<2, 1>>}

\* Request sets for the changed configurations that the README lists, in which
\* a promise of the documents does not hold.
Nowhere         == {}
WholeDevice     == {<<0, 2>>}
TwoThenOne      == {<<0, 2>>, <<0, 1>>}
TwoAndOneInside == {<<0, 2>>, <<1, 1>>}
=============================================================================
