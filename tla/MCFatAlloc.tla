------------------------------ MODULE MCFatAlloc ------------------------------
(***************************************************************************)
(* Bounds for TLC.  Four clusters on two FAT sectors let two files         *)
(* interleave their fragments, so that exFAT's first and last fragment and *)
(* the wrap of the search occur, and a call touch two FAT sectors.  The    *)
(* two files are in directories of their own, and interchangeable.         *)
(***************************************************************************)
EXTENDS FatAlloc, TLC

MCDirSector == [s \in Slots |-> s]
Symmetry == Permutations(Slots)
=============================================================================
