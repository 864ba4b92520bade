------------------------------- MODULE MCFatLock -------------------------------
(***************************************************************************)
(* Bounds for TLC.  Two volumes share a table of two entries, three        *)
(* handles compete for them; with one sub-directory per volume a file can  *)
(* be in it or next to it, and its cluster can be used again.  Two mounts  *)
(* let a volume be mounted again while old handles are still there, or     *)
(* both volumes be mounted at once.                                        *)
(***************************************************************************)
EXTENDS FatLock, TLC

Symmetry == Permutations(Volumes) \union Permutations(Handles)
=============================================================================
