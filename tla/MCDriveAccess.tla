----------------------------- MODULE MCDriveAccess -----------------------------
(***************************************************************************)
(* Bounds for TLC.  With three drives, two indices and two blocks a        *)
(* dropped drive's index and its memory can both be taken over, together   *)
(* or one of them, by two drives one after the other, while a session, a   *)
(* file or a command of it is still there.  With two ids the third mount   *)
(* has the id of the first, so that Fsid wraps within a run.               *)
(***************************************************************************)
EXTENDS DriveAccess, TLC

DriveSymmetry == Permutations(Drives) \union Permutations(Blocks)
=============================================================================
