------------------------------ MODULE MCFatFile ------------------------------
(***************************************************************************)
(* Bounds for TLC.  Two bytes in a sector and two sectors in a cluster are *)
(* the least with partial sectors, whole sectors and transfers of several  *)
(* sectors clipped at a cluster; two clusters let the volume be full after *)
(* the first.  Word = 6 makes FAT's limit fall inside the second cluster.  *)
(***************************************************************************)
EXTENDS FatFile
=============================================================================
