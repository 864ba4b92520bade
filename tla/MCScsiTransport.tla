---------------------------- MODULE MCScsiTransport ----------------------------
(***************************************************************************)
(* Bounds for TLC.  Four chunks let a retry resume in the middle twice     *)
(* with a length field that no longer matches what is left; four failing   *)
(* posts are one more than the attempts; three commands let one find the   *)
(* device where another left it.                                           *)
(***************************************************************************)
EXTENDS ScsiTransport
=============================================================================
