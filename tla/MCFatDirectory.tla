---------------------------- MODULE MCFatDirectory ----------------------------
(***************************************************************************)
(* Bounds for TLC.  Two long names with the same short one and the same    *)
(* first piece, and an 8.3 name that is the short name generated for the   *)
(* first of them: they collide in every way dir_find and gen_numname tell  *)
(* apart.  Sectors of three entries, so that runs and sets of three and    *)
(* four cross them, and stretch a table of one.                            *)
(***************************************************************************)
EXTENDS FatDirectory

LongA == [text |-> <<<<"long", 1>>, <<"a", 2>>>>, sfn |-> <<"LON", 0>>, lfn |-> TRUE, lossy |-> TRUE]
LongB == [text |-> <<<<"long", 1>>>>, sfn |-> <<"LON", 0>>, lfn |-> TRUE, lossy |-> TRUE]
Short == [text |-> <<<<"LON", 1>>>>, sfn |-> <<"LON", 1>>, lfn |-> FALSE, lossy |-> FALSE]
MCNames == {LongA, LongB, Short}
=============================================================================
