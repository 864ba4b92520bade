----------------------------- MODULE MCUsbManager -----------------------------
(***************************************************************************)
(* Instances of UsbManager for TLC.                                        *)
(***************************************************************************)
EXTENDS UsbManager

CONSTANTS d1, d2, d3

\* One FAT drive, one drive whose second unit is FAT, one without a
\* FAT volume, behind a unit that does not answer.
MixedLuns == [i \in Ifaces |->
    CASE i = d1 -> <<"fat">>
      [] i = d2 -> <<"other", "fat">>
      [] OTHER -> <<"dead", "other">>]

OtherLuns == [i \in Ifaces |-> <<"other">>]
=============================================================================
