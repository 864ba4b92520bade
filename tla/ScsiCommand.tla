------------------------------ MODULE ScsiCommand ------------------------------
(***************************************************************************)
(* What SCSIDevice::TransferCommand promises its callers: a device that is *)
(* not ok answers FAILED at once and stays that way; a status that came    *)
(* from the device leaves it ok; anything else is FAILED and may end it.   *)
(***************************************************************************)
VARIABLES ok, busy, status, received

Init == ok = TRUE /\ busy = FALSE /\ status = "none" /\ received = FALSE

Start == ~busy /\ ok /\ busy' = TRUE /\ status' = "none" /\ received' = FALSE /\ UNCHANGED ok

Refuse == ~busy /\ ~ok /\ status' = "failed" /\ received' = FALSE /\ UNCHANGED <<ok, busy>>

Answer ==
    /\ busy
    /\ busy' = FALSE
    /\ status' \in {"success", "failed", "phase"}
    /\ received' = TRUE
    /\ UNCHANGED ok

GiveUp == busy /\ busy' = FALSE /\ status' = "failed" /\ ok' \in BOOLEAN /\ UNCHANGED received

Next == Start \/ Refuse \/ Answer \/ GiveUp

Spec == Init /\ [][Next]_<<ok, busy, status, received>>
=============================================================================
