------------------------------ MODULE VolumeTable ------------------------------
(***************************************************************************)
(* What the drive manager promises about the FatFs volume numbers: a slot  *)
(* belongs to at most one interface, an interface has at most one slot, a  *)
(* slot is handed over only through Free, and a slot that is lost (its     *)
(* drive was destroyed without being unmounted) is never handed out again. *)
(***************************************************************************)
CONSTANTS Ifaces, Volumes, Free, Lost

VARIABLE slot

Init == slot = [v \in Volumes |-> Free]

Claim(v, i) ==
    /\ slot[v] = Free
    /\ \A w \in Volumes : slot[w] # i
    /\ slot' = [slot EXCEPT ![v] = i]

Release(v) ==
    /\ slot[v] \in Ifaces
    /\ slot' = [slot EXCEPT ![v] = Free]

Lose(S) ==
    /\ \A v \in S : slot[v] \in Ifaces
    /\ slot' = [v \in Volumes |-> IF v \in S THEN Lost ELSE slot[v]]

Next ==
    \/ \E v \in Volumes : Release(v) \/ \E i \in Ifaces : Claim(v, i)
    \/ \E S \in SUBSET Volumes : Lose(S)

Spec == Init /\ [][Next]_slot
=============================================================================
