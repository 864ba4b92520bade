---------------------------- MODULE ClusterOwners ----------------------------
(***************************************************************************)
(* What cluster allocation promises: every object has a sequence of        *)
(* clusters of its own, which grows at its end by clusters nobody owns and *)
(* is cut at its end.                                                      *)
(***************************************************************************)
EXTENDS Integers, Sequences

CONSTANTS Slots, Clusters
VARIABLES
    owned,   \* owned[s]: the clusters of object s, in order
    mounts   \* how often the volume was mounted again

Apart(o) ==
    /\ \A s \in Slots : \A i, j \in DOMAIN o[s] : o[s][i] = o[s][j] => i = j
    /\ \A s, t \in Slots : s # t =>
            \A i \in DOMAIN o[s], j \in DOMAIN o[t] : o[s][i] # o[t][j]

Init ==
    /\ owned = [s \in Slots |-> <<>>]
    /\ mounts = 0

\* The end of a chain goes.
Cut(s, o, p) ==
    /\ \A t \in Slots \ {s} : p[t] = o[t]
    /\ Len(p[s]) <= Len(o[s]) /\ p[s] = SubSeq(o[s], 1, Len(p[s]))
\* A chain grows by a cluster that is in no other and not yet in this one.
Give(s, o, p) ==
    /\ \A t \in Slots \ {s} : p[t] = o[t]
    /\ \E c \in Clusters : p[s] = Append(o[s], c)
    /\ Apart(p)
\* A chain gets another name.
HandOn(s, t, o, p) ==
    /\ o[t] = <<>> /\ p[s] = <<>> /\ p[t] = o[s]
    /\ \A u \in Slots \ {s, t} : p[u] = o[u]

Use ==
    /\ mounts' = mounts
    /\ LET o == owned
           p == owned' IN
       \/ \E s \in Slots : Cut(s, o, p) \/ Give(s, o, p)
       \/ \E s, t \in Slots : HandOn(s, t, o, p)

\* The drive was pulled: each object may have more or less than before.
Again ==
    /\ mounts' = mounts + 1
    /\ owned' \in [Slots -> Seq(Clusters)]
    /\ Apart(owned')

Next == Use \/ Again

Spec == Init /\ [][Next]_<<owned, mounts>>
=============================================================================
