----------------------------- MODULE MCVolumeMount -----------------------------
(***************************************************************************)
(* Bounds for TLC: sectors of 8 or 16 bytes, directory entries of 4, 12 to *)
(* 32 clusters where a type of FAT ends, and 2^32 in the place of 256.     *)
(* Volumes on the whole medium with parameters on both sides of each       *)
(* check, and volumes behind an MBR or a GPT, some of them behind          *)
(* partitions of another kind, some of them across sector 256.             *)
(***************************************************************************)
EXTENDS VolumeMount, TLC, FiniteSets

Fat == [kind |-> "fat", bps |-> 8, fatsz |-> 3, nfats |-> 2, csize |-> 1, rootent |-> 2, tsect |-> 16,
        nrsv |-> 1, ver |-> 0, fsinfo |-> 1, root |-> 2]
Ex == [kind |-> "exfat", zeroed |-> TRUE, ver |-> 1, bshift |-> 3, tsect |-> 24, dataofs |-> 6, fatofs |-> 2,
       fsize |-> 3, nfats |-> 1, cshift |-> 1, nclst |-> 5, root |-> 3]
Info == [kind |-> "fsinfo", free |-> 3, last |-> 5]
Boot == [kind |-> "boot"]

Fats ==
    {[Fat EXCEPT !.fatsz = z, !.nfats = n, !.csize = c, !.rootent = r, !.tsect = t] :
        z \in {2, 6}, n \in {1, 2}, c \in {1, 2}, r \in {0, 2}, t \in {5, 10, 16, 20}} \cup
    {[Fat EXCEPT !.rootent = 0, !.fatsz = z, !.tsect = t, !.nrsv = 2] : z \in {5, 6, 7, 9}, t \in {23, 24, 25, 30, 36}} \cup
    {[Fat EXCEPT !.bps = 16], [Fat EXCEPT !.nfats = 0], [Fat EXCEPT !.nfats = 3], [Fat EXCEPT !.csize = 0],
     [Fat EXCEPT !.csize = 3], [Fat EXCEPT !.rootent = 1], [Fat EXCEPT !.nrsv = 0],
     [Fat EXCEPT !.rootent = 0, !.fatsz = 6, !.tsect = 24, !.ver = 1],
     [Fat EXCEPT !.rootent = 0, !.fatsz = 6, !.tsect = 24, !.fsinfo = 0],
     [Fat EXCEPT !.fatsz = 130]}

\* An exFAT volume at sector s: its root directory's first cluster, and its FAT.
ExAt(s, v, dir, next) ==
    (s :> v) @@
    [d \in {s + v.dataofs + (2 ^ v.cshift) * (v.root - 2) + k : k \in 0 .. Len(dir) - 1} |->
        [kind |-> "dir", bitmap |-> dir[d - (s + v.dataofs + (2 ^ v.cshift) * (v.root - 2)) + 1]]] @@
    [f \in {s + v.fatofs + k : k \in 0 .. (Len(next) - 1) \div 2} |->
        [kind |-> "table", next |-> SubSeq(next, 2 * (f - s - v.fatofs) + 1, 2 * (f - s - v.fatofs) + 2)]]

Chains == {<<-1, -1, -1, 0, 0, 0, 0, 0>>, <<-1, -1, 3, 4, -1, 0, 0, 0>>, <<-1, -1, 4, 0, -1, 0, 0, 0>>,
           <<-1, -1, 4, 5, -1, 0, 0, 0>>}
Exs == {ExAt(0, v, dir, next) :
            v \in {Ex, [Ex EXCEPT !.root = 2], [Ex EXCEPT !.cshift = 0], [Ex EXCEPT !.cshift = 2],
                   [Ex EXCEPT !.tsect = 12]},
            dir \in {<<2>>, <<-1, 3>>, <<-1, -1>>, <<7>>}, next \in Chains} \cup
       {ExAt(0, v, <<2>>, <<-1, -1, -1, 0>>) :
            v \in {[Ex EXCEPT !.zeroed = FALSE], [Ex EXCEPT !.ver = 2], [Ex EXCEPT !.bshift = 4], [Ex EXCEPT !.nfats = 2],
                   [Ex EXCEPT !.cshift = 5], [Ex EXCEPT !.nclst = 33], [Ex EXCEPT !.root = 9],
                   [Ex EXCEPT !.nclst = 32, !.cshift = 3, !.root = 2]}} \cup
       {ExAt(0, [Ex EXCEPT !.nclst = 32, !.cshift = 4, !.root = 2], <<20>>, [c \in 1 .. 22 |-> -1])}

Behind(s) == {(s :> Fat), (s :> Ex), ExAt(s, Ex, <<2>>, <<-1, -1, 3, -1>>), (s :> Boot), (s :> None)}
Mbrs == {(0 :> [kind |-> "mbr", part |-> p]) @@ a @@ b :
            p \in {<<0, 20, 60, 0>>, <<60, 0, 0, 20>>, <<0, 0, 0, 20>>}, a \in Behind(20), b \in Behind(60)}
Gpts == {(0 :> [kind |-> "pmbr"]) @@ (1 :> [kind |-> "gpt", n |-> n, at |-> 2, per |-> 2]) @@
         (2 :> [kind |-> "ptes", lba |-> p]) @@ (3 :> [kind |-> "ptes", lba |-> <<250, 300>>]) @@ a @@ b :
            n \in {2, 4}, p \in {<<0, 100>>, <<250, 0>>}, a \in Behind(100), b \in Behind(250)}

MCHeap == {[Fat EXCEPT !.tsect = 15]}
MCMedia == {[size |-> 40, sector |-> (0 :> v) @@ (1 :> Info)] : v \in Fats} \cup
           {[size |-> 40, sector |-> x] : x \in Exs} \cup
           {[size |-> 100, sector |-> x] : x \in Mbrs} \cup
           {[size |-> 400, sector |-> x] : x \in Gpts} \cup
           {[size |-> 1, sector |-> (0 :> Fat)], [size |-> 255, sector |-> (0 :> [kind |-> "pmbr"])],
            [size |-> 256, sector |-> (0 :> Boot)], [size |-> 257, sector |-> (0 :> None)]}
=============================================================================
