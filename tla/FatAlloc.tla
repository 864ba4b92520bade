------------------------------- MODULE FatAlloc -------------------------------
(***************************************************************************)
(* How FatFs hands clusters to files and takes them back (ff.c): the FAT   *)
(* of FAT16 and FAT32, on exFAT the allocation bitmap with a FAT that is   *)
(* only kept for fragmented files, the free count with the FSINFO sector,  *)
(* and the order in which the one-sector window fs->win brings all of it   *)
(* to the drive.                                                           *)
(*                                                                         *)
(* fat, bitmap and entry are what FatFs sees through its window; disk is   *)
(* what the drive holds.  They differ in the window's sector, while it is  *)
(* dirty.  A call is a chain of steps, each of which makes one change to   *)
(* the window; the drive can be pulled between any two.  Sizes and file    *)
(* pointers are in clusters, rounded up; data sectors are left out.  The   *)
(* calls are those of DriveFile and DriveFileSystem, on the IPC thread     *)
(* alone: f_lseek stands for a read, a write or a resize that ends there   *)
(* (f_write stretches the chain with the same create_chain).               *)
(***************************************************************************)
EXTENDS Integers, Sequences, FiniteSets

CONSTANTS
    FsTypes,       \* which of "fat16", "fat32", "exfat"
    NClusters,     \* clusters of the volume
    PerSector,     \* FAT entries in a sector
    Slots,         \* places for directory entries
    DirSector,     \* DirSector[s]: sector of the directory slot s is in
    Sizes,         \* bound: clusters a file is made or sought to
    MaxCalls,      \* bound: calls that change the volume
    MaxPulls       \* bound: times the drive is pulled and comes back

ASSUME AllocAssumption ==
    /\ FsTypes \subseteq {"fat16", "fat32", "exfat"}
    /\ NClusters \in Nat \ {0}
    /\ PerSector \in Nat \ {0}
    /\ DOMAIN DirSector = Slots
    /\ Sizes \subseteq Nat
    /\ MaxCalls \in Nat
    /\ MaxPulls \in Nat

n_fatent == NClusters + 2
Clusters == 2 .. n_fatent - 1
EOC == 2 * n_fatent      \* the value that ends a chain: no cluster, nor next to one
Unknown == 2 * n_fatent  \* 0xFFFFFFFF in free_clst and last_clst

VARIABLES
    fs_type,
    fat, bitmap, entry,              \* the volume as FatFs sees it
    win,                             \* winsect and wflag
    free_clst, last_clst, fsi_flag,
    disk,                            \* the volume as the drive holds it
    obj,                             \* obj[s]: FFOBJID of the object in slot s
    file,                            \* file[s]: FIL of the file in slot s
    call,                            \* the call under way and where it is
    calls, pulls                     \* for the bounds

volume == <<fat, bitmap, entry>>
counts == <<free_clst, last_clst, fsi_flag>>
bounds == <<calls, pulls>>
vars == <<fs_type, volume, win, counts, disk, obj, file, call, calls, pulls>>

ExFat == fs_type = "exfat"
BoundedMax(a, b) == IF a < b THEN b ELSE a

NoEntry == [used |-> FALSE, sclust |-> 0, size |-> 0, stat |-> 0]
NoObj == [sclust |-> 0, objsize |-> 0, stat |-> 0, n_cont |-> 0, n_frag |-> 0]
\* cut is a history variable: the chain was cut since the last f_sync.
NoFile == [open |-> FALSE, fptr |-> 0, clust |-> 0, modified |-> FALSE, cut |-> FALSE]
Idle == [op |-> "none", pc |-> "idle", s |-> 0, to |-> 0, clst |-> 0, pclst |-> 0,
         ncl |-> 0, scl |-> 0, ecl |-> 0, failed |-> FALSE]

-----------------------------------------------------------------------------
(* The window *)

FatSector(c) == <<"fat", c \div PerSector>>
EntrySector(s) == <<"dir", DirSector[s]>>
BitmapSector == <<"bitmap", 0>>
FsInfoSector == <<"fsinfo", 0>>

\* sync_window: the window's sector goes to the drive.
Flushed ==
    IF ~win.wflag THEN disk
    ELSE [disk EXCEPT
        !.fat = [c \in Clusters |-> IF FatSector(c) = win.sect THEN fat[c] ELSE @[c]],
        !.bitmap = IF BitmapSector = win.sect THEN bitmap ELSE @,
        !.entry = [s \in Slots |-> IF EntrySector(s) = win.sect THEN entry[s] ELSE @[s]]]

\* move_window, once or several times: over the sectors of R, at last to sect.
Visit(R, sect) ==
    LET moved == R \union {sect} # {win.sect} IN
    /\ disk' = IF moved THEN Flushed ELSE disk
    /\ win' = [sect |-> sect, wflag |-> win.wflag /\ ~moved]
Read(R) == \/ R = {} /\ UNCHANGED <<win, disk>>
           \/ \E sect \in R : Visit(R, sect)
\* Mutant: fs->wflag is not set.
ModifyClean(R, sect) == Visit(R, sect)
Modify(R, sect) ==
    /\ disk' = IF R \union {sect} # {win.sect} THEN Flushed ELSE disk
    /\ win' = [sect |-> sect, wflag |-> TRUE]

\* sync_fs, with the FSINFO sector of FAT32.
SyncFs ==
    IF fs_type = "fat32" /\ fsi_flag
    THEN /\ disk' = [Flushed EXCEPT !.free = free_clst, !.last = last_clst]
         /\ win' = [sect |-> FsInfoSector, wflag |-> FALSE]
         /\ fsi_flag' = FALSE
         /\ UNCHANGED <<free_clst, last_clst>>
    ELSE /\ disk' = Flushed
         /\ win' = [win EXCEPT !.wflag = FALSE]
         /\ UNCHANGED counts

-----------------------------------------------------------------------------
(* FAT and allocation bitmap *)

\* get_fat: on exFAT most values are generated.
Generated(o, c) ==
    /\ ExFat
    /\ \/ o.stat = 2 \/ o.n_frag # 0
       \/ o.stat = 3 /\ c >= o.sclust /\ c - o.sclust < o.n_cont
FatReads(o, c) == IF c \in Clusters /\ ~Generated(o, c) THEN {FatSector(c)} ELSE {}
GetFat(o, c) ==
    CASE c \notin Clusters -> 1
      [] c \in Clusters /\ ~ExFat -> fat[c]
      [] c \in Clusters /\ ExFat ->
            LET cofs == c - o.sclust
                clen == o.objsize - 1 IN
            IF ~(o.stat = 0 \/ (o.objsize # 0 /\ o.sclust # 0)) THEN 1
            ELSE
            CASE o.stat = 2 -> IF cofs \in 0 .. clen THEN (IF cofs = clen THEN EOC ELSE c + 1) ELSE 1
              [] o.stat = 3 /\ cofs \in 0 .. o.n_cont - 1 -> c + 1
              [] OTHER -> IF o.n_frag # 0 THEN EOC ELSE fat[c]

InUse(c) == IF ExFat THEN bitmap[c] ELSE fat[c] # 0
NFree == Cardinality({c \in Clusters : ~InUse(c)})

\* The search of create_chain: after scl on FAT, from scl on exFAT, round to scl.
Distance(scl, c) ==
    LET d == c - scl IN
    IF d < 0 \/ (d = 0 /\ ~ExFat) THEN d + NClusters ELSE d
Nearest(scl) ==
    LET free == {c \in Clusters : ~InUse(c)} IN
    IF free = {} THEN 0
    ELSE CHOOSE c \in free : \A e \in free : Distance(scl, c) <= Distance(scl, e)
Hint == IF last_clst = 0 \/ last_clst >= n_fatent THEN 1 ELSE last_clst
NextTo(clst) == IF clst + 1 \in Clusters THEN clst + 1 ELSE 2
SearchFrom(clst) ==
    IF clst = 0 THEN Hint
    ELSE IF ~ExFat /\ last_clst \in Clusters THEN last_clst ELSE clst

\* The free cluster taken to stretch a chain at clst, 0 if there is none.
FreeCluster(clst) ==
    IF clst # 0 /\ ~ExFat /\ ~InUse(NextTo(clst)) THEN NextTo(clst)
    ELSE Nearest(SearchFrom(clst))
\* The sectors looked at on the way to it.
Searched(clst) ==
    LET ncl == FreeCluster(clst)
        far(c) == ncl = 0 \/ Distance(SearchFrom(clst), c) <= Distance(SearchFrom(clst), ncl) IN
    IF ExFat THEN {BitmapSector}
    ELSE (IF clst # 0 THEN {FatSector(NextTo(clst))} ELSE {}) \union
         (IF clst # 0 /\ ncl = NextTo(clst) THEN {} ELSE {FatSector(c) : c \in {c \in Clusters : far(c)}})

-----------------------------------------------------------------------------
(* Mounting, and the drive pulled at any moment *)

MountFrom(d) ==
    /\ fat' = d.fat /\ bitmap' = d.bitmap /\ entry' = d.entry
    /\ free_clst' = IF fs_type = "fat32" THEN d.free ELSE Unknown
    /\ last_clst' = IF fs_type = "fat32" THEN d.last ELSE Unknown
    /\ fsi_flag' = FALSE
    /\ win' = [sect |-> FsInfoSector, wflag |-> FALSE]
    /\ obj' = [s \in Slots |-> NoObj]
    /\ file' = [s \in Slots |-> NoFile]
    /\ call' = Idle

\* A new volume; the FAT of exFAT is never written before it is used.
Init ==
    /\ fs_type \in FsTypes
    /\ fat = [c \in Clusters |-> 0]
    /\ bitmap = [c \in Clusters |-> FALSE]
    /\ entry = [s \in Slots |-> NoEntry]
    /\ win = [sect |-> FsInfoSector, wflag |-> FALSE]
    /\ free_clst = IF fs_type = "fat32" THEN NClusters ELSE Unknown
    /\ last_clst = IF fs_type = "fat32" THEN 2 ELSE Unknown
    /\ fsi_flag = FALSE
    /\ disk = [fat |-> fat, bitmap |-> bitmap, entry |-> entry, free |-> NClusters, last |-> 2]
    /\ obj = [s \in Slots |-> NoObj]
    /\ file = [s \in Slots |-> NoFile]
    /\ call = Idle
    /\ calls = 0 /\ pulls = 0

-----------------------------------------------------------------------------
(* Calls begin.  One at a time: they all come from the IPC thread. *)

Begin(op, pc, s, to) ==
    /\ call.pc = "idle"
    /\ calls < MaxCalls /\ calls' = calls + 1
    /\ call' = [Idle EXCEPT !.op = op, !.pc = pc, !.s = s, !.to = to]

\* f_open(FA_OPEN_EXISTING): init_alloc_info or ld_clust.
Open(s) ==
    /\ call.pc = "idle" /\ UNCHANGED call
    /\ entry[s].used /\ ~file[s].open
    /\ Visit({}, EntrySector(s))
    /\ obj' = [obj EXCEPT ![s] = [NoObj EXCEPT !.sclust = entry[s].sclust,
                                    !.objsize = entry[s].size, !.stat = entry[s].stat]]
    /\ file' = [file EXCEPT ![s] = [NoFile EXCEPT !.open = TRUE]]
    /\ UNCHANGED <<fs_type, volume, counts, bounds>>

\* CreateFileImpl: f_open(FA_CREATE_NEW), f_lseek(size), f_close.
Create(s, size) ==
    /\ Begin("create", "fill", s, size)
    /\ ~entry[s].used
    /\ Modify({}, EntrySector(s))
    /\ entry' = [entry EXCEPT ![s] = [NoEntry EXCEPT !.used = TRUE]]
    /\ obj' = [obj EXCEPT ![s] = NoObj]
    /\ file' = [file EXCEPT ![s] = [NoFile EXCEPT !.open = TRUE, !.modified = TRUE]]
    /\ UNCHANGED <<fs_type, fat, bitmap, counts, pulls>>

\* WriteImpl and ReadImpl begin with f_lseek; SetSizeImpl truncates after it.
Seek(s, to) ==
    /\ Begin("seek", "fill", s, to)
    /\ file[s].open
    /\ UNCHANGED <<fs_type, volume, win, disk, counts, obj, file, pulls>>
SetSize(s, to) ==
    /\ Begin("truncate", "fill", s, to)
    /\ file[s].open /\ to < obj[s].objsize
    /\ UNCHANGED <<fs_type, volume, win, disk, counts, obj, file, pulls>>

\* f_close: nothing to write, or f_sync first.
Close(s) ==
    /\ call.pc = "idle" /\ file[s].open
    /\ IF file[s].modified
       THEN call' = [Idle EXCEPT !.op = "close", !.pc = "first", !.s = s] /\ UNCHANGED file
       ELSE file' = [file EXCEPT ![s] = NoFile] /\ UNCHANGED call
    /\ UNCHANGED <<fs_type, volume, win, disk, counts, obj, bounds>>

\* f_unlink: the entry goes first, then the chain.
Unlink(s) ==
    LET e == entry[s] IN
    /\ call.pc = "idle" /\ calls < MaxCalls /\ calls' = calls + 1
    /\ e.used /\ ~file[s].open
    /\ Modify({}, EntrySector(s))
    /\ entry' = [entry EXCEPT ![s] = NoEntry]
    /\ obj' = [obj EXCEPT ![s] = [NoObj EXCEPT !.sclust = e.sclust, !.objsize = e.size, !.stat = e.stat]]
    /\ call' = [Idle EXCEPT !.op = "unlink", !.pc = IF e.sclust = 0 THEN "sync" ELSE "free", !.s = s,
                            !.clst = e.sclust, !.scl = e.sclust, !.ecl = e.sclust]
    /\ UNCHANGED <<fs_type, fat, bitmap, counts, file, pulls>>

\* f_rename: the new entry, then the old one goes (RenameErase).
Rename(s, t) ==
    /\ Begin("rename", "erase", s, t)
    /\ entry[s].used /\ ~file[s].open /\ ~entry[t].used
    /\ Modify({EntrySector(s)}, EntrySector(t))
    /\ entry' = [entry EXCEPT ![t] = entry[s]]
    /\ UNCHANGED <<fs_type, fat, bitmap, counts, obj, file, pulls>>
RenameErase ==
    /\ call.pc = "erase" /\ call' = [call EXCEPT !.pc = "sync"]
    /\ Modify({}, EntrySector(call.s))
    /\ entry' = [entry EXCEPT ![call.s] = NoEntry]
    /\ UNCHANGED <<fs_type, fat, bitmap, counts, obj, file, bounds>>

\* f_getfree: the clusters are counted unless the number is known.
GetFree ==
    /\ call.pc = "idle"
    /\ free_clst > NClusters
    /\ free_clst' = NFree /\ fsi_flag' = TRUE
    /\ IF ExFat THEN Visit({}, BitmapSector)
       ELSE Visit({FatSector(c) : c \in Clusters}, FatSector(n_fatent - 1))
    /\ UNCHANGED <<fs_type, volume, last_clst, obj, file, call, bounds>>

-----------------------------------------------------------------------------
(* f_lseek: to the cluster in which the file is to end, stretching the chain *)

O == obj[call.s]
F == file[call.s]
Grown(o, n) == [o EXCEPT !.objsize = BoundedMax(@, n)]
SetFile(f) == file' = [file EXCEPT ![call.s] = f]
SetObj(o) == obj' = [obj EXCEPT ![call.s] = o]
Goto(pc) == call' = [call EXCEPT !.pc = pc]

\* fill_last_frag: an entry of the last fragment, which ends in lcl.
FillLast(lcl, term) ==
    LET c == lcl - O.n_frag + 1 IN
    /\ Modify({}, FatSector(c))
    /\ fat' = [fat EXCEPT ![c] = IF O.n_frag > 1 THEN c + 1 ELSE term]

\* f_lseek, f_sync: until the last fragment is on the FAT.
FillForSeek ==
    /\ call.pc = "fill" /\ ExFat /\ O.n_frag > 0
    /\ FillLast(F.clust, EOC)
    /\ SetObj([O EXCEPT !.n_frag = @ - 1])
    /\ UNCHANGED <<fs_type, bitmap, entry, counts, file, call, bounds>>

\* Where f_lseek starts from.
StartAt(to) == IF F.fptr > 0 /\ to >= F.fptr THEN F.fptr ELSE IF O.sclust # 0 THEN 1 ELSE 0
SeekStart ==
    LET from == StartAt(call.to) IN
    /\ call.pc = "fill" /\ ~(ExFat /\ O.n_frag > 0)
    /\ IF call.to = 0
       THEN SetFile([F EXCEPT !.fptr = 0]) /\ Goto("seeked")
       ELSE /\ SetFile([F EXCEPT !.fptr = from,
                                 !.clust = IF from = 0 THEN 0 ELSE IF from = 1 THEN O.sclust ELSE @])
            /\ Goto(IF from = 0 THEN "take" ELSE "follow")
    /\ UNCHANGED <<fs_type, volume, win, disk, counts, obj, bounds>>

\* The loop over clusters; create_chain follows the chain where there is one.
\* FF_FS_EXFAT is a constant: the size grows in the loop on FAT volumes too.
Follow ==
    LET o == Grown(O, F.fptr)
        cs == GetFat(o, F.clust) IN
    /\ call.pc = "follow"
    /\ IF F.fptr = call.to
       THEN Goto("seeked") /\ UNCHANGED <<win, disk, obj, file>>
       ELSE /\ Read(FatReads(o, F.clust))
            /\ SetObj(o)
            /\ SetFile([F EXCEPT !.modified = @ \/ o # O,
                                 !.clust = IF cs \in Clusters THEN cs ELSE @,
                                 !.fptr = IF cs \in Clusters THEN @ + 1 ELSE @])
            /\ CASE cs < 2 -> call' = [Idle EXCEPT !.failed = TRUE]
                 [] cs \in Clusters -> UNCHANGED call
                 [] OTHER -> Goto("take")
    /\ UNCHANGED <<fs_type, volume, counts, bounds>>

\* create_chain: no cluster to be had.
Full ==
    /\ call.pc = "take" /\ (free_clst = 0 \/ FreeCluster(F.clust) = 0)
    /\ Goto("seeked")
    /\ IF free_clst = 0 THEN UNCHANGED <<win, disk>> ELSE Read(Searched(F.clust))
    /\ UNCHANGED <<fs_type, volume, counts, obj, file, bounds>>

\* create_chain: a free cluster is found and marked.
Mark(c) ==
    IF ExFat THEN bitmap' = [bitmap EXCEPT ![c] = TRUE] /\ UNCHANGED fat
    ELSE fat' = [fat EXCEPT ![c] = EOC] /\ UNCHANGED bitmap
Take ==
    LET ncl == FreeCluster(F.clust) IN
    /\ call.pc = "take" /\ free_clst # 0 /\ ncl # 0
    /\ Modify(Searched(F.clust), IF ExFat THEN BitmapSector ELSE FatSector(ncl))
    /\ Mark(ncl)
    /\ call' = [call EXCEPT !.pc = "link", !.ncl = ncl]
    /\ UNCHANGED <<fs_type, entry, counts, obj, file, bounds>>

\* The end of create_chain, and what f_lseek does with the new cluster.
Counted ==
    /\ last_clst' = call.ncl
    /\ free_clst' = IF free_clst <= NClusters THEN free_clst - 1 ELSE free_clst
    /\ fsi_flag' = TRUE
GotCluster(o) ==
    /\ Counted
    /\ SetFile([F EXCEPT !.clust = call.ncl, !.fptr = @ + 1])
    /\ SetObj(IF o.sclust = 0 THEN [o EXCEPT !.sclust = call.ncl] ELSE o)
    /\ call' = [call EXCEPT !.pc = "follow", !.ncl = 0]

\* On FAT the new cluster is linked to.
LinkFat ==
    /\ call.pc = "link" /\ ~ExFat
    /\ IF F.clust = 0 THEN UNCHANGED <<fat, win, disk>>
       ELSE /\ Modify({}, FatSector(F.clust))
            /\ fat' = [fat EXCEPT ![F.clust] = call.ncl]
    /\ GotCluster(O)
    /\ UNCHANGED <<fs_type, bitmap, entry, bounds>>

\* On exFAT what was contiguous may no longer be.
Fragmented(o) ==
    IF o.stat = 2 /\ call.ncl # F.clust + 1
    THEN [o EXCEPT !.n_cont = F.clust - o.sclust, !.stat = 3] ELSE o
LinkExFat ==
    LET o == Fragmented(O) IN
    /\ call.pc = "link" /\ ExFat
    /\ CASE F.clust = 0 ->
              GotCluster([o EXCEPT !.stat = 2]) /\ UNCHANGED <<fat, win, disk>>
         [] F.clust # 0 /\ o.stat = 2 ->
              GotCluster(o) /\ UNCHANGED <<fat, win, disk>>
         [] F.clust # 0 /\ o.stat # 2 /\ call.ncl = F.clust + 1 ->
              /\ GotCluster([o EXCEPT !.n_frag = IF @ = 0 THEN 2 ELSE @ + 1])
              /\ UNCHANGED <<fat, win, disk>>
         [] OTHER ->
              /\ SetObj([o EXCEPT !.n_frag = IF @ = 0 THEN 1 ELSE @])
              /\ Goto("fill_link")
              /\ UNCHANGED <<fat, win, disk, counts, file>>
    /\ UNCHANGED <<fs_type, bitmap, entry, bounds>>

\* The fragment before is written, and linked to the new one.
FillAndLink ==
    /\ call.pc = "fill_link"
    /\ FillLast(F.clust, call.ncl)
    /\ IF O.n_frag > 1
       THEN SetObj([O EXCEPT !.n_frag = @ - 1]) /\ UNCHANGED <<counts, file, call>>
       ELSE GotCluster([O EXCEPT !.n_frag = 1])
    /\ UNCHANGED <<fs_type, bitmap, entry, bounds>>

-----------------------------------------------------------------------------
(* The end of f_lseek, and f_truncate *)

\* Mutant: the first cluster is kept when the file becomes empty.
Truncated(o, n) == [o EXCEPT !.objsize = n, !.sclust = IF n = 0 THEN 0 ELSE @]
TruncatedShort(o, n) == [o EXCEPT !.objsize = n]
Remove(c, pclst) ==
    call' = [call EXCEPT !.pc = IF pclst # 0 /\ ~(ExFat /\ O.stat = 2) THEN "cut" ELSE "free",
                         !.clst = c, !.pclst = pclst, !.scl = c, !.ecl = c]
Seeked ==
    LET o == Grown(O, F.fptr)
        grown == F.fptr > O.objsize
        ncl == GetFat(O, F.clust) IN
    /\ call.pc = "seeked"
    /\ CASE call.op \in {"seek", "create"} ->
              /\ SetObj(o)
              /\ SetFile([F EXCEPT !.modified = @ \/ grown])
              /\ call' = IF call.op = "create" THEN [call EXCEPT !.pc = "first"] ELSE Idle
              /\ UNCHANGED <<win, disk>>
         [] call.op = "truncate" /\ F.fptr = 0 ->
              /\ Remove(O.sclust, 0)
              /\ SetFile([F EXCEPT !.cut = TRUE])
              /\ UNCHANGED <<win, disk, obj>>
         [] OTHER ->
              /\ Read(FatReads(O, F.clust))
              /\ IF ncl \in Clusters
                 THEN Remove(ncl, F.clust) /\ SetFile([F EXCEPT !.cut = TRUE]) /\ UNCHANGED obj
                 ELSE /\ SetObj(Truncated(O, F.fptr))
                      /\ SetFile([F EXCEPT !.modified = TRUE])
                      /\ call' = Idle
    /\ UNCHANGED <<fs_type, volume, counts, bounds>>

-----------------------------------------------------------------------------
(* remove_chain *)

Cut ==
    /\ call.pc = "cut" /\ Goto("free")
    /\ Modify({}, FatSector(call.pclst))
    /\ fat' = [fat EXCEPT ![call.pclst] = EOC]
    /\ UNCHANGED <<fs_type, bitmap, entry, counts, obj, file, bounds>>

\* Mutant: the last cluster of a contiguous block stays marked.
BlockShort(scl, ecl) == scl .. (IF scl = ecl THEN ecl ELSE ecl - 1)
Block(scl, ecl) == scl .. ecl

\* The free count goes up; the mutant stops one short.
OneMoreShort(n) == IF n < NClusters - 1 THEN n + 1 ELSE n
OneMore(n) == IF n < NClusters THEN n + 1 ELSE n

\* One turn of the loop; on exFAT a contiguous block is given back as a whole.
Free ==
    LET c == call.clst
        nxt == GetFat(O, c)
        ends == nxt # call.ecl + 1 IN
    /\ call.pc = "free"
    /\ free_clst' = OneMore(free_clst)
    /\ fsi_flag' = IF free_clst < NClusters THEN TRUE ELSE fsi_flag
    /\ IF ExFat
       THEN /\ IF ends
               THEN /\ Modify(FatReads(O, c), BitmapSector)
                    /\ bitmap' = [b \in Clusters |-> bitmap[b] /\ b \notin Block(call.scl, call.ecl)]
               ELSE Read(FatReads(O, c)) /\ UNCHANGED bitmap
            /\ UNCHANGED fat
       ELSE /\ Modify({}, FatSector(c))
            /\ fat' = [fat EXCEPT ![c] = 0]
            /\ UNCHANGED bitmap
    /\ call' = [call EXCEPT !.pc = IF nxt \in Clusters THEN "free" ELSE "freed", !.clst = nxt,
                            !.scl = IF ends THEN nxt ELSE @, !.ecl = nxt,
                            !.failed = @ \/ nxt < 2 \/ (ExFat /\ ends /\ \E b \in call.scl .. call.ecl : ~bitmap[b])]
    /\ UNCHANGED <<fs_type, entry, last_clst, obj, file, bounds>>

\* exFAT: is what is left contiguous?  Its clusters are read as far as they are.
ReadAsFar(o, p) == {c \in o.sclust .. p - 1 : \A b \in o.sclust .. c - 1 : GetFat(o, b) = b + 1}
Contiguous(o, p) == p >= o.sclust /\ \A c \in o.sclust .. p - 1 : GetFat(o, c) = c + 1
\* Mutant: a chain in two fragments passes for contiguous.
StatusAlwaysContiguous(o, p) == IF p = 0 THEN 0 ELSE 2
StatusAfter(o, p) ==
    CASE p = 0 -> 0
      [] p # 0 /\ o.stat = 0 -> IF Contiguous(o, p) THEN 2 ELSE 0
      [] p # 0 /\ o.stat = 3 -> IF p \in o.sclust .. o.sclust + o.n_cont THEN 2 ELSE 3
      [] OTHER -> o.stat
Freed ==
    LET p == call.pclst
        o == [O EXCEPT !.stat = IF ExFat THEN StatusAfter(O, p) ELSE @] IN
    /\ call.pc = "freed"
    /\ Read(IF ExFat /\ p # 0 /\ O.stat = 0
            THEN UNION {FatReads(O, c) : c \in ReadAsFar(O, p)} ELSE {})
    /\ IF call.op = "unlink"
       THEN SetObj(NoObj) /\ Goto("sync") /\ UNCHANGED file
       ELSE /\ SetObj(Truncated(o, F.fptr))
            /\ SetFile([F EXCEPT !.modified = TRUE])
            /\ call' = [Idle EXCEPT !.failed = call.failed]
    /\ UNCHANGED <<fs_type, volume, counts, bounds>>

-----------------------------------------------------------------------------
(* f_sync *)

\* fill_first_frag; the mutant forgets it.
FirstFragDone(o) == TRUE
FirstDone(o) == ~ExFat \/ o.stat # 3
FillFirst ==
    /\ call.pc = "first" /\ ~FirstDone(O)
    /\ IF O.n_cont = 0
       THEN SetObj([O EXCEPT !.stat = 0]) /\ UNCHANGED <<fat, win, disk, call>>
       ELSE LET c == O.sclust + call.ncl IN
            /\ Modify({}, FatSector(c))
            /\ fat' = [fat EXCEPT ![c] = c + 1]
            /\ IF call.ncl + 1 < O.n_cont
               THEN call' = [call EXCEPT !.ncl = @ + 1] /\ UNCHANGED obj
               ELSE call' = [call EXCEPT !.ncl = 0] /\ SetObj([O EXCEPT !.stat = 0])
    /\ UNCHANGED <<fs_type, bitmap, entry, counts, file, bounds>>

FillForSync ==
    /\ call.pc = "first" /\ FirstDone(O) /\ ExFat /\ O.n_frag > 0
    /\ FillLast(F.clust, EOC)
    /\ SetObj([O EXCEPT !.n_frag = @ - 1])
    /\ UNCHANGED <<fs_type, bitmap, entry, counts, file, call, bounds>>

\* The directory entry: first cluster, size, and GenFlags on exFAT.
WriteEntry ==
    /\ call.pc = "first" /\ FirstDone(O) /\ ~(ExFat /\ O.n_frag > 0)
    /\ Goto("sync")
    /\ Modify({}, EntrySector(call.s))
    /\ entry' = [entry EXCEPT ![call.s] =
                    [used |-> TRUE, sclust |-> O.sclust, size |-> O.objsize,
                     stat |-> IF O.stat \in {2, 3} THEN 2 ELSE 0]]
    /\ UNCHANGED <<fs_type, fat, bitmap, counts, obj, file, bounds>>

\* sync_fs ends f_sync (in f_close), f_unlink and f_rename.
Sync ==
    /\ call.pc = "sync" /\ call' = Idle
    /\ SyncFs
    /\ file' = IF call.op \in {"create", "close"} THEN [file EXCEPT ![call.s] = NoFile] ELSE file
    /\ obj' = IF call.op \in {"create", "close"} THEN [obj EXCEPT ![call.s] = NoObj] ELSE obj
    /\ UNCHANGED <<fs_type, volume, bounds>>

-----------------------------------------------------------------------------
(* Chains *)

\* The clusters from c on, by a map from clusters to the next one; one more than
\* there are if they go round.
Walk(next, c) ==
    LET onward == [b \in 0 .. EOC |-> IF b \in Clusters THEN next[b] ELSE b]
        at[i \in 1 .. NClusters + 1] == IF i = 1 THEN c ELSE onward[at[i - 1]]
    IN [i \in 1 .. Cardinality({i \in 1 .. NClusters + 1 : at[i] \in Clusters}) |-> at[i]]
Contig(c, n) == [i \in 1 .. n |-> c + i - 1]
Elems(q) == {q[i] : i \in DOMAIN q}

\* The chain of an entry; the FAT may know more of it than the size says.
EntryChain(f, e) ==
    IF ~e.used \/ e.sclust = 0 THEN <<>>
    ELSE IF ExFat /\ e.stat = 2 THEN Contig(e.sclust, e.size)
    ELSE Walk(f, e.sclust)

\* The chain of an open file: in part only in its FFOBJID.
NextInObj(o, f) ==
    [c \in Clusters |->
        IF ExFat /\ o.stat = 3 /\ c >= o.sclust /\ c - o.sclust < o.n_cont THEN c + 1
        ELSE IF ExFat /\ o.n_frag > 0 /\ c = f.clust THEN EOC
        ELSE IF ExFat /\ o.n_frag > 0 /\ c < f.clust /\ c > f.clust - o.n_frag THEN c + 1
        ELSE fat[c]]
FileChain(s) ==
    LET o == obj[s]
        removing == call.pc \in {"cut", "free", "freed"} /\ call.s = s IN
    CASE o.sclust = 0 \/ (removing /\ call.pclst = 0) -> <<>>
      [] o.sclust # 0 /\ ExFat /\ o.stat = 2 /\ ~(removing /\ call.pclst = 0) ->
            Contig(o.sclust, IF removing THEN call.pclst - o.sclust + 1
                             ELSE BoundedMax(o.objsize, file[s].fptr))
      [] OTHER -> Walk(IF removing THEN [NextInObj(o, file[s]) EXCEPT ![call.pclst] = EOC]
                       ELSE NextInObj(o, file[s]), o.sclust)

\* Which clusters each slot owns; in f_rename the old slot until it is erased.
Chain == [s \in Slots |->
    IF call.pc = "erase" /\ call.to = s THEN <<>>
    ELSE IF file[s].open THEN FileChain(s) ELSE EntryChain(fat, entry[s])]

\* A volume that can be gone on with: its entries have their clusters to themselves,
\* and no chain on the FAT ends but with the mark for it.
Sound(d) ==
    LET chain == [s \in Slots |-> EntryChain(d.fat, d.entry[s])] IN
    \A s \in Slots :
        /\ Len(chain[s]) >= d.entry[s].size
        /\ Len(chain[s]) <= NClusters
        /\ \A i, j \in DOMAIN chain[s] : chain[s][i] = chain[s][j] => i = j
        /\ Elems(chain[s]) \subseteq {c \in Clusters : IF ExFat THEN d.bitmap[c] ELSE d.fat[c] # 0}
        /\ chain[s] # <<>> /\ ~(ExFat /\ d.entry[s].stat = 2) => d.fat[chain[s][Len(chain[s])]] = EOC
        /\ \A t \in Slots \ {s} : Elems(chain[s]) \intersect Elems(chain[t]) = {}

\* The drive is pulled, and mounted again as it was left; FatFs has no repair,
\* so a volume that is not sound is not followed further.
Pull ==
    /\ pulls < MaxPulls /\ pulls' = pulls + 1
    /\ Sound(disk)
    /\ MountFrom(disk)
    /\ UNCHANGED <<fs_type, disk, calls>>

CallStep ==
    \/ FillForSeek \/ SeekStart \/ Follow \/ Full \/ Take
    \/ LinkFat \/ LinkExFat \/ FillAndLink
    \/ Seeked \/ Cut \/ Free \/ Freed
    \/ FillFirst \/ FillForSync \/ WriteEntry \/ RenameErase \/ Sync

Next ==
    \/ \E s \in Slots : Open(s) \/ Close(s) \/ Unlink(s)
    \/ \E s \in Slots, n \in Sizes : Create(s, n) \/ Seek(s, n) \/ SetSize(s, n)
    \/ \E s, t \in Slots : Rename(s, t)
    \/ GetFree
    \/ CallStep
    \/ Pull

Spec == Init /\ [][Next]_vars

-----------------------------------------------------------------------------
(* Properties *)

TypeOK ==
    /\ fs_type \in FsTypes
    /\ fat \in [Clusters -> {0, EOC} \union Clusters]
    /\ bitmap \in [Clusters -> BOOLEAN]
    /\ free_clst \in 0 .. NClusters \union {Unknown}
    /\ last_clst \in Clusters \union {Unknown}
    /\ fsi_flag \in BOOLEAN
    /\ \A s \in Slots : obj[s].n_frag \in 0 .. NClusters /\ obj[s].n_cont \in 0 .. NClusters

\* Nothing but f_sync's caller ends with FR_INT_ERR: get_fat never meets a free
\* cluster in a chain, change_bitmap never a bit that is already as it should be.
NoInternalError == ~call.failed

\* Every cluster of a chain is marked as in use, and chains are as long as the
\* files they belong to.
OwnedInUse ==
    \A s \in Slots :
        /\ \A c \in Elems(Chain[s]) : InUse(c)
        /\ file[s].open /\ call.pc = "idle" => Len(Chain[s]) >= obj[s].objsize

\* As long as the drive was never pulled, no cluster is lost: between calls what
\* is marked belongs to a file.
NothingLost ==
    pulls = 0 /\ call.pc = "idle" =>
        \A c \in Clusters : InUse(c) => \E s \in Slots : c \in Elems(Chain[s])

\* Marks and chains agree in both directions, and no call comes upon a mark that
\* does not fit.
AllocationExact == TypeOK /\ NoInternalError /\ OwnedInUse /\ NothingLost

\* The free count is right between calls, if the FSINFO it began with was.
FreeCountRight ==
    pulls = 0 /\ call.pc = "idle" /\ free_clst <= NClusters => free_clst = NFree

\* The drive differs from what FatFs sees in the dirty window alone.
DiskLagsByWindow ==
    /\ \A c \in Clusters : fat[c] # disk.fat[c] => win.wflag /\ win.sect = FatSector(c)
    /\ bitmap # disk.bitmap => win.wflag /\ win.sect = BitmapSector
    /\ \A s \in Slots : entry[s] # disk.entry[s] => win.wflag /\ win.sect = EntrySector(s)

\* So a file that is closed is on the drive, entry and chain, whatever is being
\* done to others.
Touched(s) == file[s].modified \/ (call.pc # "idle" /\ s \in {call.s, call.to})
ClosedFilesOnDisk ==
    /\ DiskLagsByWindow
    /\ \A s \in Slots : entry[s].used /\ ~Touched(s) =>
        /\ disk.entry[s] = entry[s]
        /\ EntryChain(disk.fat, entry[s]) = EntryChain(fat, entry[s])

\* A pull loses clusters, never two entries' claim to one or a chain whose end is
\* free: except in f_rename (the comment in the source says so), after a file was
\* cut and before it is closed, and on exFAT while a file is stretched.
PullLosesClustersOnly ==
    \/ Sound(disk)
    \/ call.op = "rename"
    \/ \E s \in Slots : file[s].cut \/ (ExFat /\ file[s].modified)

\* Every step gives a file one cluster nobody owns, takes the end of a file's
\* chain, hands a chain on to a new name, or leaves all chains as they are.
Owners == INSTANCE ClusterOwners WITH owned <- Chain, mounts <- pulls
OneOwner == Owners!Spec

=============================================================================
