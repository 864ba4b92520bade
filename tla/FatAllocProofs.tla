--------------------------- MODULE FatAllocProofs ---------------------------
(***************************************************************************)
(* Theorems about FatAlloc, for every number of clusters and of files, and *)
(* every layout of the FAT and the directory over sectors.                 *)
(*                                                                         *)
(* First, what FatFs sees through its window and what the drive holds      *)
(* differ in the window's sector alone, and only while it is dirty         *)
(* (LagInv, DriveLagsByWindow).  What a pulled drive can lose rests on it. *)
(*                                                                         *)
(* Then the inductive invariant AllocInv.  It names the chains as data: a  *)
(* function o that gives every slot a sequence of clusters, and a sequence *)
(* r, what remove_chain has still to free.  IInv(o, r) says what FAT,      *)
(* bitmap, entry, FFOBJID, FIL and call have to be for these chains, so a  *)
(* proof about a step says what the step makes of o and r, and the walk of *)
(* f_read and f_lseek along the chain is only looked at in ChainIs: the    *)
(* chains of the invariant are the chains FatFs would walk.                *)
(*                                                                         *)
(* One lemma Step... per action of FatAlloc shows that there are o' and r' *)
(* that satisfy IInv after the step, and that o becomes o' by a move of    *)
(* ClusterOwners (Moves), from which the refinement follows.               *)
(***************************************************************************)
EXTENDS FatAlloc, FiniteSetTheorems, WellFoundedInduction, SequenceTheorems, TLAPS

\* A non-empty set of positions in a chain has a first one.
LEMMA LeastOf ==
    ASSUME NEW n \in Nat, NEW S \in SUBSET (1 .. n), S # {} PROVE \E i \in S : \A j \in S : i <= j
<1> DEFINE R == {ss \in Nat \X Nat : ss[1] < ss[2]}
<1>1. IsWellFoundedOn(R, Nat)
  BY NatLessThanWellFounded DEF OpToRel
<1>2. S \subseteq Nat
  OBVIOUS
<1>3. PICK i \in S : \A j \in S : <<j, i>> \notin R
  <2> HIDE DEF R
  <2> QED
    BY <1>1, <1>2, WFMin
<1>4. \A j \in S : ~(j < i)
  BY <1>2, <1>3
<1> QED
  BY <1>2, <1>4

\* The volume and its copy on the drive are maps of clusters and of slots.
DiskShape(d) ==
    d = [fat |-> [c \in Clusters |-> d.fat[c]], bitmap |-> d.bitmap,
         entry |-> [s \in Slots |-> d.entry[s]], free |-> d.free, last |-> d.last]
WinShape(w) == w = [sect |-> w.sect, wflag |-> w.wflag] /\ w.wflag \in BOOLEAN
Shape ==
    /\ fat = [c \in Clusters |-> fat[c]]
    /\ entry = [s \in Slots |-> entry[s]]
    /\ DiskShape(disk)
    /\ WinShape(win)
LagInv == Shape /\ DiskLagsByWindow

\* sync_window leaves nothing behind.
LEMMA FlushedAll ==
    ASSUME LagInv
    PROVE  /\ \A c \in Clusters : Flushed.fat[c] = fat[c]
           /\ Flushed.bitmap = bitmap
           /\ \A s \in Slots : Flushed.entry[s] = entry[s]
  BY DEF Flushed, LagInv, Shape, DiskShape, DiskLagsByWindow

LEMMA FlushedShape ==
    ASSUME Shape PROVE DiskShape(Flushed)
  BY DEF Flushed, Shape, DiskShape
\* What sync_fs leaves on the drive of a FAT32 volume.
WithInfo(f, l) == [Flushed EXCEPT !.free = f, !.last = l]

LEMMA FlushedInfo ==
    ASSUME Shape, NEW f, NEW l, NEW d, d = WithInfo(f, l)
    PROVE  /\ DiskShape(d)
           /\ \A c \in Clusters : d.fat[c] = Flushed.fat[c]
           /\ d.bitmap = Flushed.bitmap
           /\ \A s \in Slots : d.entry[s] = Flushed.entry[s]
<1>1. PICK T, B, E, x, y : /\ Flushed = [fat |-> T, bitmap |-> B, entry |-> E, free |-> x, last |-> y]
                           /\ T = [c \in Clusters |-> T[c]] /\ E = [s \in Slots |-> E[s]]
  <2>1. Flushed = [fat |-> [c \in Clusters |-> Flushed.fat[c]], bitmap |-> Flushed.bitmap,
                   entry |-> [s \in Slots |-> Flushed.entry[s]], free |-> Flushed.free, last |-> Flushed.last]
    BY FlushedShape DEF DiskShape
  <2> QED
    BY <2>1
<1>2. d = [fat |-> T, bitmap |-> B, entry |-> E, free |-> f, last |-> l]
  BY <1>1 DEF WithInfo
<1> QED
  BY <1>1, <1>2 DEF DiskShape

\* A window, clean or dirty.
LEMMA CleanWin ==
    ASSUME NEW w, NEW b \in BOOLEAN, NEW sect, w = [sect |-> sect, wflag |-> b] PROVE WinShape(w)
<1>1. w.wflag = b /\ w.sect = sect
  OBVIOUS
<1> QED
  BY <1>1 DEF WinShape

\* A window that is clean, and a drive that holds what FatFs sees.
LEMMA CleanLag ==
    ASSUME LagInv, UNCHANGED volume, DiskShape(disk'), win' = [sect |-> win'.sect, wflag |-> FALSE],
           \A c \in Clusters : disk'.fat[c] = fat[c],
           disk'.bitmap = bitmap,
           \A s \in Slots : disk'.entry[s] = entry[s]
    PROVE  LagInv'
<1>1. Shape'
  <2>1. WinShape(win')
    BY CleanWin
  <2> QED
    BY <2>1 DEF Shape, LagInv, volume, DiskShape, WinShape
<1>2. DiskLagsByWindow'
  BY DEF DiskLagsByWindow, volume
<1> QED
  BY <1>1, <1>2 DEF LagInv

\* The window moves, and nothing is changed.
LEMMA VisitLag ==
    ASSUME LagInv, NEW R, NEW sect, Visit(R, sect), UNCHANGED volume
    PROVE  LagInv'
<1>1. CASE R \union {sect} # {win.sect}
  <2>1. disk' = Flushed /\ win' = [sect |-> sect, wflag |-> FALSE]
    BY <1>1 DEF Visit
  <2> QED
    BY <2>1, FlushedAll, FlushedShape, CleanLag DEF LagInv
<1>2. CASE R \union {sect} = {win.sect}
  <2>1. disk' = disk /\ win' = win
    BY <1>2 DEF Visit, LagInv, Shape, WinShape
  <2> QED
    BY <2>1 DEF LagInv, Shape, DiskShape, WinShape, DiskLagsByWindow, volume, FatSector, EntrySector
<1> QED
  BY <1>1, <1>2

LEMMA ReadLag ==
    ASSUME LagInv, NEW R, Read(R), UNCHANGED volume PROVE LagInv'
<1>1. CASE UNCHANGED <<win, disk>>
  BY <1>1 DEF LagInv, Shape, DiskShape, WinShape, DiskLagsByWindow, volume, FatSector, EntrySector
<1> QED
  BY <1>1, VisitLag DEF Read

LEMMA SameLag ==
    ASSUME LagInv, UNCHANGED <<volume, win, disk>> PROVE LagInv'
  BY DEF LagInv, Shape, DiskShape, WinShape, DiskLagsByWindow, volume, FatSector, EntrySector

\* One sector is changed in the window: whatever else differed is on the drive.
LEMMA Modified ==
    ASSUME LagInv, NEW R, NEW sect, Modify(R, sect)
    PROVE  /\ DiskShape(disk') /\ win' = [sect |-> sect, wflag |-> TRUE]
           /\ \A c \in Clusters : FatSector(c) # sect => disk'.fat[c] = fat[c]
           /\ sect # BitmapSector => disk'.bitmap = bitmap
           /\ \A s \in Slots : EntrySector(s) # sect => disk'.entry[s] = entry[s]
<1>1. win' = [sect |-> sect, wflag |-> TRUE]
  BY DEF Modify
<1>2. CASE disk' = Flushed
  BY <1>1, <1>2, FlushedAll, FlushedShape DEF LagInv
<1>3. CASE disk' = disk /\ sect = win.sect
  BY <1>1, <1>3 DEF LagInv, Shape, DiskLagsByWindow
<1> QED
  BY <1>2, <1>3 DEF Modify

LEMMA FatLag ==
    ASSUME LagInv, NEW R, NEW c, Modify(R, FatSector(c)), NEW x, fat' = [fat EXCEPT ![c] = x],
           UNCHANGED <<bitmap, entry>>
    PROVE  LagInv'
<1>1. Shape'
  <2>1. DiskShape(disk') /\ WinShape(win')
    BY Modified, CleanWin
  <2> QED
    BY <2>1 DEF LagInv, Shape, DiskShape, WinShape
<1>2. \A b \in Clusters : fat'[b] # disk'.fat[b] => FatSector(b) = FatSector(c)
  <2> SUFFICES ASSUME NEW b \in Clusters, FatSector(b) # FatSector(c) PROVE fat'[b] = disk'.fat[b]
    OBVIOUS
  <2>1. disk'.fat[b] = fat[b]
    BY Modified
  <2>2. b # c
    OBVIOUS
  <2> QED
    BY <2>1, <2>2 DEF LagInv, Shape
<1>3. DiskLagsByWindow'
  BY <1>2, Modified DEF DiskLagsByWindow, FatSector, EntrySector
<1> QED
  BY <1>1, <1>3 DEF LagInv

LEMMA BitmapLag ==
    ASSUME LagInv, NEW R, Modify(R, BitmapSector), UNCHANGED <<fat, entry>> PROVE LagInv'
<1>1. Shape'
  <2>1. DiskShape(disk') /\ WinShape(win')
    BY Modified, CleanWin
  <2> QED
    BY <2>1 DEF LagInv, Shape, DiskShape, WinShape
<1>2. DiskLagsByWindow'
  BY Modified DEF DiskLagsByWindow, FatSector, EntrySector, BitmapSector
<1> QED
  BY <1>1, <1>2 DEF LagInv

LEMMA EntryLag ==
    ASSUME LagInv, NEW R, NEW s, Modify(R, EntrySector(s)), NEW e, entry' = [entry EXCEPT ![s] = e],
           UNCHANGED <<fat, bitmap>>
    PROVE  LagInv'
<1>1. Shape'
  <2>1. DiskShape(disk') /\ WinShape(win')
    BY Modified, CleanWin
  <2> QED
    BY <2>1 DEF LagInv, Shape, DiskShape, WinShape
<1>2. \A t \in Slots : entry'[t] # disk'.entry[t] => EntrySector(t) = EntrySector(s)
  <2> SUFFICES ASSUME NEW t \in Slots, EntrySector(t) # EntrySector(s) PROVE entry'[t] = disk'.entry[t]
    OBVIOUS
  <2>1. disk'.entry[t] = entry[t]
    BY Modified
  <2>2. t # s
    OBVIOUS
  <2> QED
    BY <2>1, <2>2 DEF LagInv, Shape
<1>3. DiskLagsByWindow'
  BY <1>2, Modified DEF DiskLagsByWindow, FatSector, EntrySector
<1> QED
  BY <1>1, <1>3 DEF LagInv

\* and every step of every call leaves it to the window.
LEMMA LagStep == LagInv /\ [Next]_vars => LagInv'
<1> SUFFICES ASSUME LagInv, [Next]_vars PROVE LagInv'
  OBVIOUS
<1> USE DEF volume
<1>1. ASSUME NEW s \in Slots, Open(s) PROVE LagInv'
  BY <1>1, VisitLag DEF Open
<1>2. ASSUME NEW s \in Slots, NEW n \in Sizes, Create(s, n) PROVE LagInv'
  BY <1>2, EntryLag DEF Create
<1>3. ASSUME NEW s \in Slots, NEW n \in Sizes, Seek(s, n) \/ SetSize(s, n) PROVE LagInv'
  BY <1>3, SameLag DEF Seek, SetSize
<1>4. ASSUME NEW s \in Slots, Close(s) PROVE LagInv'
  BY <1>4, SameLag DEF Close
<1>5. ASSUME NEW s \in Slots, Unlink(s) PROVE LagInv'
  BY <1>5, EntryLag DEF Unlink
<1>6. ASSUME NEW s \in Slots, NEW t \in Slots, Rename(s, t) PROVE LagInv'
  BY <1>6, EntryLag DEF Rename
<1>7. CASE GetFree
  BY <1>7, VisitLag DEF GetFree
<1>8. CASE FillForSeek
  BY <1>8, FatLag DEF FillForSeek, FillLast
<1>9. CASE SeekStart
  BY <1>9, SameLag DEF SeekStart
<1>10. CASE Follow
  BY <1>10, SameLag, ReadLag DEF Follow
<1>11. CASE Full
  BY <1>11, SameLag, ReadLag DEF Full
<1>12. CASE Take
  <2>1. CASE ExFat
    BY <1>12, <2>1, BitmapLag DEF Take, Mark
  <2>2. CASE ~ExFat
    BY <1>12, <2>2, FatLag DEF Take, Mark
  <2> QED
    BY <2>1, <2>2
<1>13. CASE LinkFat
  BY <1>13, SameLag, FatLag DEF LinkFat
<1>14. CASE LinkExFat
  BY <1>14, SameLag DEF LinkExFat
<1>15. CASE FillAndLink
  BY <1>15, FatLag DEF FillAndLink, FillLast
<1>16. CASE Seeked
  BY <1>16, SameLag, ReadLag DEF Seeked
<1>17. CASE Cut
  BY <1>17, FatLag DEF Cut
<1>18. CASE Free
  <2>1. CASE ExFat
    BY <1>18, <2>1, BitmapLag, ReadLag DEF Free
  <2>2. CASE ~ExFat
    BY <1>18, <2>2, FatLag DEF Free
  <2> QED
    BY <2>1, <2>2
<1>19. CASE Freed
  BY <1>19, ReadLag DEF Freed
<1>20. CASE FillFirst
  BY <1>20, SameLag, FatLag DEF FillFirst
<1>21. CASE FillForSync
  BY <1>21, FatLag DEF FillForSync, FillLast
<1>22. CASE WriteEntry
  BY <1>22, EntryLag DEF WriteEntry
<1>23. CASE RenameErase
  BY <1>23, EntryLag DEF RenameErase
<1>24. CASE Sync
  <2>1. UNCHANGED volume
    BY <1>24 DEF Sync
  <2>2. CASE fs_type = "fat32" /\ fsi_flag
    <3>1. disk' = WithInfo(free_clst, last_clst) /\ win' = [sect |-> FsInfoSector, wflag |-> FALSE]
      BY <1>24, <2>2 DEF Sync, SyncFs, WithInfo
    <3> QED
      BY <2>1, <3>1, FlushedAll, FlushedInfo, CleanLag DEF LagInv
  <2>3. CASE ~(fs_type = "fat32" /\ fsi_flag)
    <3>1. disk' = Flushed /\ win' = [win EXCEPT !.wflag = FALSE]
      BY <1>24, <2>3 DEF Sync, SyncFs
    <3>2. win' = [sect |-> win'.sect, wflag |-> FALSE]
      BY <3>1 DEF LagInv, Shape, WinShape
    <3> QED
      BY <2>1, <3>1, <3>2, FlushedAll, FlushedShape, CleanLag DEF LagInv
  <2> QED
    BY <2>2, <2>3
<1>25. CASE Pull
  <2>1. /\ fat' = disk.fat /\ bitmap' = disk.bitmap /\ entry' = disk.entry /\ disk' = disk
        /\ win' = [sect |-> FsInfoSector, wflag |-> FALSE]
    BY <1>25 DEF Pull, MountFrom
  <2>2. Shape'
    <3>1. WinShape(win')
      BY <2>1, CleanWin
    <3> QED
      BY <2>1, <3>1 DEF LagInv, Shape, DiskShape, WinShape
  <2>3. DiskLagsByWindow'
    BY <2>1 DEF DiskLagsByWindow
  <2> QED
    BY <2>2, <2>3 DEF LagInv
<1>26. CASE UNCHANGED vars
  BY <1>26, SameLag DEF vars
<1> QED
  BY <1>1, <1>2, <1>3, <1>4, <1>5, <1>6, <1>7, <1>8, <1>9, <1>10, <1>11, <1>12, <1>13, <1>14,
     <1>15, <1>16, <1>17, <1>18, <1>19, <1>20, <1>21, <1>22, <1>23, <1>24, <1>25, <1>26
     DEF Next, CallStep

\* A new drive holds what FatFs sees,
LEMMA LagInit == Init => LagInv
<1> SUFFICES ASSUME Init PROVE LagInv
  OBVIOUS
<1>1. WinShape(win)
  BY CleanWin DEF Init
<1>2. /\ fat = [c \in Clusters |-> 0] /\ entry = [s \in Slots |-> NoEntry]
      /\ disk = [fat |-> fat, bitmap |-> bitmap, entry |-> entry, free |-> NClusters, last |-> 2]
  BY DEF Init
<1>3. DiskShape(disk)
  BY <1>2 DEF DiskShape
<1>4. DiskLagsByWindow
  BY <1>2 DEF DiskLagsByWindow
<1> QED
  BY <1>1, <1>2, <1>3, <1>4 DEF LagInv, Shape

\* FAT, bitmap and directory differ from the drive in the dirty window alone, at every
\* step of every call and after every pull.
THEOREM DriveLagsByWindow == Spec => []DiskLagsByWindow
<1>1. LagInv => DiskLagsByWindow
  BY DEF LagInv
<1> QED
  BY <1>1, LagInit, LagStep, PTL DEF Spec

(***************************************************************************)
(* The parts of the inductive invariant                                    *)
(***************************************************************************)
\* Where a call may have read or written beyond the size, or is about to say so.
Next1 == {"follow", "take", "link", "fill_link", "seeked"}
\* remove_chain is at work on the file or the entry of slot s.
Removing(s) == call.pc \in {"cut", "free", "freed"} /\ call.s = s
\* f_lseek and what it shares with f_truncate.
Seeking == {"fill"} \union Next1

(***************************************************************************)
(* Types                                                                   *)
(***************************************************************************)
Link == {0, EOC} \union Clusters
Cluster0 == {0} \union Clusters
EntrySet == {e \in [used : BOOLEAN, sclust : Cluster0, size : Nat, stat : {0, 2}] :
                /\ e.size = 0 <=> e.sclust = 0
                /\ ~e.used => e = NoEntry
                /\ ~ExFat => e.stat = 0}
ObjSet == [sclust : Cluster0, objsize : Nat, stat : {0, 2, 3}, n_cont : Nat, n_frag : Nat]
FileSet == [open : BOOLEAN, fptr : Nat, clust : Cluster0, modified : BOOLEAN, cut : BOOLEAN]
Pcs == {"idle", "fill", "cut", "free", "freed", "first", "sync", "erase"} \union Next1
Ops == {"none", "create", "seek", "truncate", "close", "unlink", "rename"}
CallSet == [op : Ops, pc : Pcs, s : Slots \union {0}, to : Nat \union Slots, clst : Nat, pclst : Cluster0,
            ncl : Nat, scl : Nat, ecl : Nat, failed : {FALSE}]
\* What every variable ranges over; call.failed, an FR_INT_ERR, is FALSE for good.
Types ==
    /\ fat \in [Clusters -> Link] /\ bitmap \in [Clusters -> BOOLEAN] /\ entry \in [Slots -> EntrySet]
    /\ obj \in [Slots -> ObjSet] /\ file \in [Slots -> FileSet] /\ call \in CallSet
    /\ fs_type \in FsTypes
    /\ free_clst \in 0 .. NClusters \union {Unknown} /\ last_clst \in Clusters \union {Unknown} /\ fsi_flag \in BOOLEAN
    /\ disk.fat \in [Clusters -> Link] /\ disk.bitmap \in [Clusters -> BOOLEAN] /\ disk.entry \in [Slots -> EntrySet]
    /\ disk.free \in 0 .. NClusters \union {Unknown} /\ disk.last \in Clusters \union {Unknown}
    /\ pulls \in Nat

(***************************************************************************)
(* Chains                                                                  *)
(***************************************************************************)
\* The FAT m leads along q to the end-of-chain mark.
Linked(m, q) == \A i \in 1 .. Len(q) : m[q[i]] = IF i < Len(q) THEN q[i + 1] ELSE EOC
\* q is the chain an entry e stands for: contiguous when it says so, on the FAT otherwise.
Laid(m, e, q) ==
    /\ e.sclust = 0 <=> q = <<>>
    /\ q # <<>> => /\ q[1] = e.sclust
                   /\ Len(q) >= e.size
                   /\ IF e.stat = 2 THEN q = Contig(e.sclust, e.size) ELSE Linked(m, q)
\* The first run of an FFOBJID, contiguous and not on the FAT yet.
FirstRun(o) == IF o.stat = 3 THEN o.n_cont ELSE 0
\* q goes on along the first run, and then along the FAT up to the last fragment.
Followed(m, o, q) ==
    /\ \A i \in 1 .. Len(q) : i <= FirstRun(o) + 1 => q[i] = o.sclust + i - 1
    /\ \A i \in 1 .. Len(q) - 1 : i > FirstRun(o) /\ i <= Len(q) - o.n_frag => m[q[i]] = q[i + 1]
\* q is the chain an open file o, f holds, on the FAT m.
Held(m, o, f, q) ==
    /\ o.sclust = 0 <=> q = <<>>
    /\ q # <<>> => q[1] = o.sclust
    /\ o.objsize <= Len(q)
    /\ f.fptr <= Len(q) /\ (f.fptr > 0 => f.clust = q[f.fptr])
    /\ o.n_frag <= Len(q) /\ (o.n_frag > 0 => f.fptr = Len(q))
    /\ o.stat = 3 => o.n_cont < Len(q) /\ o.n_cont + o.n_frag <= Len(q)
    /\ o.stat = 2 => o.n_frag = 0 /\ q = Contig(o.sclust, BoundedMax(o.objsize, f.fptr))
    /\ o.stat # 2 =>
        /\ Followed(m, o, q)
        /\ \A i \in 1 .. Len(q) : i > Len(q) - o.n_frag => q[i] = q[Len(q)] - (Len(q) - i)
        /\ o.n_frag = 0 /\ q # <<>> => m[q[Len(q)]] = EOC
\* q is what remove_chain leaves of an open file that c cuts.
Shrinking(m, o, f, c, q) ==
    /\ o.n_frag = 0 /\ Len(q) < o.objsize /\ f.fptr = Len(q)
    /\ q = <<>> <=> c.pclst = 0
    /\ q # <<>> =>
        /\ q[1] = o.sclust /\ q[Len(q)] = c.pclst /\ f.clust = c.pclst
        /\ o.stat = 2 => q = Contig(o.sclust, Len(q))
        /\ o.stat # 2 => Followed(m, o, q) /\ (c.pc # "cut" => m[c.pclst] = EOC)
\* What an open file in slot s has to be for the chain q.
OpenOK(s, q) ==
    LET o == obj[s]
        f == file[s] IN
    /\ entry[s].used
    /\ ~ExFat => o.stat = 0 /\ o.n_frag = 0
    /\ IF Removing(s) THEN Shrinking(fat, o, f, call, q)
       ELSE /\ Held(fat, o, f, q)
            /\ o.sclust # 0 => o.objsize > 0 \/ f.fptr > 0
            /\ f.fptr <= o.objsize \/ (call.s = s /\ call.pc \in Next1)
            /\ f.cut => f.modified
            /\ o.n_frag > 0 => f.modified \/ f.fptr > o.objsize \/ (call.s = s /\ call.pc = "fill_link" /\ o.n_frag = 1)
\* And a closed one: its entry says it all, but for a name that a rename still has to erase.
SlotOK(s, q) ==
    IF file[s].open THEN OpenOK(s, q)
    ELSE /\ file[s] = NoFile
         /\ IF call.pc = "erase" /\ call.to = s THEN q = <<>> ELSE Laid(fat, entry[s], q)

\* The volume's own entry.
\* The entry of slot s says what the FAT holds: nothing of it waits for an f_sync.
Settled(s) == file[s].open => ~file[s].cut /\ (ExFat => ~file[s].modified /\ file[s].fptr <= obj[s].objsize)
\* Then FAT and entry, as FatFs sees them, hold the chain q.
Kept(s, q) ==
    Settled(s) /\ ~(call.pc = "erase" /\ call.to = s) =>
        Laid(fat, entry[s], IF entry[s].sclust = 0 THEN <<>> ELSE q)
\* No call changes the file of slot s, and it has nothing to write back.
Quiet(s) ==
    /\ entry[s].used
    /\ file[s].open => ~file[s].modified /\ ~file[s].cut /\ file[s].fptr <= obj[s].objsize
    /\ call.op = "rename" => s \notin {call.s, call.to}
\* Then the drive holds its entry and its chain.
OnDisk(s, q) ==
    Quiet(s) =>
        /\ disk.entry[s] = entry[s]
        /\ file[s].open => entry[s].sclust = obj[s].sclust
        /\ entry[s].stat # 2 => \A i \in 1 .. Len(q) : disk.fat[q[i]] = fat[q[i]]

(***************************************************************************)
(* Calls                                                                   *)
(***************************************************************************)
\* get_fat leads along r, what remove_chain has to free.
Remaining(r) ==
    \A i \in 1 .. Len(r) : GetFat(O, r[i]) = IF i < Len(r) THEN r[i + 1] ELSE EOC
\* f_lseek and f_truncate, before they cut, from file pointer to place to go.
SeekOK(q) ==
    /\ call.pc \in Seeking =>
        /\ call.op \in {"seek", "create", "truncate"} /\ F.open /\ call.to \in Nat
        /\ call.op = "create" => F.modified
        /\ call.op = "truncate" => call.to < O.objsize /\ call.pc \in {"fill", "follow", "seeked"}
    /\ call.pc = "follow" => F.fptr > 0 /\ F.fptr <= call.to /\ (call.op = "truncate" => O.n_frag = 0)
    /\ call.pc \in {"take", "link", "fill_link"} =>
        /\ F.fptr = Len(q) /\ F.fptr < call.to
        /\ q = <<>> => F.clust = 0
        /\ ExFat => F.fptr <= O.objsize
    /\ call.pc = "fill_link" => ExFat /\ O.n_frag > 0 /\ O.stat # 2 /\ q # <<>> /\ call.ncl # F.clust + 1
    /\ call.pc = "seeked" => F.fptr <= call.to /\ (call.op = "truncate" => F.fptr = call.to /\ O.n_frag = 0)
\* The cluster create_chain has marked and not linked yet is in no chain.
LinkOK(o) ==
    call.pc \in {"link", "fill_link"} =>
        /\ call.ncl \in Clusters /\ InUse(call.ncl) /\ free_clst # 0
        /\ \A s \in Slots : call.ncl \notin Elems(o[s])
        /\ ~ExFat => fat[call.ncl] = EOC
\* remove_chain, its place in the chain, and the run of freed clusters it has not unmarked.
RemoveOK(o, r) ==
    /\ call.pc \in {"cut", "free", "freed"} =>
        /\ call.op \in {"truncate", "unlink"} /\ O.n_frag = 0
        /\ call.op = "truncate" => F.open /\ F.cut
        /\ call.op = "unlink" => ~F.open /\ call.pclst = 0 /\ entry[call.s] = NoEntry
    /\ call.pc = "cut" => call.pclst # 0 /\ ~(ExFat /\ O.stat = 2) /\ call.scl = call.clst
    /\ call.pc \in {"cut", "free"} =>
        /\ r # <<>> /\ call.clst = r[1] /\ call.ecl = call.clst
        /\ call.scl \in Clusters /\ call.scl <= call.clst
        /\ Remaining(r)
        /\ ExFat => \A c \in call.scl .. call.clst - 1 :
                        bitmap[c] /\ c \notin Elems(r) /\ \A s \in Slots : c \notin Elems(o[s])
\* f_sync and f_rename, between their writes.
SyncOK ==
    /\ call.pc = "first" =>
        /\ call.op \in {"create", "close"} /\ F.open /\ F.modified
        /\ call.ncl > 0 => O.stat = 3 /\ call.ncl < O.n_cont
        /\ \A k \in 0 .. call.ncl - 1 : fat[O.sclust + k] = O.sclust + k + 1
    /\ call.pc = "sync" =>
        /\ call.op \in {"create", "close", "unlink", "rename"}
        /\ call.op \in {"create", "close"} =>
            /\ F.open /\ F.modified /\ O.n_frag = 0 /\ O.stat # 3
            /\ entry[call.s] = [used |-> TRUE, sclust |-> O.sclust, size |-> O.objsize, stat |-> O.stat]
    /\ call.pc = "erase" => call.op = "rename" /\ entry[call.to] = entry[call.s] /\ entry[call.s].used
    /\ call.op = "rename" =>
        /\ call.pc \in {"erase", "sync"}
        /\ call.to \in Slots \ {call.s} /\ ~file[call.s].open /\ ~file[call.to].open
\* The call that runs, if any.
CallOK(o, r) ==
    /\ call.pc = "idle" => call = Idle
    /\ call.pc # "idle" => call.s \in Slots
    /\ call.pc \notin {"cut", "free"} => r = <<>>
    /\ call.pc \notin {"link", "fill_link", "first"} => call.ncl = 0
    /\ call.pc # "idle" => SeekOK(o[call.s])
    /\ LinkOK(o)
    /\ RemoveOK(o, r)
    /\ SyncOK

(***************************************************************************)
(* Marks and the count                                                     *)
(***************************************************************************)
\* No cluster twice.
Alone(q) == \A i, j \in DOMAIN q : q[i] = q[j] => i = j
\* The chains share no cluster with each other or with r, and every cluster of theirs is marked.
ChainsOK(o, r) ==
    /\ o \in [Slots -> Seq(Clusters)] /\ r \in Seq(Clusters)
    /\ Owners!Apart(o)
    /\ Alone(r)
    /\ \A s \in Slots : \A c \in Elems(o[s]) : InUse(c) /\ c \notin Elems(r)
    /\ \A c \in Elems(r) : InUse(c)
\* Clusters that are marked and in no chain, for the length of a step of a call.
Limbo(r) ==
    CASE call.pc \in {"link", "fill_link"} -> {call.ncl}
      [] call.pc \in {"cut", "free"} -> Elems(r) \union (IF ExFat THEN call.scl .. call.clst - 1 ELSE {})
      [] OTHER -> {}
\* Clusters that are marked or counted, and not yet both.
Pending ==
    CASE call.pc \in {"link", "fill_link"} -> 1
      [] call.pc = "free" /\ ExFat -> call.clst - call.scl
      [] OTHER -> 0
\* Every mark is of a chain or in limbo, until a drive has been pulled.
Marks(o, r) == pulls = 0 => \A c \in Clusters : InUse(c) => c \in Limbo(r) \/ \E s \in Slots : c \in Elems(o[s])
\* FSInfo counts the free clusters.
Count == pulls = 0 /\ free_clst <= NClusters => free_clst = NFree + Pending

\* What a pull may tear: a file that was truncated or, on exFAT, written and not synced, and a rename.
Torn == call.op = "rename" \/ \E s \in Slots : file[s].cut \/ (ExFat /\ file[s].modified)
\* Otherwise the drive is sound.
DiskSound == Sound(disk) \/ Torn

\* The inductive invariant, for the chains o and the rest r of a chain being removed.
IInv(o, r) ==
    /\ Types
    /\ ChainsOK(o, r)
    /\ \A s \in Slots : SlotOK(s, o[s]) /\ Kept(s, o[s]) /\ OnDisk(s, o[s])
    /\ CallOK(o, r)
    /\ Marks(o, r)
    /\ Count
    /\ DiskSound

(***************************************************************************)
(* Numbers and chains                                                      *)
(***************************************************************************)

\* What clusters, their limits and the marks on the FAT are as numbers.
LEMMA Nums ==
    /\ NClusters \in Nat /\ NClusters > 0 /\ n_fatent = NClusters + 2
    /\ Clusters = 2 .. NClusters + 1
    /\ EOC \in Nat /\ EOC > NClusters + 3 /\ EOC = Unknown
    /\ 0 \notin Clusters /\ 1 \notin Clusters /\ EOC \notin Clusters
    /\ \A c \in Clusters : c \in Nat /\ c >= 2 /\ c < EOC /\ c \in 0 .. EOC
    /\ \A c \in Link : c \in 0 .. EOC /\ c \in Nat
    /\ \A c \in Cluster0 : c \in Nat
  BY AllocAssumption DEF n_fatent, Clusters, EOC, Unknown, Link, Cluster0

\* 1 .. n is finite, of n numbers.
LEMMA OneTo == ASSUME NEW n \in Nat PROVE IsFiniteSet(1 .. n) /\ Cardinality(1 .. n) = n
<1>0. 1 \in Int /\ n \in Int
  OBVIOUS
<1>1. /\ IsFiniteSet(1 .. n)
      /\ Cardinality(1 .. n) = IF 1 > n THEN 0 ELSE n - 1 + 1
  BY <1>0, FS_Interval, Zenon
<1> QED
  BY <1>1

\* A chain that meets no cluster twice has no more of them than there are.
LEMMA ChainLen ==
    ASSUME NEW q \in Seq(Clusters), Alone(q) PROVE Len(q) \in 0 .. NClusters
<1>1. IsFiniteSet(Clusters) /\ Cardinality(Clusters) = NClusters
  BY Nums, FS_Interval
<1>2. IsFiniteSet(1 .. Len(q)) /\ Cardinality(1 .. Len(q)) = Len(q)
  <2>1. PICK n \in Nat : n = Len(q)
    OBVIOUS
  <2> QED
    BY <2>1, OneTo
<1>3. q \in [1 .. Len(q) -> Clusters]
  OBVIOUS
<1>4. ~(Cardinality(Clusters) < Cardinality(1 .. Len(q)))
  BY <1>1, <1>2, <1>3, FS_PigeonHole DEF Alone
<1> QED
  BY <1>1, <1>2, <1>4, Nums

\* The walk of FileChain and EntryChain, as a function that satisfies its recursion.
Onward(next) == [b \in 0 .. EOC |-> IF b \in Clusters THEN next[b] ELSE b]
Steps(next, c, g) == [i \in 1 .. NClusters + 1 |-> IF i = 1 THEN c ELSE Onward(next)[g[i - 1]]]
Upto(h) == Cardinality({i \in 1 .. NClusters + 1 : h[i] \in Clusters})

\* A walk is what the recursion determines, up to where it leaves the volume.
LEMMA WalkBy ==
    ASSUME NEW next, NEW c, NEW g, g = Steps(next, c, g)
    PROVE  \E h : h = Steps(next, c, h) /\ Walk(next, c) = [i \in 1 .. Upto(h) |-> h[i]]
<1> DEFINE h == CHOOSE h : h = Steps(next, c, h)
<1>1. h = Steps(next, c, h)
  OBVIOUS
<1>2. Walk(next, c) = [i \in 1 .. Upto(h) |-> h[i]]
  BY DEF Walk, Steps, Onward, Upto
<1> HIDE DEF h
<1> QED
  BY <1>1, <1>2

\* What the recursion determines: the chain q, and then the number it ends with.
LEMMA WalkOf ==
    ASSUME NEW next \in [Clusters -> 0 .. EOC], NEW q \in Seq(Clusters), Alone(q), q # <<>>,
           \A i \in 1 .. Len(q) - 1 : next[q[i]] = q[i + 1],
           next[q[Len(q)]] \notin Clusters
    PROVE  Walk(next, q[1]) = q
<1>1. PICK n \in 1 .. NClusters : n = Len(q)
  BY ChainLen, Nums
<1>2. PICK e \in 0 .. EOC : e = next[q[n]] /\ e \notin Clusters
  BY <1>1
<1>3. \A i \in 1 .. n : q[i] \in Clusters /\ q[i] \in 0 .. EOC
  BY <1>1, Nums
<1>4. PICK g : g = [i \in 1 .. NClusters + 1 |-> IF i <= n THEN q[i] ELSE e]
  OBVIOUS
<1>5. PICK c : c = q[1]
  OBVIOUS
<1>6. ASSUME NEW i \in 1 .. NClusters + 1 PROVE g[i] = IF i = 1 THEN c ELSE Onward(next)[g[i - 1]]
  <2>1. CASE i = 1
    BY <2>1, <1>4, <1>5
  <2>2. CASE i # 1 /\ i <= n
    <3>1. g[i - 1] = q[i - 1] /\ g[i] = q[i] /\ i - 1 \in 1 .. n - 1
      BY <2>2, <1>4, Nums
    <3>2. next[q[i - 1]] = q[(i - 1) + 1]
      BY <3>1, <1>1
    <3> QED
      BY <2>2, <3>1, <3>2, <1>3 DEF Onward
  <2>3. CASE i = n + 1
    <3>1. g[i - 1] = q[n] /\ g[i] = e
      BY <2>3, <1>4, Nums
    <3> QED
      BY <2>3, <3>1, <1>2, <1>3 DEF Onward
  <2>4. CASE i > n + 1
    <3>1. g[i - 1] = e /\ g[i] = e
      BY <2>4, <1>4, Nums
    <3> QED
      BY <2>4, <3>1, <1>2 DEF Onward
  <2> QED
    BY <2>1, <2>2, <2>3, <2>4, Nums
<1>7. g = Steps(next, c, g)
  <2>1. [i \in 1 .. NClusters + 1 |-> g[i]] = Steps(next, c, g)
    BY <1>6, Zenon DEF Steps
  <2> QED
    BY <2>1, <1>4
<1>8. PICK h : h = Steps(next, c, h) /\ Walk(next, c) = [i \in 1 .. Upto(h) |-> h[i]]
  BY <1>7, WalkBy
<1>9. ASSUME NEW i \in 1 .. NClusters + 1, h[i] # g[i] PROVE FALSE
  <2>1. PICK S : S = {j \in 1 .. NClusters + 1 : h[j] # g[j]}
    OBVIOUS
  <2>2. S # {} /\ S \in SUBSET (1 .. NClusters + 1) /\ NClusters + 1 \in Nat
    <3>1. i \in S /\ S \in SUBSET (1 .. NClusters + 1)
      BY <1>9, <2>1, Zenon
    <3> QED
      BY <3>1, Nums
  <2>3. PICK j \in S : \A k \in S : j <= k
    BY <2>2, LeastOf
  <2>4. h[j] = IF j = 1 THEN c ELSE Onward(next)[h[j - 1]]
    BY <1>8, <2>2 DEF Steps
  <2>5. g[j] = IF j = 1 THEN c ELSE Onward(next)[g[j - 1]]
    BY <1>6, <2>2
  <2>6. j # 1 => h[j - 1] = g[j - 1]
    BY <2>1, <2>2, <2>3
  <2> QED
    BY <2>1, <2>3, <2>4, <2>5, <2>6
<1>10. \A i \in 1 .. NClusters + 1 : h[i] = IF i <= n THEN q[i] ELSE e
  BY <1>9, <1>4
<1>11. \A i \in 1 .. NClusters + 1 : h[i] \in Clusters <=> i <= n
  BY <1>10, <1>2, <1>3, n \in Nat
<1>12. {i \in 1 .. NClusters + 1 : h[i] \in Clusters} = 1 .. n
  <2>1. \A i : i \in 1 .. n <=> i \in 1 .. NClusters + 1 /\ i <= n
    BY Nums
  <2> QED
    BY <1>11, <2>1, Zenon
<1>14. Upto(h) = n
  <2>1. n \in Nat
    OBVIOUS
  <2> QED
    BY <2>1, <1>12, OneTo, Zenon DEF Upto
<1>13. [i \in 1 .. Upto(h) |-> h[i]] = q
  BY <1>14, <1>10, <1>1, Nums
<1> QED
  BY <1>5, <1>8, <1>13

\* The recursion has a solution, for every map.
LEMMA StepsExist ==
    ASSUME NEW next, NEW c PROVE \E g : g = Steps(next, c, g)
<1> DEFINE Upto2(n, g) == g = [i \in 1 .. n |-> IF i = 1 THEN c ELSE Onward(next)[g[i - 1]]]
<1>0. NClusters + 1 \in Nat /\ NClusters + 1 >= 1
  BY Nums
<1>1. ASSUME NEW n \in 1 .. NClusters + 1, ~ \E g : Upto2(n, g) PROVE FALSE
  <2>1. PICK S : S = {m \in 1 .. NClusters + 1 : ~ \E g : Upto2(m, g)}
    OBVIOUS
  <2>2. S # {} /\ S \in SUBSET (1 .. NClusters + 1)
    BY <1>1, <2>1, Zenon
  <2>3. PICK m \in S : \A k \in S : m <= k
    BY <1>0, <2>2, LeastOf
  <2>4. m \in 1 .. NClusters + 1
    BY <2>2
  <2>5. CASE m = 1
    <3>1. Upto2(1, [i \in 1 .. 1 |-> c])
      OBVIOUS
    <3> QED
      BY <2>1, <2>3, <2>5, <3>1
  <2>6. CASE m # 1
    <3>1. m - 1 \in 1 .. NClusters + 1 /\ m - 1 \notin S
      BY <1>0, <2>3, <2>4, <2>6
    <3>2. PICK g : Upto2(m - 1, g)
      BY <2>1, <3>1
    <3>3. PICK h : h = [i \in 1 .. m |-> IF i = m THEN Onward(next)[g[m - 1]] ELSE g[i]]
      OBVIOUS
    <3>4. ASSUME NEW i \in 1 .. m PROVE h[i] = IF i = 1 THEN c ELSE Onward(next)[h[i - 1]]
      <4>1. CASE i = m
        <5>1. h[i - 1] = g[m - 1] /\ h[i] = Onward(next)[g[m - 1]]
          BY <3>3, <4>1, <2>4, <2>6
        <5> QED
          BY <5>1, <4>1, <2>6
      <4>2. CASE i # m /\ i # 1
        <5>1. h[i] = g[i] /\ h[i - 1] = g[i - 1] /\ i \in 1 .. m - 1
          BY <3>3, <4>2, <2>4
        <5> QED
          BY <5>1, <3>2, <4>2
      <4>3. CASE i = 1 /\ i # m
        <5>1. h[i] = g[i] /\ i \in 1 .. m - 1
          BY <3>3, <4>3, <2>4
        <5> QED
          BY <5>1, <3>2, <4>3
      <4> QED
        BY <4>1, <4>2, <4>3
    <3>5. Upto2(m, h)
      <4>1. [i \in 1 .. m |-> h[i]] = [i \in 1 .. m |-> IF i = 1 THEN c ELSE Onward(next)[h[i - 1]]]
        BY <3>4, Zenon
      <4> QED
        BY <4>1, <3>3
    <3> QED
      BY <2>1, <2>3, <3>5
  <2> QED
    BY <2>5, <2>6
<1>2. NClusters + 1 \in 1 .. NClusters + 1
  BY <1>0
<1>3. PICK g : Upto2(NClusters + 1, g)
  BY <1>1, <1>2
<1> QED
  BY <1>3, Zenon DEF Steps

\* A set of positions that contains what is before each of its members is an interval.
LEMMA PrefixIs ==
    ASSUME NEW n \in Nat, NEW K \in SUBSET (1 .. n), \A i \in 2 .. n : i \in K => i - 1 \in K
    PROVE  \E k \in 0 .. n : K = 1 .. k
<1>1. CASE K = 1 .. n
  BY <1>1
<1>2. CASE K # 1 .. n
  <2>1. PICK S : S = (1 .. n) \ K
    OBVIOUS
  <2>2. S # {} /\ S \in SUBSET (1 .. n)
    BY <1>2, <2>1
  <2>3. PICK m \in S : \A k \in S : m <= k
    BY <2>2, LeastOf
  <2>4. m \in 1 .. n /\ m \notin K /\ \A i \in 1 .. m - 1 : i \in K
    <3>1. \A i \in 1 .. m - 1 : i \in 1 .. n /\ i \notin S
      BY <2>2, <2>3
    <3> QED
      BY <3>1, <2>1, <2>2, <2>3
  <2>5. PICK T : T = {j \in K : j > m}
    OBVIOUS
  <2>6. T = {}
    <3> SUFFICES ASSUME T # {} PROVE FALSE
      OBVIOUS
    <3>1. T \in SUBSET (1 .. n)
      BY <2>5
    <3>2. PICK j \in T : \A k \in T : j <= k
      BY <3>1, LeastOf
    <3>3. j \in K /\ j > m /\ j \in 2 .. n
      BY <3>1, <3>2, <2>5, <2>4
    <3>4. j - 1 \in K
      BY <3>3
    <3>5. j - 1 \notin T
      BY <3>2, <3>3
    <3>6. ~(j - 1 > m) /\ j - 1 # m
      BY <3>4, <3>5, <2>5, <2>4
    <3> QED
      BY <3>3, <3>6, <2>4
  <2>7. \A j \in K : j \in 1 .. m - 1
    <3> TAKE j \in K
    <3>1. j \in 1 .. n /\ j # m /\ ~(j > m)
      BY <2>4, <2>5, <2>6
    <3> QED
      BY <2>4, <3>1
  <2>8. K = 1 .. m - 1
    BY <2>4, <2>7
  <2>9. m - 1 \in 0 .. n
    BY <2>4
  <2> QED
    BY <2>8, <2>9
<1> QED
  BY <1>1, <1>2

\* A walk from a cluster begins there and follows the map; if it is no longer than the
\* volume, the map leads from its last cluster to none.
LEMMA WalkChain ==
    ASSUME NEW next \in [Clusters -> 0 .. EOC], NEW c \in Clusters, NEW q, q = Walk(next, c)
    PROVE  /\ q \in Seq(Clusters) /\ q # <<>> /\ q[1] = c
           /\ \A i \in 1 .. Len(q) - 1 : next[q[i]] = q[i + 1]
           /\ Len(q) <= NClusters => next[q[Len(q)]] \notin Clusters
<1>1. PICK n \in Nat : n = NClusters + 1 /\ n >= 1
  BY Nums
<1>2. PICK h : h = Steps(next, c, h) /\ q = [i \in 1 .. Upto(h) |-> h[i]]
  BY StepsExist, WalkBy
<1>3. h = [i \in 1 .. n |-> IF i = 1 THEN c ELSE Onward(next)[h[i - 1]]]
  BY <1>1, <1>2, Zenon DEF Steps
<1>4. \A b \in 0 .. EOC : Onward(next)[b] \in 0 .. EOC /\ (b \in Clusters => Onward(next)[b] = next[b])
                          /\ (b \notin Clusters => Onward(next)[b] = b)
  BY DEF Onward
<1>c. c \in 0 .. EOC
  BY Nums
<1>5. ASSUME NEW i \in 1 .. n, h[i] \notin 0 .. EOC PROVE FALSE
  <2>1. PICK S : S = {m \in 1 .. n : h[m] \notin 0 .. EOC}
    OBVIOUS
  <2>2. S # {} /\ S \in SUBSET (1 .. n)
    BY <1>5, <2>1, Zenon
  <2>3. PICK m \in S : \A k \in S : m <= k
    BY <2>2, LeastOf
  <2>4. m \in 1 .. n /\ h[m] \notin 0 .. EOC
    BY <2>1
  <2>5. m # 1
    BY <1>3, <1>c, <2>4
  <2>6. m - 1 \in 1 .. n /\ m - 1 \notin S
    BY <2>3, <2>4, <2>5
  <2>7. h[m - 1] \in 0 .. EOC
    BY <2>1, <2>6
  <2> QED
    BY <1>3, <1>4, <2>4, <2>5, <2>7
<1>6. \A i \in 2 .. n : h[i] = Onward(next)[h[i - 1]] /\ i - 1 \in 1 .. n /\ h[i - 1] \in 0 .. EOC
  <2> TAKE i \in 2 .. n
  <2>1. i \in 1 .. n /\ i # 1 /\ i - 1 \in 1 .. n
    OBVIOUS
  <2>2. h[i] = Onward(next)[h[i - 1]]
    BY <1>3, <2>1, Zenon
  <2> QED
    BY <1>5, <2>1, <2>2
<1>7. PICK K : K = {i \in 1 .. n : h[i] \in Clusters}
  OBVIOUS
<1>8. PICK k \in 0 .. n : K = 1 .. k
  <2>1. \A i \in 2 .. n : i \in K => i - 1 \in K
    BY <1>4, <1>6, <1>7
  <2> QED
    BY <1>7, <2>1, PrefixIs
<1>9. Upto(h) = k
  <2>1. k \in Nat
    OBVIOUS
  <2> QED
    BY <2>1, <1>1, <1>7, <1>8, OneTo, Zenon DEF Upto
<1>10. q = [i \in 1 .. k |-> h[i]] /\ \A i \in 1 .. k : h[i] \in Clusters
  BY <1>2, <1>7, <1>8, <1>9
<1>11. k >= 1
  <2>1. 1 \in K
    BY <1>1, <1>3, <1>7
  <2> QED
    BY <2>1, <1>8
<1>12. q \in Seq(Clusters) /\ Len(q) = k /\ \A i \in 1 .. k : q[i] = h[i]
  BY <1>10
<1>13. \A i \in 1 .. k - 1 : next[q[i]] = q[i + 1]
  <2> TAKE i \in 1 .. k - 1
  <2>1. i + 1 \in 2 .. n /\ (i + 1) - 1 = i /\ i \in 1 .. k /\ i + 1 \in 1 .. k
    BY <1>11
  <2>2. h[i + 1] = Onward(next)[h[i]] /\ h[i] \in 0 .. EOC
    BY <2>1, <1>6
  <2>3. h[i] \in Clusters /\ q[i] = h[i] /\ q[i + 1] = h[i + 1]
    BY <2>1, <1>10, <1>12
  <2> QED
    BY <2>2, <2>3, <1>4
<1>14. ASSUME k <= NClusters PROVE next[q[k]] \notin Clusters
  <2>1. k + 1 \in 1 .. n /\ k + 1 \notin 1 .. k /\ k + 1 \in 2 .. n /\ (k + 1) - 1 = k /\ k \in 1 .. k
    BY <1>14, <1>1, <1>11, Nums
  <2>2. h[k + 1] \notin Clusters
    BY <2>1, <1>7, <1>8, Zenon
  <2>3. h[k + 1] = Onward(next)[h[k]] /\ h[k] \in 0 .. EOC
    BY <2>1, <1>6
  <2>4. h[k] \in Clusters /\ q[k] = h[k]
    BY <2>1, <1>10, <1>12
  <2> QED
    BY <2>2, <2>3, <2>4, <1>4
<1>15. q[1] = c
  <2>1. h[1] = c /\ 1 \in 1 .. k
    BY <1>3, <1>11, <1>1
  <2> QED
    BY <2>1, <1>12
<1> QED
  BY <1>11, <1>12, <1>13, <1>14, <1>15

(***************************************************************************)
(* The chains of entries and of open files                                 *)
(***************************************************************************)

\* A contiguous run, its length and its members.
LEMMA ContigSeq ==
    \A a \in Nat, n \in Nat : /\ Len(Contig(a, n)) = n
                            /\ \A i \in 1 .. n : Contig(a, n)[i] = a + i - 1
  BY DEF Contig

\* The cluster after a cluster is on the FAT, or one after its end.
LEMMA NextToLink == \A c \in Clusters : c + 1 \in 0 .. EOC
  BY Nums

\* An entry whose chain is laid out on m is read back from m.
LEMMA LaidWalk ==
    ASSUME NEW m \in [Clusters -> Link], NEW e \in EntrySet, NEW q \in Seq(Clusters), Alone(q), Laid(m, e, q)
    PROVE  EntryChain(m, e) = q
<1>0. e.sclust \in Cluster0 /\ e.size \in Nat /\ e.stat \in {0, 2} /\ (~e.used => e = NoEntry)
      /\ (~ExFat => e.stat = 0)
  BY DEF EntrySet
<1>1. CASE e.sclust = 0
  BY <1>1 DEF Laid, EntryChain
<1>2. CASE e.sclust # 0
  <2>1. e.used /\ q # <<>> /\ q[1] = e.sclust
    BY <1>0, <1>2 DEF NoEntry, Laid
  <2>2. CASE e.stat = 2
    BY <1>0, <2>1, <2>2, <1>2 DEF Laid, EntryChain
  <2>3. CASE e.stat # 2
    <3>1. Linked(m, q)
      BY <2>1, <2>3 DEF Laid
    <3>2. PICK n \in Nat : n = Len(q) /\ n >= 1
      BY <2>1
    <3>3. \A i \in 1 .. Len(q) - 1 : m[q[i]] = q[i + 1]
      BY <3>1, <3>2 DEF Linked
    <3>4. m[q[Len(q)]] = EOC
      BY <3>1, <3>2 DEF Linked
    <3>5. m[q[Len(q)]] \notin Clusters
      BY <3>4, Nums
    <3>6. m \in [Clusters -> 0 .. EOC]
      BY Nums
    <3>7. Walk(m, q[1]) = q
      BY <3>3, <3>5, <3>6, <2>1, WalkOf
    <3> QED
      BY <2>1, <2>3, <3>7, <1>2 DEF EntryChain
  <2> QED
    BY <2>2, <2>3
<1> QED
  BY <1>1, <1>2

\* A cluster of the first run is met there and nowhere else.
LEMMA InRun ==
    ASSUME NEW m, NEW o \in ObjSet, NEW q \in Seq(Clusters), Alone(q), Followed(m, o, q), o.stat = 3,
           NEW i \in 1 .. Len(q)
    PROVE  (q[i] >= o.sclust /\ q[i] - o.sclust < o.n_cont) <=> i <= o.n_cont
<1>1. o.sclust \in Nat /\ o.n_cont \in Nat /\ q[i] \in Nat
  BY Nums DEF ObjSet
<1>2. \A j \in 1 .. Len(q) : j <= o.n_cont + 1 => q[j] = o.sclust + j - 1
  BY DEF Followed, FirstRun
<1>3. CASE i <= o.n_cont
  <2>1. q[i] = o.sclust + i - 1
    BY <1>1, <1>2, <1>3
  <2> QED
    BY <2>1, <1>1, <1>3
<1>4. CASE i > o.n_cont
  <2> SUFFICES ASSUME q[i] >= o.sclust, q[i] - o.sclust < o.n_cont PROVE FALSE
    BY <1>1, <1>4
  <2>1. PICK j \in Int : j = q[i] - o.sclust + 1
    BY <1>1
  <2>2. j \in 1 .. Len(q) /\ j <= o.n_cont /\ j # i
    BY <1>1, <1>4, <2>1
  <2>3. q[j] = q[i]
    BY <1>1, <1>2, <2>1, <2>2
  <2> QED
    BY <2>2, <2>3 DEF Alone
<1> QED
  BY <1>1, <1>3, <1>4

\* A cluster of the last run, likewise.
LEMMA InLast ==
    ASSUME NEW k \in Nat, NEW q \in Seq(Clusters), Alone(q), k <= Len(q), q # <<>>,
           \A i \in 1 .. Len(q) : i > Len(q) - k => q[i] = q[Len(q)] - (Len(q) - i),
           NEW i \in 1 .. Len(q)
    PROVE  (q[i] <= q[Len(q)] /\ q[i] > q[Len(q)] - k) <=> i > Len(q) - k
<1>1. PICK n \in Nat : n = Len(q) /\ n >= 1
  OBVIOUS
<1>2. q[i] \in Nat /\ q[n] \in Nat
  BY <1>1, Nums
<1>3. CASE i > n - k
  <2>1. q[i] = q[n] - (n - i)
    BY <1>1, <1>3
  <2> QED
    BY <2>1, <1>1, <1>2, <1>3
<1>4. CASE i <= n - k
  <2> SUFFICES ASSUME q[i] <= q[n], q[i] > q[n] - k PROVE FALSE
    BY <1>1, <1>2, <1>4
  <2>1. PICK j \in Int : j = n - (q[n] - q[i])
    BY <1>1, <1>2
  <2>2. j \in 1 .. n /\ j > n - k /\ j # i
    BY <1>1, <1>2, <1>4, <2>1
  <2>3. q[j] = q[n] - (n - j)
    BY <1>1, <2>2
  <2>4. q[j] = q[i]
    BY <1>1, <1>2, <2>1, <2>3
  <2> QED
    BY <1>1, <2>2, <2>4 DEF Alone
<1> QED
  BY <1>1, <1>2, <1>3, <1>4

\* NextInObj is a map of clusters, and what it maps each to.
LEMMA NextTyped ==
    ASSUME fat \in [Clusters -> Link], NEW o, NEW f PROVE NextInObj(o, f) \in [Clusters -> 0 .. EOC]
<1>1. \A c \in Clusters : c + 1 \in 0 .. EOC /\ EOC \in 0 .. EOC /\ fat[c] \in 0 .. EOC
  BY Nums
<1>2. \A c \in Clusters : NextInObj(o, f)[c] \in 0 .. EOC
  BY <1>1 DEF NextInObj
<1>3. NextInObj(o, f) = [c \in Clusters |-> NextInObj(o, f)[c]]
  BY DEF NextInObj
<1> QED
  BY <1>2, <1>3

\* By cases.
LEMMA NextIs ==
    ASSUME NEW o, NEW f, NEW c \in Clusters
    PROVE  NextInObj(o, f)[c] =
               IF ExFat /\ o.stat = 3 /\ c >= o.sclust /\ c - o.sclust < o.n_cont THEN c + 1
               ELSE IF ExFat /\ o.n_frag > 0 /\ c = f.clust THEN EOC
               ELSE IF ExFat /\ o.n_frag > 0 /\ c < f.clust /\ c > f.clust - o.n_frag THEN c + 1
               ELSE fat[c]
  BY DEF NextInObj

\* NextInObj leads through the clusters an open file holds.
Plain(o) == ~ExFat => o.stat = 0 /\ o.n_frag = 0

\* It leads along the chain an open file holds.
LEMMA NextHeld ==
    ASSUME fat \in [Clusters -> Link], NEW o \in ObjSet, NEW f \in FileSet, NEW q \in Seq(Clusters), Alone(q),
           Held(fat, o, f, q), Plain(o), o.stat # 2, NEW i \in 1 .. Len(q)
    PROVE  NextInObj(o, f)[q[i]] = IF i < Len(q) THEN q[i + 1] ELSE EOC
<1>1. /\ o.sclust \in Nat /\ o.n_cont \in Nat /\ o.n_frag \in Nat /\ f.fptr \in Nat
      /\ o.stat \in {0, 3}
  BY Nums DEF ObjSet, FileSet
<1>2. PICK n \in Nat : n = Len(q) /\ n >= 1
  OBVIOUS
<1>q. q[i] \in Clusters /\ q[i] \in Nat /\ q[n] \in Nat /\ q # <<>>
  BY <1>2, Nums
<1>3. Followed(fat, o, q) /\ o.n_frag <= n
      /\ (o.n_frag = 0 => fat[q[n]] = EOC)
      /\ (o.n_frag > 0 => f.clust = q[n])
      /\ (o.stat = 3 => o.n_cont < n /\ o.n_cont + o.n_frag <= n)
  BY <1>1, <1>2, <1>q DEF Held
<1>4. CASE o.stat = 3 /\ i <= o.n_cont
  <2>1. q[i] >= o.sclust /\ q[i] - o.sclust < o.n_cont
    BY <1>3, <1>4, InRun
  <2>2. NextInObj(o, f)[q[i]] = q[i] + 1
    <3>1. ExFat /\ q[i] \in Clusters
      BY <1>4, <1>q DEF Plain
    <3> QED
      BY <2>1, <1>4, <3>1, NextIs
  <2>3. i \in 1 .. n /\ i + 1 \in 1 .. n
    <3>1. o.n_cont < n /\ i <= o.n_cont /\ i \in 1 .. n
      BY <1>2, <1>3, <1>4, Zenon
    <3> QED
      BY <1>1, <3>1
  <2>4. \A j \in 1 .. n : j <= o.n_cont + 1 => q[j] = o.sclust + j - 1
    BY <1>2, <1>3, <1>4 DEF Followed, FirstRun
  <2>5. q[i] = o.sclust + i - 1 /\ q[i + 1] = o.sclust + (i + 1) - 1
    BY <2>3, <2>4, <1>1, <1>4
  <2> QED
    BY <2>2, <2>3, <2>5, <1>1, <1>2
<1>5. CASE ~(o.stat = 3 /\ i <= o.n_cont)
  <2>1. ~(ExFat /\ o.stat = 3 /\ q[i] >= o.sclust /\ q[i] - o.sclust < o.n_cont)
    BY <1>3, <1>5, InRun
  <2>2. NextInObj(o, f)[q[i]] =
            IF ExFat /\ o.n_frag > 0 /\ q[i] = f.clust THEN EOC
            ELSE IF ExFat /\ o.n_frag > 0 /\ q[i] < f.clust /\ q[i] > f.clust - o.n_frag THEN q[i] + 1
            ELSE fat[q[i]]
    BY <2>1, <1>q, NextIs
  <2>3. CASE o.n_frag = 0
    <3>1. NextInObj(o, f)[q[i]] = fat[q[i]]
      BY <2>2, <2>3
    <3>2. i < n => fat[q[i]] = q[i + 1]
      BY <1>1, <1>2, <1>3, <1>5, <2>3 DEF Followed, FirstRun
    <3> QED
      BY <3>1, <3>2, <1>2, <1>3, <2>3
  <2>4. CASE o.n_frag > 0
    <3>1. ExFat /\ f.clust = q[n]
      BY <2>4, <1>3 DEF Plain
    <3>2. \A j \in 1 .. Len(q) : j > Len(q) - o.n_frag => q[j] = q[Len(q)] - (Len(q) - j)
      BY <1>q DEF Held
    <3>3. (q[i] <= q[n] /\ q[i] > q[n] - o.n_frag) <=> i > n - o.n_frag
      BY <1>1, <1>2, <1>3, <1>q, <3>2, InLast
    <3>4. q[i] = q[n] <=> i = n
      BY <1>2 DEF Alone
    <3>5. CASE i = n
      BY <2>2, <2>4, <3>1, <3>5, <1>2
    <3>6. CASE i # n /\ i > n - o.n_frag
      <4>1. NextInObj(o, f)[q[i]] = q[i] + 1
        BY <2>2, <2>4, <3>1, <3>3, <3>4, <3>6, <1>q, <1>1, SMTT(40)
      <4>2. q[i] = q[n] - (n - i) /\ q[i + 1] = q[n] - (n - (i + 1))
        BY <3>2, <3>6, <1>1, <1>2, SMTT(40)
      <4> QED
        BY <4>1, <4>2, <1>2, <3>6, <1>q
    <3>7. CASE i # n /\ i <= n - o.n_frag
      <4>1. NextInObj(o, f)[q[i]] = fat[q[i]]
        BY <2>2, <2>4, <3>1, <3>3, <3>4, <3>7, <1>q, <1>1, <1>2
      <4>2. fat[q[i]] = q[i + 1]
        BY <3>7, <1>1, <1>2, <1>3, <1>5 DEF Followed, FirstRun
      <4> QED
        BY <4>1, <4>2, <1>2, <3>7
    <3> QED
      BY <3>5, <3>6, <3>7, <1>1, <1>2
  <2> QED
    BY <2>3, <2>4, <1>1
<1> QED
  BY <1>4, <1>5

\* The same for a file that is being cut, up to where it is cut.
LEMMA NextShrinking ==
    ASSUME fat \in [Clusters -> Link], NEW o \in ObjSet, NEW f \in FileSet, NEW q \in Seq(Clusters), Alone(q),
           o.n_frag = 0, Followed(fat, o, q), o.stat # 2, NEW i \in 1 .. Len(q), i < Len(q), Plain(o)
    PROVE  NextInObj(o, f)[q[i]] = q[i + 1]
<1>1. o.sclust \in Nat /\ o.n_cont \in Nat /\ o.stat \in {0, 3}
  BY Nums DEF ObjSet
<1>2. PICK n \in Nat : n = Len(q) /\ n >= 1
  OBVIOUS
<1>q. q[i] \in Clusters /\ q[i] \in Nat
  BY <1>2, Nums
<1>4. CASE o.stat = 3 /\ i <= o.n_cont
  <2>1. q[i] >= o.sclust /\ q[i] - o.sclust < o.n_cont
    BY <1>4, InRun
  <2>2. NextInObj(o, f)[q[i]] = q[i] + 1
    <3>1. ExFat /\ q[i] \in Clusters
      BY <1>4, <1>q DEF Plain
    <3> QED
      BY <2>1, <1>4, <3>1, NextIs
  <2>3. q[i] = o.sclust + i - 1 /\ q[i + 1] = o.sclust + (i + 1) - 1
    BY <1>1, <1>2, <1>4, SMTT(40) DEF Followed, FirstRun
  <2> QED
    BY <2>2, <2>3, <1>1, <1>2
<1>5. CASE ~(o.stat = 3 /\ i <= o.n_cont)
  <2>1. ~(ExFat /\ o.stat = 3 /\ q[i] >= o.sclust /\ q[i] - o.sclust < o.n_cont)
    BY <1>5, InRun
  <2>2. NextInObj(o, f)[q[i]] = fat[q[i]]
    BY <2>1, <1>q, NextIs
  <2>3. fat[q[i]] = q[i + 1]
    BY <1>1, <1>2, <1>5 DEF Followed, FirstRun
  <2> QED
    BY <2>2, <2>3
<1> QED
  BY <1>4, <1>5

\* Types, without what is above them.
Basic ==
    /\ fat \in [Clusters -> Link] /\ entry \in [Slots -> EntrySet]
    /\ obj \in [Slots -> ObjSet] /\ file \in [Slots -> FileSet]

\* They follow from Types.
LEMMA TypesBasic == Types => Basic
  BY DEF Types, Basic

\* So the chain FileChain reads is the one the invariant names.
LEMMA FileHeld ==
    ASSUME Basic, NEW s \in Slots, NEW q \in Seq(Clusters), Alone(q), ~Removing(s),
           Held(fat, obj[s], file[s], q), Plain(obj[s])
    PROVE  FileChain(s) = q
<1>1. PICK o \in ObjSet, f \in FileSet : o = obj[s] /\ f = file[s]
  BY DEF Basic
<1>2. /\ o.sclust \in Cluster0 /\ o.n_cont \in Nat /\ o.n_frag \in Nat /\ f.fptr \in Nat /\ o.objsize \in Nat
      /\ o.stat \in {0, 2, 3} /\ Held(fat, o, f, q) /\ Plain(o)
  BY <1>1, Nums DEF ObjSet, FileSet
<1>3. CASE o.sclust = 0
  BY <1>1, <1>2, <1>3 DEF FileChain, Held
<1>4. CASE o.sclust # 0 /\ o.stat = 2
  <2>1. q = Contig(o.sclust, BoundedMax(o.objsize, f.fptr))
    BY <1>2, <1>4 DEF Held
  <2>2. ExFat
    BY <1>2, <1>4 DEF Plain
  <2> QED
    BY <1>1, <1>4, <2>1, <2>2 DEF FileChain, Removing
<1>5. CASE o.sclust # 0 /\ o.stat # 2
  <2>1. q # <<>> /\ q[1] = o.sclust
    BY <1>2, <1>5 DEF Held
  <2>2. PICK n \in Nat : n = Len(q) /\ n >= 1
    BY <2>1
  <2>3. \A i \in 1 .. n : NextInObj(o, f)[q[i]] = IF i < n THEN q[i + 1] ELSE EOC
    BY <1>2, <1>5, <2>2, NextHeld DEF Basic
  <2>4. \A i \in 1 .. Len(q) - 1 : NextInObj(o, f)[q[i]] = q[i + 1]
    BY <2>2, <2>3
  <2>5. NextInObj(o, f)[q[Len(q)]] \notin Clusters
    BY <2>2, <2>3, Nums
  <2>6. NextInObj(o, f) \in [Clusters -> 0 .. EOC]
    BY NextTyped DEF Basic
  <2>7. Walk(NextInObj(o, f), q[1]) = q
    BY <2>1, <2>4, <2>5, <2>6, WalkOf
  <2> QED
    BY <1>1, <1>5, <2>1, <2>7, Zenon DEF FileChain, Removing
<1> QED
  BY <1>3, <1>4, <1>5

\* For a file that is being cut as well.
LEMMA FileShrinking ==
    ASSUME Basic, NEW s \in Slots, NEW q \in Seq(Clusters), Alone(q), Removing(s), call.pclst \in Cluster0,
           Shrinking(fat, obj[s], file[s], call, q), Plain(obj[s])
    PROVE  FileChain(s) = q
<1>1. PICK o \in ObjSet, f \in FileSet, p \in Cluster0 : o = obj[s] /\ f = file[s] /\ p = call.pclst
  BY DEF Basic
<1>2. /\ o.sclust \in Cluster0 /\ o.n_cont \in Nat /\ o.n_frag = 0 /\ f.fptr \in Nat /\ o.objsize \in Nat
      /\ o.stat \in {0, 2, 3} /\ Shrinking(fat, o, f, call, q) /\ Plain(o)
  BY <1>1, Nums DEF ObjSet, FileSet, Shrinking
<1>3. CASE p = 0
  BY <1>1, <1>2, <1>3 DEF FileChain, Shrinking, Removing
<1>4. CASE p # 0
  <2>1. q # <<>> /\ q[1] = o.sclust /\ q[Len(q)] = p
    BY <1>1, <1>2, <1>4 DEF Shrinking
  <2>2. PICK n \in Nat : n = Len(q) /\ n >= 1
    BY <2>1
  <2>3. q[1] \in Clusters /\ o.sclust # 0 /\ p \in Clusters
    BY <2>1, <2>2, Nums
  <2>4. CASE o.stat = 2
    <3>1. q = Contig(o.sclust, n)
      BY <1>2, <2>1, <2>2, <2>4 DEF Shrinking
    <3>2. q[n] = o.sclust + n - 1
      <4>1. o.sclust \in Nat /\ n \in 1 .. n
        BY <1>2, <2>2, Nums
      <4>2. \A i \in 1 .. n : q[i] = o.sclust + i - 1
        BY <4>1, <3>1, ContigSeq
      <4> QED
        BY <4>1, <4>2
    <3>3. n = p - o.sclust + 1
      BY <3>2, <2>1, <2>2, <2>3, Nums
    <3>4. ExFat
      BY <1>2, <2>4 DEF Plain
    <3> QED
      BY <1>1, <1>4, <2>3, <2>4, <3>1, <3>3, <3>4 DEF FileChain, Removing
  <2>5. CASE o.stat # 2
    <3>1. PICK m : m = [NextInObj(o, f) EXCEPT ![p] = EOC]
      OBVIOUS
    <3>2. NextInObj(o, f) \in [Clusters -> 0 .. EOC]
      BY NextTyped DEF Basic
    <3>3. m \in [Clusters -> 0 .. EOC] /\ m[p] = EOC /\ \A c \in Clusters : c # p => m[c] = NextInObj(o, f)[c]
      BY <3>1, <3>2, <2>3, Nums
    <3>4. Followed(fat, o, q)
      BY <1>2, <2>1, <2>5 DEF Shrinking
    <3>5. ASSUME NEW i \in 1 .. Len(q) - 1 PROVE m[q[i]] = q[i + 1]
      <4>1. i \in 1 .. Len(q) /\ i < Len(q) /\ Len(q) \in 1 .. Len(q) /\ i # Len(q)
        BY <2>2
      <4>2. q[i] \in Clusters /\ q[i] # p
        BY <2>1, <4>1 DEF Alone
      <4>3. NextInObj(o, f)[q[i]] = q[i + 1]
        BY <3>4, <4>1, <1>2, <2>5, NextShrinking DEF Basic
      <4> QED
        BY <3>3, <4>2, <4>3
    <3>6. m[q[Len(q)]] \notin Clusters
      BY <3>3, <2>1, Nums
    <3>7. Walk(m, q[1]) = q
      BY <2>1, <3>3, <3>5, <3>6, WalkOf
    <3> QED
      BY <1>1, <1>4, <2>1, <2>3, <2>5, <3>1, <3>7, Zenon DEF FileChain, Removing
  <2> QED
    BY <2>4, <2>5
<1> QED
  BY <1>3, <1>4

\* The chains of the invariant are the program's.
LEMMA ChainOf ==
    ASSUME Types, NEW s \in Slots, NEW q \in Seq(Clusters), Alone(q), SlotOK(s, q), SyncOK
    PROVE  Chain[s] = q
<1>1. Basic /\ call.pclst \in Cluster0 /\ entry[s] \in EntrySet /\ file[s] \in FileSet
  BY TypesBasic DEF Types, CallSet
<1>2. CASE file[s].open
  <2>1. OpenOK(s, q) /\ Plain(obj[s])
    BY <1>2 DEF SlotOK, OpenOK, Plain
  <2>2. FileChain(s) = q
    <3>1. CASE Removing(s)
      BY <1>1, <2>1, <3>1, FileShrinking DEF OpenOK
    <3>2. CASE ~Removing(s)
      BY <1>1, <2>1, <3>2, FileHeld DEF OpenOK
    <3> QED
      BY <3>1, <3>2
  <2>3. ~(call.pc = "erase" /\ call.to = s)
    BY <1>2 DEF SyncOK
  <2> QED
    BY <2>2, <2>3, <1>2 DEF Chain
<1>3. CASE ~file[s].open
  <2>1. CASE call.pc = "erase" /\ call.to = s
    BY <1>3, <2>1 DEF SlotOK, Chain
  <2>2. CASE ~(call.pc = "erase" /\ call.to = s)
    <3>1. Laid(fat, entry[s], q)
      BY <1>3, <2>2 DEF SlotOK
    <3>2. EntryChain(fat, entry[s]) = q
      BY <1>1, <3>1, LaidWalk DEF Basic
    <3> QED
      BY <1>3, <2>2, <3>2 DEF Chain
  <2> QED
    BY <2>1, <2>2
<1> QED
  BY <1>2, <1>3

\* A chain of the invariant is a sequence of clusters, none of them twice.
LEMMA ChainsAlone ==
    ASSUME NEW o, NEW r, ChainsOK(o, r), NEW s \in Slots
    PROVE  o[s] \in Seq(Clusters) /\ Alone(o[s])
  BY DEF ChainsOK, Owners!Apart, Alone

\* The chains of the invariant are the ones FatFs would walk.
LEMMA ChainIs == \A o, r : IInv(o, r) => Chain = o
<1> SUFFICES ASSUME NEW o, NEW r, IInv(o, r) PROVE Chain = o
  OBVIOUS
<1>1. \A s \in Slots : Chain[s] = o[s]
  BY ChainOf, ChainsAlone DEF IInv, CallOK
<1>2. o \in [Slots -> Seq(Clusters)]
  BY DEF IInv, ChainsOK
<1>3. Chain = [s \in Slots |-> Chain[s]]
  BY DEF Chain
<1> QED
  BY <1>1, <1>2, <1>3

(***************************************************************************)
(* What a step leaves alone                                                *)
(***************************************************************************)

\* The call that runs is about slot s.
Active(s) == call.pc # "idle" /\ call.s = s
SameUse == \A c \in Clusters : InUse(c)' <=> InUse(c)

\* What is marked depends on the FAT or the bitmap only.
LEMMA SameUseBy == ASSUME UNCHANGED <<fs_type, fat, bitmap>> PROVE SameUse
  BY DEF SameUse, InUse, ExFat

\* The drive is left as it was, or catches up with what FatFs sees.
DiskStays == disk'.fat = disk.fat /\ disk'.bitmap = disk.bitmap /\ disk'.entry = disk.entry
DiskCatches == disk'.fat = fat /\ disk'.bitmap = bitmap /\ disk'.entry = entry
InfoOK(d) == d.free \in 0 .. NClusters \union {Unknown} /\ d.last \in Clusters \union {Unknown}
DiskMoves == (DiskStays \/ DiskCatches) /\ InfoOK(disk')

\* After sync_window the drive holds what FatFs sees.
LEMMA FlushedIs ==
    ASSUME LagInv, Types
    PROVE  Flushed.fat = fat /\ Flushed.bitmap = bitmap /\ Flushed.entry = entry /\ InfoOK(Flushed)
<1>1. DiskShape(Flushed)
  BY FlushedShape DEF LagInv
<1>2. Flushed.fat = [c \in Clusters |-> Flushed.fat[c]] /\ Flushed.entry = [s \in Slots |-> Flushed.entry[s]]
  <2>1. PICK d : d = Flushed
    OBVIOUS
  <2>2. d = [fat |-> [c \in Clusters |-> d.fat[c]], bitmap |-> d.bitmap,
             entry |-> [s \in Slots |-> d.entry[s]], free |-> d.free, last |-> d.last]
    BY <1>1, <2>1 DEF DiskShape
  <2>3. d.fat = [c \in Clusters |-> d.fat[c]] /\ d.entry = [s \in Slots |-> d.entry[s]]
    BY <2>2
  <2> QED
    BY <2>1, <2>3
<1>3. fat = [c \in Clusters |-> fat[c]] /\ entry = [s \in Slots |-> entry[s]]
  BY DEF LagInv, Shape
<1>4. /\ \A c \in Clusters : Flushed.fat[c] = fat[c]
      /\ Flushed.bitmap = bitmap
      /\ \A s \in Slots : Flushed.entry[s] = entry[s]
  BY FlushedAll
<1>5. Flushed.fat = fat
  <2>1. [c \in Clusters |-> Flushed.fat[c]] = [c \in Clusters |-> fat[c]]
    BY <1>4, Zenon
  <2> QED
    BY <1>2, <1>3, <2>1, Zenon
<1>6. Flushed.entry = entry
  <2>1. [s \in Slots |-> Flushed.entry[s]] = [s \in Slots |-> entry[s]]
    BY <1>4, Zenon
  <2> QED
    BY <1>2, <1>3, <2>1, Zenon
<1>7. Flushed.free = disk.free /\ Flushed.last = disk.last
  BY DEF Flushed, LagInv, Shape, DiskShape
<1>8. InfoOK(Flushed)
  BY <1>7 DEF InfoOK, Types
<1> QED
  BY <1>4, <1>5, <1>6, <1>8

\* So a step leaves the drive as it was, or lets it catch up: a step that does not write,
LEMMA StaysMoves == ASSUME LagInv, Types, UNCHANGED disk PROVE DiskMoves
  BY DEF DiskMoves, DiskStays, InfoOK, Types

\* sync_window,
LEMMA FlushMoves == ASSUME LagInv, Types, disk' = Flushed PROVE DiskCatches /\ DiskMoves
  BY FlushedIs DEF DiskMoves, DiskCatches

\* move_window,
LEMMA VisitMoves == ASSUME LagInv, Types, NEW R, NEW sect, Visit(R, sect) PROVE DiskMoves
  BY FlushMoves, StaysMoves DEF Visit

\* reading sectors,
LEMMA ReadMoves == ASSUME LagInv, Types, NEW R, Read(R) PROVE DiskMoves
  BY VisitMoves, StaysMoves DEF Read

\* writing one,
LEMMA ModifyMoves == ASSUME LagInv, Types, NEW R, NEW sect, Modify(R, sect) PROVE DiskMoves
  BY FlushMoves, StaysMoves DEF Modify

\* and sync_fs.
LEMMA SyncMoves == ASSUME LagInv, Types, SyncFs PROVE DiskCatches /\ DiskMoves
<1>1. CASE fs_type = "fat32" /\ fsi_flag
  <2>1. PICK d : d = WithInfo(free_clst, last_clst) /\ disk' = d
    BY <1>1 DEF SyncFs, WithInfo
  <2>2. PICK T, B, E, x, y : Flushed = [fat |-> T, bitmap |-> B, entry |-> E, free |-> x, last |-> y]
    <3>1. DiskShape(Flushed)
      BY FlushedShape DEF LagInv
    <3> QED
      BY <3>1 DEF DiskShape
  <2>3. d = [fat |-> T, bitmap |-> B, entry |-> E, free |-> free_clst, last |-> last_clst]
    BY <2>1, <2>2 DEF WithInfo
  <2>4. T = fat /\ B = bitmap /\ E = entry
    BY <2>2, FlushedIs
  <2>5. DiskCatches
    BY <2>1, <2>3, <2>4 DEF DiskCatches
  <2>6. InfoOK(disk')
    BY <2>1, <2>3 DEF InfoOK, Types
  <2> QED
    BY <2>5, <2>6 DEF DiskMoves
<1>2. CASE ~(fs_type = "fat32" /\ fsi_flag)
  BY <1>2, FlushMoves DEF SyncFs
<1> QED
  BY <1>1, <1>2

\* The drive stays of its type.
LEMMA DiskTypes ==
    ASSUME Types, DiskMoves
    PROVE  /\ disk'.fat \in [Clusters -> Link] /\ disk'.bitmap \in [Clusters -> BOOLEAN]
           /\ disk'.entry \in [Slots -> EntrySet]
           /\ disk'.free \in 0 .. NClusters \union {Unknown} /\ disk'.last \in Clusters \union {Unknown}
  BY DEF Types, DiskMoves, DiskStays, DiskCatches, InfoOK

\* Chains are laid on the FAT in their clusters alone.
\* The FATs m and n agree along the chain q.
Agree(m, n, q) == \A i \in 1 .. Len(q) : n[q[i]] = m[q[i]]

\* A chain laid, followed or held on a FAT is so on any FAT that agrees along it.
LEMMA LaidSame ==
    ASSUME NEW m, NEW n, NEW e, NEW q, Agree(m, n, q), Laid(m, e, q) PROVE Laid(n, e, q)
  BY DEF Agree, Laid, Linked

LEMMA FollowedSame ==
    ASSUME NEW m, NEW n, NEW o, NEW q \in Seq(Clusters), Agree(m, n, q), Followed(m, o, q) PROVE Followed(n, o, q)
<1>1. \A i \in 1 .. Len(q) - 1 : i \in 1 .. Len(q)
  OBVIOUS
<1> QED
  BY <1>1 DEF Agree, Followed

LEMMA HeldSame ==
    ASSUME NEW m, NEW n, NEW o, NEW f, NEW q \in Seq(Clusters), Agree(m, n, q), Held(m, o, f, q) PROVE Held(n, o, f, q)
<1>1. q # <<>> => Len(q) \in 1 .. Len(q)
  OBVIOUS
<1>2. q # <<>> => n[q[Len(q)]] = m[q[Len(q)]]
  BY <1>1 DEF Agree
<1>3. o.stat # 2 => Followed(n, o, q)
  BY FollowedSame DEF Held
<1> QED
  BY <1>2, <1>3 DEF Held

\* A slot no call is about, before or after the step.
LEMMA OtherSlot ==
    ASSUME Types, NEW s \in Slots, NEW q \in Seq(Clusters), SlotOK(s, q), Kept(s, q), OnDisk(s, q), DiskMoves,
           fs_type' = fs_type, obj'[s] = obj[s], file'[s] = file[s], entry'[s] = entry[s],
           Agree(fat, fat', q), ~Active(s), ~Active(s)',
           (call'.pc = "erase" /\ call'.to = s) <=> (call.pc = "erase" /\ call.to = s),
           (call'.op = "rename" => s \notin {call'.s, call'.to}) => (call.op = "rename" => s \notin {call.s, call.to})
    PROVE  SlotOK(s, q)' /\ Kept(s, q)' /\ OnDisk(s, q)'
<1>1. ~Removing(s) /\ ~Removing(s)' /\ ~(call.s = s /\ call.pc \in Next1) /\ ~(call'.s = s /\ call'.pc \in Next1)
      /\ ~(call.s = s /\ call.pc = "fill_link") /\ ~(call'.s = s /\ call'.pc = "fill_link")
  BY DEF Active, Removing, Next1
<1>2. SlotOK(s, q)'
  <2>1. CASE file[s].open
    <3>1. OpenOK(s, q)
      BY <2>1 DEF SlotOK
    <3>2. Held(fat', obj[s], file[s], q)
      BY <1>1, <3>1, HeldSame DEF OpenOK
    <3>3. OpenOK(s, q)'
      BY <1>1, <3>1, <3>2 DEF OpenOK, ExFat
    <3> QED
      BY <2>1, <3>3 DEF SlotOK
  <2>2. CASE ~file[s].open
    <3>1. ~(call.pc = "erase" /\ call.to = s) => Laid(fat', entry[s], q)
      BY <2>2, LaidSame DEF SlotOK
    <3> QED
      BY <2>2, <3>1 DEF SlotOK
  <2> QED
    BY <2>1, <2>2
<1>3. Kept(s, q)'
  <2>1. ASSUME Settled(s)', ~(call'.pc = "erase" /\ call'.to = s)
        PROVE  Laid(fat', entry'[s], IF entry'[s].sclust = 0 THEN <<>> ELSE q)
    <3>1. Settled(s)
      BY <2>1 DEF Settled, ExFat
    <3>2. Laid(fat, entry[s], IF entry[s].sclust = 0 THEN <<>> ELSE q)
      BY <2>1, <3>1 DEF Kept
    <3>3. Agree(fat, fat', IF entry[s].sclust = 0 THEN <<>> ELSE q)
      BY DEF Agree
    <3> QED
      BY <3>2, <3>3, LaidSame
  <2> QED
    BY <2>1 DEF Kept
<1>4. OnDisk(s, q)'
  <2>1. ASSUME Quiet(s)' PROVE Quiet(s)
    BY <2>1 DEF Quiet
  <2> SUFFICES ASSUME Quiet(s)'
               PROVE  /\ disk'.entry[s] = entry[s]
                      /\ file[s].open => entry[s].sclust = obj[s].sclust
                      /\ entry[s].stat # 2 => \A i \in 1 .. Len(q) : disk'.fat[q[i]] = fat'[q[i]]
    BY DEF OnDisk
  <2>2. /\ disk.entry[s] = entry[s]
        /\ file[s].open => entry[s].sclust = obj[s].sclust
        /\ entry[s].stat # 2 => \A i \in 1 .. Len(q) : disk.fat[q[i]] = fat[q[i]]
    BY <2>1 DEF OnDisk
  <2> QED
    BY <2>2 DEF DiskMoves, DiskStays, DiskCatches, Agree
<1> QED
  BY <1>2, <1>3, <1>4

\* What every step but a remove and a pull keeps: the marks of owned clusters, the
\* invariant's view of who owns what is marked, and the count.
LEMMA ChainsStay ==
    ASSUME NEW o, NEW r, ChainsOK(o, r), \A c \in Clusters : InUse(c) => InUse(c)'
    PROVE  ChainsOK(o, r)'
<1>1. /\ o \in [Slots -> Seq(Clusters)] /\ r \in Seq(Clusters) /\ Owners!Apart(o) /\ Alone(r)
      /\ \A s \in Slots : \A c \in Elems(o[s]) : InUse(c) /\ c \notin Elems(r)
      /\ \A c \in Elems(r) : InUse(c)
  BY DEF ChainsOK
<1>2. \A s \in Slots : Elems(o[s]) \subseteq Clusters
  BY <1>1 DEF Elems
<1>3. Elems(r) \subseteq Clusters
  BY <1>1 DEF Elems
<1>4. /\ \A s \in Slots : \A c \in Elems(o[s]) : InUse(c)' /\ c \notin Elems(r)
      /\ \A c \in Elems(r) : InUse(c)'
  BY <1>1, <1>2, <1>3
<1> QED
  BY <1>1, <1>4 DEF ChainsOK

\* A step that marks and unmarks nothing keeps Marks,
LEMMA MarksStay ==
    ASSUME NEW o, NEW r, NEW r2, Marks(o, r), UNCHANGED pulls, SameUse, Limbo(r) \subseteq Limbo(r2)'
    PROVE  Marks(o, r2)'
  BY DEF Marks, SameUse

\* the number of free clusters,
LEMMA FreeStays == ASSUME SameUse PROVE NFree' = NFree
<1>1. {c \in Clusters : ~InUse(c)'} = {c \in Clusters : ~InUse(c)}
  BY DEF SameUse
<1> QED
  BY <1>1, Zenon DEF NFree

\* and Count.
LEMMA CountStays ==
    ASSUME Count, SameUse, UNCHANGED <<pulls, free_clst>>, Pending' = Pending
    PROVE  Count'
  BY FreeStays DEF Count

\* The volume is sound when nothing is torn and no file stretched.
Unstretched == \A s \in Slots : file[s].open /\ ExFat => file[s].fptr <= obj[s].objsize
\* (Sound and EntryChain, with what they read as arguments.)
ChainIn(x, f, e) ==
    IF ~e.used \/ e.sclust = 0 THEN <<>>
    ELSE IF x /\ e.stat = 2 THEN Contig(e.sclust, e.size)
    ELSE Walk(f, e.sclust)
SoundWith(x, f, b, e, ch) ==
    \A s \in Slots :
        /\ Len(ch[s]) >= e[s].size
        /\ Len(ch[s]) <= NClusters
        /\ \A i, j \in DOMAIN ch[s] : ch[s][i] = ch[s][j] => i = j
        /\ Elems(ch[s]) \subseteq {c \in Clusters : IF x THEN b[c] ELSE f[c] # 0}
        /\ ch[s] # <<>> /\ ~(x /\ e[s].stat = 2) => f[ch[s][Len(ch[s])]] = EOC
        /\ \A t \in Slots \ {s} : Elems(ch[s]) \intersect Elems(ch[t]) = {}
SoundIn(x, f, b, e) == SoundWith(x, f, b, e, [s \in Slots |-> ChainIn(x, f, e[s])])

\* SoundIn is Sound, now and after a step.
LEMMA SoundIs == ASSUME NEW d PROVE Sound(d) <=> SoundIn(ExFat, d.fat, d.bitmap, d.entry)
  BY Zenon DEF Sound, SoundIn, SoundWith, ChainIn, EntryChain

LEMMA SoundIsNext == Sound(disk)' <=> SoundIn(ExFat', disk'.fat, disk'.bitmap, disk'.entry)
  BY Zenon DEF Sound, SoundIn, SoundWith, ChainIn, EntryChain, ExFat
LaidOut(o) == \A s \in Slots : Laid(fat, entry[s], IF entry[s].sclust = 0 THEN <<>> ELSE o[s])

\* A volume whose chains are all laid is sound on the drive that holds it.
LEMMA LaidSound ==
    ASSUME NEW o, NEW r, ChainsOK(o, r), fat \in [Clusters -> Link], entry \in [Slots -> EntrySet], LaidOut(o),
           NEW d, d.fat = fat, d.bitmap = bitmap, d.entry = entry
    PROVE  Sound(d)
<1>1. PICK ch : ch = [s \in Slots |-> IF entry[s].sclust = 0 THEN <<>> ELSE o[s]]
  OBVIOUS
<1>2. ASSUME NEW s \in Slots
      PROVE  /\ ch[s] \in Seq(Clusters) /\ Alone(ch[s]) /\ Laid(fat, entry[s], ch[s])
             /\ EntryChain(fat, entry[s]) = ch[s]
  <2>1. ch[s] \in Seq(Clusters) /\ Alone(ch[s])
    BY <1>1, ChainsAlone DEF Alone
  <2>3. Laid(fat, entry[s], ch[s])
    BY <1>1 DEF LaidOut
  <2>4. fat \in [Clusters -> Link] /\ entry[s] \in EntrySet
    OBVIOUS
  <2> QED
    BY <2>1, <2>3, <2>4, LaidWalk
<1>3. ch = [s \in Slots |-> EntryChain(d.fat, d.entry[s])]
  BY <1>1, <1>2
<1>5. ASSUME NEW s \in Slots
      PROVE /\ Len(ch[s]) >= d.entry[s].size
            /\ Len(ch[s]) <= NClusters
            /\ \A i, j \in DOMAIN ch[s] : ch[s][i] = ch[s][j] => i = j
            /\ Elems(ch[s]) \subseteq {c \in Clusters : IF ExFat THEN d.bitmap[c] ELSE d.fat[c] # 0}
            /\ ch[s] # <<>> /\ ~(ExFat /\ d.entry[s].stat = 2) => d.fat[ch[s][Len(ch[s])]] = EOC
            /\ \A t \in Slots \ {s} : Elems(ch[s]) \intersect Elems(ch[t]) = {}
  <2>2. entry[s] \in EntrySet
    OBVIOUS
  <2>3. Len(ch[s]) >= entry[s].size
    BY <1>2, <2>2 DEF Laid, EntrySet
  <2>4. Len(ch[s]) <= NClusters
    BY <1>2, ChainLen, Nums
  <2>5. \A i, j \in DOMAIN ch[s] : ch[s][i] = ch[s][j] => i = j
    BY <1>2 DEF Alone
  <2>6. \A t \in Slots : Elems(ch[t]) \subseteq Elems(o[t])
    BY <1>1 DEF Elems
  <2>7. \A c \in Elems(o[s]) : InUse(c) /\ c \in Clusters
    BY DEF ChainsOK, Elems
  <2>8. Elems(ch[s]) \subseteq {c \in Clusters : IF ExFat THEN d.bitmap[c] ELSE d.fat[c] # 0}
    BY <2>6, <2>7 DEF InUse, ExFat
  <2>9. ASSUME ch[s] # <<>>, ~(ExFat /\ entry[s].stat = 2) PROVE fat[ch[s][Len(ch[s])]] = EOC
    <3>1. entry[s].stat # 2
      BY <2>2, <2>9 DEF EntrySet, ExFat
    <3>2. Linked(fat, ch[s]) /\ Len(ch[s]) \in 1 .. Len(ch[s])
      BY <1>2, <2>9, <3>1 DEF Laid
    <3> QED
      BY <3>2 DEF Linked
  <2>10. ASSUME NEW t \in Slots \ {s} PROVE Elems(ch[s]) \intersect Elems(ch[t]) = {}
    <3>1. Elems(o[s]) \intersect Elems(o[t]) = {}
      BY DEF ChainsOK, Owners!Apart, Elems
    <3> QED
      BY <3>1, <2>6
  <2> QED
    BY <2>3, <2>4, <2>5, <2>8, <2>9, <2>10
<1> QED
  <2>1. SoundWith(ExFat, d.fat, d.bitmap, d.entry, ch)
    BY <1>5, Zenon DEF SoundWith
  <2>2. ch = [s \in Slots |-> ChainIn(ExFat, d.fat, d.entry[s])]
    BY <1>3, Zenon DEF ChainIn, EntryChain
  <2> QED
    BY <2>1, <2>2, SoundIs, Zenon DEF SoundIn

\* So a volume with nothing to tear is.
LEMMA VolumeSound ==
    ASSUME NEW o, NEW r, IInv(o, r), ~Torn, Unstretched,
           NEW d, d.fat = fat, d.bitmap = bitmap, d.entry = entry
    PROVE  Sound(d)
<1>1. ASSUME NEW s \in Slots PROVE Laid(fat, entry[s], IF entry[s].sclust = 0 THEN <<>> ELSE o[s])
  <2>1. Settled(s) /\ call.op # "rename" /\ call.pc # "erase"
    BY DEF Torn, Settled, Unstretched, IInv, CallOK, SyncOK
  <2> QED
    BY <2>1 DEF Kept, IInv
<1>2. LaidOut(o)
  BY <1>1 DEF LaidOut
<1>3. ChainsOK(o, r) /\ fat \in [Clusters -> Link] /\ entry \in [Slots -> EntrySet]
  BY DEF IInv, Types
<1> QED
  BY <1>2, <1>3, LaidSound

\* So a step that keeps what is torn torn leaves a sound drive sound.
LEMMA SoundPrimed ==
    ASSUME NEW d, Sound(d), fs_type' = fs_type, disk'.fat = d.fat, disk'.bitmap = d.bitmap, disk'.entry = d.entry
    PROVE  Sound(disk)'
  BY SoundIs, SoundIsNext DEF ExFat

\* A step that tears no more keeps DiskSound.
LEMMA DiskStep ==
    ASSUME NEW o, NEW r, IInv(o, r), fs_type' = fs_type, DiskMoves, Torn => Torn', DiskStays \/ Unstretched \/ Torn'
    PROVE  DiskSound'
<1>1. CASE DiskStays
  <2>1. Sound(disk) => Sound(disk)'
    BY <1>1, SoundPrimed DEF DiskStays
  <2> QED
    BY <2>1 DEF DiskSound, IInv
<1>2. CASE DiskCatches /\ Unstretched
  <2>1. PICK d : d = [fat |-> fat, bitmap |-> bitmap, entry |-> entry]
    OBVIOUS
  <2>2. ~Torn => Sound(d)
    BY <1>2, <2>1, VolumeSound
  <2>3. Sound(d) => Sound(disk)'
    BY <1>2, <2>1, SoundPrimed DEF DiskCatches
  <2> QED
    BY <2>2, <2>3 DEF DiskSound
<1> QED
  BY <1>1, <1>2 DEF DiskMoves, DiskSound

(***************************************************************************)
(* One step of the program                                                 *)
(***************************************************************************)

\* How the chains may change.
Moves(o, p) ==
    \/ /\ pulls' = pulls
       /\ \/ p = o
          \/ \E s \in Slots : Owners!Cut(s, o, p) \/ Owners!Give(s, o, p)
          \/ \E s, t \in Slots : Owners!HandOn(s, t, o, p)
    \/ /\ pulls' = pulls + 1
       /\ p \in [Slots -> Seq(Clusters)] /\ Owners!Apart(p)
\* The step keeps the invariant, with chains it moves as ClusterOwners allows.
Kept1(o, r) == \E p, r2 : IInv(p, r2)' /\ Moves(o, p)
\* What the invariant asks of slot s.
SlotInv(s, q) == SlotOK(s, q) /\ Kept(s, q) /\ OnDisk(s, q)

\* What is known of the slot a call is about.
LEMMA SlotHas ==
    ASSUME NEW o, NEW r, IInv(o, r), NEW s \in Slots
    PROVE  /\ o[s] \in Seq(Clusters) /\ Alone(o[s]) /\ SlotInv(s, o[s])
           /\ obj[s] \in ObjSet /\ file[s] \in FileSet /\ entry[s] \in EntrySet
  BY ChainsAlone DEF IInv, SlotInv, Types

\* A call is about a slot.
LEMMA Caller == ASSUME NEW o, NEW r, IInv(o, r), call.pc # "idle" PROVE call.s \in Slots
  BY DEF IInv, CallOK

\* Types, variable by variable.
LEMMA TypesStep ==
    ASSUME Types, DiskMoves, fs_type' = fs_type, pulls' \in Nat,
           fat' \in [Clusters -> Link], bitmap' \in [Clusters -> BOOLEAN], entry' \in [Slots -> EntrySet],
           obj' \in [Slots -> ObjSet], file' \in [Slots -> FileSet], call' \in CallSet,
           free_clst' \in 0 .. NClusters \union {Unknown}, last_clst' \in Clusters \union {Unknown}, fsi_flag' \in BOOLEAN
    PROVE  Types'
<1>1. EntrySet' = EntrySet
  BY DEF EntrySet, ExFat
<1>2. /\ disk'.fat \in [Clusters -> Link] /\ disk'.bitmap \in [Clusters -> BOOLEAN]
      /\ disk'.entry \in [Slots -> EntrySet]
      /\ disk'.free \in 0 .. NClusters \union {Unknown} /\ disk'.last \in Clusters \union {Unknown}
  BY DiskTypes
<1>3. fs_type \in FsTypes
  BY DEF Types
<1> QED
  BY <1>1, <1>2, <1>3 DEF Types

\* All slots but s: no call is about them.
LEMMA SlotsStep ==
    ASSUME NEW o, NEW r, IInv(o, r), DiskMoves, fs_type' = fs_type, NEW s \in Slots, NEW p,
           \A t \in Slots \ {s} :
               p[t] = o[t] /\ obj'[t] = obj[t] /\ file'[t] = file[t] /\ entry'[t] = entry[t] /\ Agree(fat, fat', o[t]),
           call.pc = "idle" \/ call.s = s, call'.pc = "idle" \/ call'.s = s,
           call.pc # "erase", call'.pc # "erase", call.op # "rename", call'.op # "rename",
           SlotInv(s, p[s])'
    PROVE  \A t \in Slots : SlotInv(t, p[t])'
<1> SUFFICES ASSUME NEW t \in Slots, t # s PROVE SlotInv(t, p[t])'
  OBVIOUS
<1>1. p[t] \in Seq(Clusters) /\ SlotInv(t, p[t])
  BY SlotHas
<1>2. obj'[t] = obj[t] /\ file'[t] = file[t] /\ entry'[t] = entry[t] /\ Agree(fat, fat', p[t])
      /\ ~Active(t) /\ ~Active(t)'
  BY DEF Active
<1>3. Types
  BY DEF IInv
<1>4. SlotOK(t, p[t])' /\ Kept(t, p[t])' /\ OnDisk(t, p[t])'
  BY <1>1, <1>2, <1>3, OtherSlot DEF SlotInv
<1> QED
  BY <1>4 DEF SlotInv

\* A FAT agrees with itself.
LEMMA AgreeSame == ASSUME NEW q, NEW m PROVE Agree(m, m, q)
  BY DEF Agree

\* A step that does not touch FAT, bitmap and count, and hands no cluster about.
\* Where a call holds clusters that are in no chain.
Handing == {"link", "fill_link", "cut", "free"}

\* Then the invariant is a matter of types, slots and call.
LEMMA CalmStep ==
    ASSUME NEW o, NEW r, IInv(o, r), UNCHANGED <<fs_type, fat, bitmap, pulls, free_clst>>, DiskMoves,
           call.pc \notin Handing, call'.pc \notin Handing,
           Types', \A s \in Slots : SlotInv(s, o[s])', CallOK(o, r)',
           Torn => Torn', DiskStays \/ Unstretched \/ Torn'
    PROVE  IInv(o, r)' /\ Kept1(o, r)
<1>1. SameUse
  BY SameUseBy
<1>2. ChainsOK(o, r)'
  BY <1>1, ChainsStay DEF IInv, SameUse
<1>3. Limbo(r)' = {} /\ Limbo(r) = {} /\ Pending = 0 /\ Pending' = 0
  BY DEF Limbo, Pending, Handing
<1>4. Marks(o, r)' /\ Count'
  BY <1>1, <1>3, MarksStay, CountStays DEF IInv
<1>5. DiskSound'
  BY DiskStep
<1>6. IInv(o, r)'
  BY <1>2, <1>4, <1>5 DEF IInv, SlotInv
<1> QED
  BY <1>6 DEF Kept1, Moves

\* f_open: what the entry says is what the file holds.
LEMMA LaidHeld ==
    ASSUME NEW m, NEW e \in EntrySet, NEW q \in Seq(Clusters), Laid(m, e, q), NEW o, NEW f,
           o.sclust = e.sclust, o.objsize = e.size, o.stat = e.stat, o.n_cont = 0, o.n_frag = 0, f.fptr = 0
    PROVE  Held(m, o, f, q) /\ Plain(o)
<1>1. /\ e.sclust \in Cluster0 /\ e.size \in Nat /\ e.stat \in {0, 2}
      /\ (e.size = 0 <=> e.sclust = 0) /\ (~ExFat => e.stat = 0)
  BY DEF EntrySet
<1>3. Plain(o)
  BY <1>1 DEF Plain
<1>4. (o.sclust = 0 <=> q = <<>>) /\ (q # <<>> => q[1] = o.sclust) /\ o.objsize <= Len(q)
  BY <1>1 DEF Laid
<1>5. o.stat = 2 => q = Contig(o.sclust, BoundedMax(o.objsize, f.fptr))
  <2>1. BoundedMax(o.objsize, f.fptr) = e.size
    BY <1>1 DEF BoundedMax
  <2>2. e.sclust = 0 => q = <<>> /\ e.size = 0 /\ Contig(0, 0) = <<>>
    BY <1>1 DEF Laid, Contig
  <2> QED
    BY <2>1, <2>2 DEF Laid
<1>6. o.stat # 2 => Followed(m, o, q) /\ (q # <<>> => m[q[Len(q)]] = EOC)
  <2> SUFFICES ASSUME o.stat # 2, q # <<>> PROVE Followed(m, o, q) /\ m[q[Len(q)]] = EOC
    BY DEF Followed
  <2>1. Linked(m, q) /\ Len(q) \in 1 .. Len(q)
    BY DEF Laid
  <2>2. \A i \in 1 .. Len(q) : i <= 1 => q[i] = o.sclust + i - 1
    BY <1>1, <1>4, Nums
  <2>3. m[q[Len(q)]] = EOC
    BY <2>1 DEF Linked
  <2>4. \A i \in 1 .. Len(q) - 1 : m[q[i]] = q[i + 1]
    BY <2>1, SMTT(40) DEF Linked
  <2>5. FirstRun(o) = 0
    BY <1>1 DEF FirstRun
  <2> QED
    BY <2>2, <2>3, <2>4, <2>5 DEF Followed
<1>7. /\ f.fptr <= Len(q) /\ ~(f.fptr > 0) /\ o.n_frag <= Len(q) /\ ~(o.n_frag > 0) /\ o.stat # 3
      /\ \A i \in 1 .. Len(q) : ~(i > Len(q) - o.n_frag)
  BY <1>1
<1> QED
  BY <1>3, <1>4, <1>5, <1>6, <1>7 DEF Held

\* After the end of a call nothing is asked of one,
LEMMA IdleCall == ASSUME NEW p, call' = Idle PROVE CallOK(p, <<>>)'
<1>1. /\ call'.pc = "idle" /\ call'.ncl = 0 /\ call'.op = "none"
  BY DEF Idle
<1> QED
  BY <1>1 DEF CallOK, LinkOK, RemoveOK, SyncOK

\* and while there is none, every slot is left alone.
LEMMA IdleIs ==
    ASSUME NEW o, NEW r, IInv(o, r), call.pc = "idle"
    PROVE  /\ call = Idle /\ r = <<>> /\ call.op = "none" /\ call.ncl = 0 /\ Idle \in CallSet
           /\ call.pc \notin Handing /\ call.pc # "erase" /\ call.op # "rename"
           /\ \A s \in Slots : ~Removing(s) /\ ~(call.s = s /\ call.pc \in Next1)
                               /\ ~(call.s = s /\ call.pc = "fill_link")
<1>1. call = Idle /\ r = <<>>
  BY DEF IInv, CallOK
<1>2. call.op = "none" /\ call.ncl = 0
  BY <1>1 DEF Idle
<1> QED
  BY <1>1, <1>2 DEF Handing, Removing, Next1, IInv, Types

\* A slot of which neither entry nor chain changes stays on the drive,
LEMMA OnDiskStep ==
    ASSUME NEW s \in Slots, NEW q, OnDisk(s, q), DiskMoves, entry'[s] = entry[s], Agree(fat, fat', q),
           Quiet(s)' => Quiet(s), Quiet(s)' /\ file'[s].open => entry[s].sclust = obj'[s].sclust
    PROVE  OnDisk(s, q)'
<1> SUFFICES ASSUME Quiet(s)'
             PROVE  /\ disk'.entry[s] = entry[s]
                    /\ entry[s].stat # 2 => \A i \in 1 .. Len(q) : disk'.fat[q[i]] = fat'[q[i]]
  BY DEF OnDisk
<1>1. /\ disk.entry[s] = entry[s]
      /\ entry[s].stat # 2 => \A i \in 1 .. Len(q) : disk.fat[q[i]] = fat[q[i]]
  BY DEF OnDisk
<1> QED
  BY <1>1 DEF DiskMoves, DiskStays, DiskCatches, Agree

\* and on what FatFs sees.
LEMMA KeptStep ==
    ASSUME NEW s \in Slots, NEW q, Kept(s, q), entry'[s] = entry[s], Agree(fat, fat', q),
           Settled(s)' => Settled(s),
           ~(call.pc = "erase" /\ call.to = s)
    PROVE  Kept(s, q)'
<1> SUFFICES ASSUME Settled(s)' PROVE Laid(fat', entry[s], IF entry[s].sclust = 0 THEN <<>> ELSE q)
  BY DEF Kept
<1>1. Laid(fat, entry[s], IF entry[s].sclust = 0 THEN <<>> ELSE q)
  BY DEF Kept
<1>2. Agree(fat, fat', IF entry[s].sclust = 0 THEN <<>> ELSE q)
  BY DEF Agree
<1> QED
  BY <1>1, <1>2, LaidSame

\* Open keeps the invariant.
LEMMA StepOpen ==
    ASSUME NEW o, NEW r, IInv(o, r), LagInv, NEW s \in Slots, Open(s) PROVE Kept1(o, r)
<1>1. PICK q, e, b, f : /\ q = o[s] /\ e = entry[s] /\ b = obj'[s] /\ f = file'[s]
  OBVIOUS
<1>2. /\ call.pc = "idle" /\ call' = call /\ e.used /\ ~file[s].open
      /\ UNCHANGED <<fs_type, fat, bitmap, entry, free_clst, last_clst, fsi_flag, calls, pulls>>
      /\ Visit({}, EntrySector(s))
  BY <1>1 DEF Open, volume, counts, bounds
<1>3. /\ q \in Seq(Clusters) /\ SlotInv(s, q) /\ e \in EntrySet
      /\ call = Idle /\ r = <<>> /\ call.op = "none" /\ Idle \in CallSet
  BY <1>1, <1>2, SlotHas, IdleIs
<1>4. Types /\ DiskMoves
  BY <1>2, VisitMoves DEF IInv
<1>5. /\ obj \in [Slots -> ObjSet] /\ file \in [Slots -> FileSet]
      /\ \A t \in Slots : t # s => obj'[t] = obj[t] /\ file'[t] = file[t]
      /\ b = [NoObj EXCEPT !.sclust = e.sclust, !.objsize = e.size, !.stat = e.stat]
      /\ f = [NoFile EXCEPT !.open = TRUE]
  BY <1>1, <1>4 DEF Open, Types
<1>6. /\ b.sclust = e.sclust /\ b.objsize = e.size /\ b.stat = e.stat /\ b.n_cont = 0 /\ b.n_frag = 0
      /\ f.open /\ f.fptr = 0 /\ ~f.modified /\ ~f.cut /\ f.clust = 0
  BY <1>5 DEF NoObj, NoFile
<1>7. b \in ObjSet /\ f \in FileSet
  BY <1>3, <1>5 DEF ObjSet, FileSet, EntrySet, NoObj, NoFile, Cluster0
<1>8. obj' \in [Slots -> ObjSet] /\ file' \in [Slots -> FileSet]
  BY <1>1, <1>4, <1>7 DEF Types, Open
<1>9. Laid(fat, e, q) /\ file[s] = NoFile
  BY <1>1, <1>2, <1>3 DEF SlotInv, SlotOK
<1>10. Held(fat, b, f, q) /\ Plain(b)
  BY <1>3, <1>6, <1>9, LaidHeld
<1>11. e.size = 0 <=> e.sclust = 0
  BY <1>3 DEF EntrySet
<1>12. SlotInv(s, q)'
  <2>1. ~Removing(s)'
    BY <1>2 DEF Removing
  <2>2. OpenOK(s, q)'
    BY <1>1, <1>2, <1>3, <1>6, <1>10, <1>11, <2>1 DEF OpenOK, Plain, ExFat, EntrySet
  <2>3. SlotOK(s, q)'
    BY <1>1, <1>6, <2>2 DEF SlotOK
  <2>4. Kept(s, q)'
    <3>1. Laid(fat, e, IF e.sclust = 0 THEN <<>> ELSE q)
      BY <1>9 DEF Laid
    <3> QED
      BY <1>1, <1>2, <3>1 DEF Kept
  <2>5. Quiet(s)
    BY <1>1, <1>2, <1>3 DEF Quiet
  <2>6. OnDisk(s, q)'
    BY <1>1, <1>2, <1>3, <1>4, <1>6, <2>5, AgreeSame, OnDiskStep DEF SlotInv
  <2> QED
    BY <2>3, <2>4, <2>6 DEF SlotInv
<1>13. \A t \in Slots : SlotInv(t, o[t])'
  BY <1>1, <1>2, <1>3, <1>4, <1>5, <1>12, AgreeSame, SlotsStep
<1>14. Types'
  BY <1>2, <1>3, <1>4, <1>8, TypesStep DEF Types
<1>15. CallOK(o, r)'
  BY <1>2, <1>3, IdleCall
<1>16. Torn => Torn'
  <2>1. \A t \in Slots : file[t].cut => file'[t].cut
    BY <1>5, <1>9 DEF NoFile
  <2>2. \A t \in Slots : file[t].modified => file'[t].modified
    BY <1>5, <1>9 DEF NoFile
  <2> QED
    BY <1>2, <2>1, <2>2 DEF Torn, ExFat
<1>17. Unstretched
  BY <1>2, <1>3, SlotHas, IdleIs DEF Unstretched, SlotInv, SlotOK, OpenOK
<1> QED
  BY <1>2, <1>3, <1>4, <1>13, <1>14, <1>15, <1>16, <1>17, CalmStep DEF Handing

\* A call begins and changes nothing yet.
LEMMA BeginSlots ==
    ASSUME NEW o, NEW r, IInv(o, r), call.pc = "idle", UNCHANGED <<fs_type, volume, obj, file, disk>>,
           call'.pc \in {"fill", "first"}, call'.op # "rename"
    PROVE  \A t \in Slots : SlotInv(t, o[t])'
<1> TAKE t \in Slots
<1>1. SlotInv(t, o[t]) /\ call.op # "rename" /\ ~Removing(t) /\ ~(call.s = t /\ call.pc \in Next1)
      /\ ~(call.s = t /\ call.pc = "fill_link")
  BY SlotHas, IdleIs
<1>2. ~Removing(t)' /\ call'.pc # "erase" /\ call'.pc \notin Next1 /\ call'.pc # "fill_link"
  BY DEF Removing, Next1
<1>3. SlotOK(t, o[t])'
  <2>1. OpenOK(t, o[t]) => OpenOK(t, o[t])'
    BY <1>1, <1>2 DEF OpenOK, volume, ExFat
  <2> QED
    BY <1>1, <1>2, <2>1 DEF SlotOK, SlotInv, volume
<1>4. Kept(t, o[t])' /\ OnDisk(t, o[t])'
  BY <1>1, <1>2 DEF Kept, OnDisk, Settled, Quiet, SlotInv, volume, ExFat
<1> QED
  BY <1>3, <1>4 DEF SlotInv

\* A call, field by field.
CallRec(op, pc, s, to, clst, pclst, ncl, scl, ecl, failed) ==
    [op |-> op, pc |-> pc, s |-> s, to |-> to, clst |-> clst, pclst |-> pclst, ncl |-> ncl, scl |-> scl, ecl |-> ecl,
     failed |-> failed]
Begun(op, pc, s, to) == CallRec(op, pc, s, to, 0, 0, 0, 0, 0, FALSE)

\* A call that begins, as its fields.
LEMMA BegunIs ==
    ASSUME NEW op, NEW pc, NEW s, NEW to, NEW p, p = [Idle EXCEPT !.op = op, !.pc = pc, !.s = s, !.to = to]
    PROVE  p = Begun(op, pc, s, to)
  BY DEF Idle, Begun, CallRec

\* Or of f_close, which goes nowhere.
LEMMA BegunIsClose ==
    ASSUME NEW op, NEW pc, NEW s, NEW p, p = [Idle EXCEPT !.op = op, !.pc = pc, !.s = s]
    PROVE  p = Begun(op, pc, s, 0)
  BY DEF Idle, Begun, CallRec

\* Begin keeps the invariant.
LEMMA StepBegin ==
    ASSUME NEW o, NEW r, IInv(o, r), LagInv, call.pc = "idle", UNCHANGED <<fs_type, volume, disk, counts, obj, file, pulls>>,
           NEW s \in Slots, file[s].open, NEW op \in Ops, NEW pc \in Pcs, NEW to \in Nat,
           call' = Begun(op, pc, s, to),
           \/ op \in {"seek", "truncate"} /\ pc = "fill" /\ (op = "truncate" => to < obj[s].objsize)
           \/ op = "close" /\ pc = "first" /\ file[s].modified
    PROVE  Kept1(o, r)
<1>1. call = Idle /\ r = <<>> /\ call.op = "none" /\ Idle \in CallSet /\ Types /\ obj[s] \in ObjSet /\ file[s] \in FileSet
  BY IdleIs, SlotHas DEF IInv
<1>2. call'.op = op /\ call'.pc = pc /\ call'.s = s /\ call'.to = to /\ call'.ncl = 0 /\ call'.failed = FALSE
      /\ call'.clst = 0 /\ call'.pclst = 0 /\ call'.scl = 0 /\ call'.ecl = 0
  BY DEF Begun, CallRec
<1>3. call' \in CallSet
  BY <1>1 DEF CallSet, Begun, CallRec, Cluster0
<1>4. \A t \in Slots : SlotInv(t, o[t])'
  BY <1>2, BeginSlots
<1>5. DiskMoves /\ DiskStays
  BY <1>1, StaysMoves DEF DiskStays
<1>6. Types'
  BY <1>1, <1>3, <1>5, TypesStep DEF Types, volume, counts
<1>7. CallOK(o, r)'
  <2>1. SeekOK(o[s])'
    BY <1>1, <1>2 DEF SeekOK, Seeking, Next1, O, F
  <2>2. LinkOK(o)' /\ RemoveOK(o, r)'
    BY <1>2 DEF LinkOK, RemoveOK
  <2>3. SyncOK'
    <3>1. call'.pc \notin {"sync", "erase"} /\ call'.op # "rename" /\ ~(call'.ncl > 0) /\ 0 .. call'.ncl - 1 = {}
      BY <1>2
    <3>2. call'.pc = "first" => call'.op \in {"create", "close"} /\ F'.open /\ F'.modified
      BY <1>2 DEF F
    <3> QED
      BY <3>1, <3>2 DEF SyncOK
  <2> QED
    BY <1>1, <1>2, <2>1, <2>2, <2>3 DEF CallOK
<1>8. Torn => Torn'
  BY <1>1 DEF Torn, ExFat
<1> QED
  BY <1>1, <1>2, <1>4, <1>5, <1>6, <1>7, <1>8, CalmStep DEF volume, counts, Handing

\* Seek keeps the invariant.
LEMMA StepSeek ==
    ASSUME NEW o, NEW r, IInv(o, r), LagInv, NEW s \in Slots, NEW n \in Sizes, Seek(s, n) \/ SetSize(s, n)
    PROVE  Kept1(o, r)
<1>1. n \in Nat /\ "seek" \in Ops /\ "truncate" \in Ops /\ "fill" \in Pcs
  BY AllocAssumption DEF Ops, Pcs
<1>2. CASE Seek(s, n)
  <2>1. call.pc = "idle" /\ UNCHANGED <<fs_type, volume, disk, counts, obj, file, pulls>> /\ file[s].open
        /\ call' = Begun("seek", "fill", s, n)
    <3>1. call' = [Idle EXCEPT !.op = "seek", !.pc = "fill", !.s = s, !.to = n]
      BY <1>2, Zenon DEF Seek, Begin
    <3>2. call' = Begun("seek", "fill", s, n)
      BY <3>1, BegunIs, Zenon
    <3> QED
      BY <1>2, <3>2 DEF Seek, Begin
  <2> QED
    BY <1>1, <2>1, StepBegin
<1>3. CASE SetSize(s, n)
  <2>1. call.pc = "idle" /\ UNCHANGED <<fs_type, volume, disk, counts, obj, file, pulls>> /\ file[s].open
        /\ call' = Begun("truncate", "fill", s, n) /\ n < obj[s].objsize
    <3>1. call' = [Idle EXCEPT !.op = "truncate", !.pc = "fill", !.s = s, !.to = n]
      BY <1>3, Zenon DEF SetSize, Begin
    <3>2. call' = Begun("truncate", "fill", s, n)
      BY <3>1, BegunIs, Zenon
    <3> QED
      BY <1>3, <3>2 DEF SetSize, Begin
  <2> QED
    BY <1>1, <2>1, StepBegin
<1> QED
  BY <1>2, <1>3

\* Close keeps the invariant.
LEMMA StepClose ==
    ASSUME NEW o, NEW r, IInv(o, r), LagInv, NEW s \in Slots, Close(s) PROVE Kept1(o, r)
<1>1. /\ call.pc = "idle" /\ file[s].open /\ UNCHANGED <<fs_type, volume, win, disk, counts, obj, pulls>>
  BY DEF Close, bounds
<1>2. CASE file[s].modified
  <2>1. UNCHANGED file /\ call' = [Idle EXCEPT !.op = "close", !.pc = "first", !.s = s]
    BY <1>2 DEF Close
  <2>2. call' = Begun("close", "first", s, 0)
    BY <2>1, BegunIsClose, Zenon
  <2>3. "close" \in Ops /\ "first" \in Pcs /\ 0 \in Nat
    BY DEF Ops, Pcs
  <2> QED
    BY <1>1, <1>2, <2>1, <2>2, <2>3, StepBegin
<1>3. CASE ~file[s].modified
  <2>1. PICK q, f, b, e : q = o[s] /\ f = file[s] /\ b = obj[s] /\ e = entry[s]
    OBVIOUS
  <2>2. /\ q \in Seq(Clusters) /\ SlotInv(s, q) /\ e \in EntrySet /\ b \in ObjSet /\ f \in FileSet
        /\ call = Idle /\ r = <<>> /\ call.op = "none" /\ Idle \in CallSet /\ Types
        /\ ~Removing(s) /\ ~(call.s = s /\ call.pc \in Next1)
    BY <2>1, <1>1, SlotHas, IdleIs DEF IInv
  <2>3. call' = call /\ file' = [file EXCEPT ![s] = NoFile]
    BY <1>3 DEF Close
  <2>4. file'[s] = NoFile /\ \A t \in Slots : t # s => file'[t] = file[t]
    BY <2>2, <2>3 DEF Types
  <2>5. NoFile \in FileSet /\ ~NoFile.open
    BY DEF FileSet, NoFile, Cluster0
  <2>6. file' \in [Slots -> FileSet]
    BY <2>2, <2>3, <2>5 DEF Types
  <2>7. OpenOK(s, q) /\ f.open /\ ~f.modified /\ ~f.cut /\ f.fptr <= b.objsize /\ Held(fat, b, f, q) /\ e.used
    BY <1>1, <1>3, <2>1, <2>2 DEF SlotInv, SlotOK, OpenOK
  <2>8. Quiet(s) /\ Settled(s)
    BY <2>1, <2>2, <2>7 DEF Quiet, Settled
  <2>9. e.sclust = b.sclust
    BY <1>1, <2>1, <2>2, <2>8 DEF SlotInv, OnDisk
  <2>10. Laid(fat, e, IF e.sclust = 0 THEN <<>> ELSE q)
    BY <1>1, <2>1, <2>2, <2>8 DEF SlotInv, Kept
  <2>11. Laid(fat, e, q)
    BY <2>7, <2>9, <2>10 DEF Held
  <2>12. DiskMoves /\ DiskStays
    BY <1>1, <2>2, StaysMoves DEF DiskStays
  <2>13. SlotInv(s, q)'
    <3>1. SlotOK(s, q)'
      BY <1>1, <2>1, <2>3, <2>4, <2>5, <2>11 DEF SlotOK, volume
    <3>2. Kept(s, q)'
      BY <1>1, <2>1, <2>10 DEF Kept, volume
    <3>3. OnDisk(s, q)'
      BY <1>1, <2>1, <2>2, <2>4, <2>5, <2>8, <2>12, OnDiskStep, AgreeSame DEF volume, SlotInv
    <3> QED
      BY <3>1, <3>2, <3>3 DEF SlotInv
  <2>14. \A t \in Slots : SlotInv(t, o[t])'
    BY <1>1, <2>1, <2>2, <2>3, <2>4, <2>12, <2>13, SlotsStep, AgreeSame DEF volume
  <2>15. Types'
    BY <1>1, <2>2, <2>3, <2>6, <2>12, TypesStep DEF Types, volume, counts
  <2>16. CallOK(o, r)'
    BY <2>2, <2>3, IdleCall
  <2>17. Torn => Torn'
    BY <1>1, <2>1, <2>3, <2>4, <2>7 DEF Torn, ExFat
  <2> QED
    BY <1>1, <2>2, <2>3, <2>12, <2>14, <2>15, <2>16, <2>17, CalmStep DEF Handing, volume, counts
<1> QED
  BY <1>2, <1>3

\* The count is made from the marks.
LEMMA FreeTyped == NFree \in 0 .. NClusters
<1>1. IsFiniteSet(Clusters) /\ Cardinality(Clusters) = NClusters /\ NClusters \in Nat
  BY Nums, FS_Interval
<1>2. {c \in Clusters : ~InUse(c)} \in SUBSET Clusters
  OBVIOUS
<1>3. IsFiniteSet({c \in Clusters : ~InUse(c)}) /\ Cardinality({c \in Clusters : ~InUse(c)}) <= NClusters
  BY <1>1, <1>2, FS_Subset
<1>4. Cardinality({c \in Clusters : ~InUse(c)}) \in Nat
  BY <1>3, FS_CardinalityType
<1> QED
  BY <1>1, <1>3, <1>4 DEF NFree

\* GetFree keeps the invariant.
LEMMA StepGetFree ==
    ASSUME NEW o, NEW r, IInv(o, r), LagInv, GetFree PROVE Kept1(o, r)
<1>1. /\ call.pc = "idle" /\ call' = call /\ UNCHANGED <<fs_type, fat, bitmap, entry, last_clst, obj, file, pulls>>
      /\ free_clst' = NFree /\ fsi_flag' = TRUE
      /\ \E R, sect : Visit(R, sect)
  BY DEF GetFree, volume, bounds
<1>2. Types /\ DiskMoves /\ call = Idle /\ r = <<>> /\ call.op = "none" /\ Idle \in CallSet
  BY <1>1, VisitMoves, IdleIs DEF IInv
<1>3. \A t \in Slots : SlotInv(t, o[t])'
  <2> TAKE t \in Slots
  <2>1. ~Active(t) /\ ~Active(t)' /\ SlotInv(t, o[t]) /\ o[t] \in Seq(Clusters)
    BY <1>1, SlotHas DEF Active
  <2>2. SlotOK(t, o[t])' /\ Kept(t, o[t])' /\ OnDisk(t, o[t])'
    BY <1>1, <1>2, <2>1, OtherSlot, AgreeSame DEF SlotInv
  <2> QED
    BY <2>2 DEF SlotInv
<1>4. Types'
  BY <1>1, <1>2, TypesStep, FreeTyped DEF Types
<1>5. CallOK(o, r)'
  BY <1>1, <1>2, IdleCall
<1>6. SameUse
  BY <1>1, SameUseBy
<1>7. ChainsOK(o, r)'
  BY <1>6, ChainsStay DEF SameUse, IInv
<1>8. Limbo(r) = {} /\ Pending' = 0
  BY <1>1 DEF Limbo, Pending
<1>9. Marks(o, r)'
  BY <1>1, <1>6, <1>8, MarksStay DEF IInv
<1>10. Count'
  <2>1. NFree' = NFree
    BY <1>6, FreeStays
  <2> QED
    BY <1>1, <1>8, <2>1, FreeTyped DEF Count
<1>11. Unstretched
  BY <1>1, <1>2, SlotHas, IdleIs DEF Unstretched, SlotInv, SlotOK, OpenOK
<1>12. Torn => Torn'
  BY <1>1 DEF Torn, ExFat
<1>13. DiskSound'
  BY <1>1, <1>2, <1>11, <1>12, DiskStep
<1>14. IInv(o, r)'
  BY <1>3, <1>4, <1>5, <1>7, <1>9, <1>10, <1>13 DEF IInv, SlotInv
<1> QED
  BY <1>1, <1>14 DEF Kept1, Moves

(***************************************************************************)
(* What get_fat returns                                                    *)
(***************************************************************************)

\* get_fat by the status of the FFOBJID.
LEMMA GetIs ==
    ASSUME NEW b, NEW c \in Clusters, Types
    PROVE  /\ ~ExFat => GetFat(b, c) = fat[c]
           /\ ExFat /\ b.stat = 2 /\ b.objsize # 0 /\ b.sclust # 0 /\ c - b.sclust \in 0 .. b.objsize - 1 =>
                GetFat(b, c) = IF c - b.sclust = b.objsize - 1 THEN EOC ELSE c + 1
           /\ ExFat /\ b.stat = 3 /\ b.objsize # 0 /\ b.sclust # 0 =>
                GetFat(b, c) = IF c - b.sclust \in 0 .. b.n_cont - 1 THEN c + 1 ELSE IF b.n_frag # 0 THEN EOC ELSE fat[c]
           /\ ExFat /\ b.stat = 0 => GetFat(b, c) = IF b.n_frag # 0 THEN EOC ELSE fat[c]
<1>1. CASE ~ExFat
  BY <1>1 DEF GetFat
<1>2. CASE ExFat /\ b.stat = 2
  BY <1>2 DEF GetFat
<1>3. CASE ExFat /\ b.stat = 3
  BY <1>3 DEF GetFat
<1>4. CASE ExFat /\ b.stat = 0
  BY <1>4 DEF GetFat
<1> QED
  BY <1>1, <1>2, <1>3, <1>4

\* get_fat of a cluster whose FAT entry stays.
LEMMA GetSame ==
    ASSUME NEW b, NEW c \in Clusters, fs_type' = fs_type, fat'[c] = fat[c] PROVE GetFat(b, c)' = GetFat(b, c)
  BY DEF GetFat, ExFat

\* It leads through what a file holds, as far as get_fat knows the size.
LEMMA HeldGet ==
    ASSUME Types, NEW b \in ObjSet, NEW f \in FileSet, NEW q \in Seq(Clusters), Alone(q), Held(fat, b, f, q), Plain(b),
           b.stat = 2 => f.fptr <= b.objsize, b.stat = 3 => b.objsize > 0,
           NEW i \in 1 .. Len(q), b.n_frag > 0 => i = Len(q)
    PROVE  GetFat(b, q[i]) = IF i < Len(q) THEN q[i + 1] ELSE EOC
<1>1. q[i] \in Clusters /\ q # <<>> /\ b.stat \in {0, 2, 3} /\ b.n_cont \in Nat /\ b.n_frag \in Nat /\ b.objsize \in Nat
      /\ b.sclust \in Clusters /\ f.fptr \in Nat
  BY DEF ObjSet, FileSet, Held, Cluster0
<1>2. b.sclust # 0 /\ b.sclust \in Nat /\ q[i] \in Nat
  BY <1>1, Nums
<1>3. Len(q) \in 1 .. Len(q) /\ Len(q) \in Nat
  OBVIOUS
<1>4. CASE b.stat = 2
  <2>1. q = Contig(b.sclust, b.objsize) /\ ExFat
    BY <1>1, <1>4 DEF Held, Plain, BoundedMax
  <2>2. Len(q) = b.objsize /\ \A k \in 1 .. b.objsize : q[k] = b.sclust + k - 1
    BY <1>1, <1>2, <2>1, ContigSeq, ZenonT(40)
  <2>3. q[i] = b.sclust + i - 1 /\ (i < Len(q) => q[i + 1] = b.sclust + i)
    BY <1>3, <2>2
  <2>4. b.objsize # 0 /\ q[i] - b.sclust \in 0 .. b.objsize - 1
    BY <1>1, <1>2, <2>2, <2>3, SMTT(40)
  <2>5. GetFat(b, q[i]) = IF q[i] - b.sclust = b.objsize - 1 THEN EOC ELSE q[i] + 1
    BY <1>1, <1>2, <1>4, <2>1, <2>4, GetIs
  <2> QED
    BY <1>1, <1>2, <2>2, <2>3, <2>5
<1>5. CASE b.stat # 2
  <2>1. /\ Followed(fat, b, q)
        /\ b.n_frag = 0 => fat[q[Len(q)]] = EOC
        /\ b.stat = 3 => b.n_cont < Len(q)
    BY <1>1, <1>5 DEF Held
  <2>2. CASE b.stat = 3 /\ i <= b.n_cont
    <3>1. q[i] >= b.sclust /\ q[i] - b.sclust < b.n_cont
      BY <2>1, <2>2, InRun
    <3>2. ExFat /\ GetFat(b, q[i]) = q[i] + 1
      BY <1>1, <1>2, <2>2, <3>1, GetIs, SMTT(40) DEF Plain
    <3>3. q[i] = b.sclust + i - 1 /\ q[i + 1] = b.sclust + i /\ i < Len(q)
      BY <1>1, <2>1, <2>2 DEF Followed, FirstRun
    <3> QED
      BY <1>2, <3>2, <3>3
  <2>3. CASE ~(b.stat = 3 /\ i <= b.n_cont)
    <3>1. b.stat = 3 => ~(q[i] - b.sclust \in 0 .. b.n_cont - 1)
      <4>1. b.stat = 3 => ~(q[i] >= b.sclust /\ q[i] - b.sclust < b.n_cont)
        BY <2>1, <2>3, InRun
      <4> QED
        BY <1>1, <1>2, <4>1
    <3>2. GetFat(b, q[i]) = IF b.n_frag # 0 THEN EOC ELSE fat[q[i]]
      BY <1>1, <1>2, <1>5, <3>1, GetIs, SMTT(40) DEF Plain
    <3>3. b.n_frag = 0 /\ i < Len(q) => fat[q[i]] = q[i + 1]
      BY <1>1, <1>3, <2>1, <2>3 DEF Followed, FirstRun
    <3> QED
      BY <1>1, <1>3, <2>1, <3>2, <3>3
  <2> QED
    BY <2>2, <2>3
<1> QED
  BY <1>4, <1>5

(***************************************************************************)
(* Steps of a call                                                         *)
(***************************************************************************)

\* What is known of the slot of a call.
LEMMA CallHas ==
    ASSUME NEW o, NEW r, IInv(o, r), call.pc # "idle", NEW s, s = call.s
    PROVE  /\ s \in Slots /\ o[s] \in Seq(Clusters) /\ Alone(o[s]) /\ SlotInv(s, o[s])
           /\ obj[s] \in ObjSet /\ file[s] \in FileSet /\ entry[s] \in EntrySet
           /\ obj \in [Slots -> ObjSet] /\ file \in [Slots -> FileSet]
           /\ O = obj[s] /\ F = file[s]
           /\ Types /\ call \in CallSet
           /\ SeekOK(o[s]) /\ LinkOK(o) /\ RemoveOK(o, r) /\ SyncOK
           /\ call.pc \notin {"cut", "free"} => r = <<>>
           /\ call.pc \notin {"link", "fill_link", "first"} => call.ncl = 0
           /\ call.op = "rename" => call.pc \in {"erase", "sync"}
           /\ call.pc = "erase" => call.op = "rename"
<1>1. s \in Slots
  BY DEF IInv, CallOK
<1>2. Types /\ CallOK(o, r)
  BY DEF IInv
<1> QED
  BY <1>1, <1>2, SlotHas DEF CallOK, SyncOK, O, F, Types

\* What is known of the file of a call before it writes its entry.
LEMMA OpenHas ==
    ASSUME NEW o, NEW r, IInv(o, r), call.pc \in Seeking \union {"first"}, NEW s, s = call.s
    PROVE  /\ file[s].open /\ ~Removing(s) /\ entry[s].used /\ Plain(obj[s])
           /\ Held(fat, obj[s], file[s], o[s])
           /\ obj[s].sclust # 0 => obj[s].objsize > 0 \/ file[s].fptr > 0
           /\ file[s].fptr <= obj[s].objsize \/ call.pc \in Next1
           /\ file[s].cut => file[s].modified
           /\ obj[s].n_frag > 0 => file[s].modified \/ file[s].fptr > obj[s].objsize \/ (call.pc = "fill_link" /\ obj[s].n_frag = 1)
           /\ ~ExFat => obj[s].stat = 0 /\ obj[s].n_frag = 0
           /\ call.op # "rename" /\ call.pc # "erase" /\ r = <<>>
<1>1. call.pc # "idle" /\ call.pc \notin {"cut", "free", "freed", "erase", "sync"}
  BY DEF Seeking, Next1
<1>2. /\ s \in Slots /\ SlotInv(s, o[s]) /\ F = file[s] /\ SeekOK(o[s]) /\ SyncOK /\ r = <<>> /\ call.op # "rename"
  BY <1>1, CallHas
<1>3. file[s].open
  BY <1>2 DEF SeekOK, SyncOK
<1>4. ~Removing(s) /\ OpenOK(s, o[s])
  BY <1>1, <1>2, <1>3 DEF Removing, SlotInv, SlotOK
<1> QED
  BY <1>1, <1>2, <1>3, <1>4 DEF OpenOK, Plain

\* The slot of the call, open after the step.
LEMMA OpenSlot ==
    ASSUME NEW s, NEW q, NEW b, NEW f, obj'[s] = b, file'[s] = f, fs_type' = fs_type,
           f.open, entry'[s].used, Plain(b), ~Removing(s)', Held(fat', b, f, q),
           b.sclust # 0 => b.objsize > 0 \/ f.fptr > 0,
           f.fptr <= b.objsize \/ (call'.s = s /\ call'.pc \in Next1),
           f.cut => f.modified,
           b.n_frag > 0 => f.modified \/ f.fptr > b.objsize \/ (call'.s = s /\ call'.pc = "fill_link" /\ b.n_frag = 1)
    PROVE  SlotOK(s, q)'
<1>1. ~ExFat' => b.stat = 0 /\ b.n_frag = 0
  BY DEF Plain, ExFat
<1>2. OpenOK(s, q)'
  BY <1>1 DEF OpenOK
<1> QED
  BY <1>2 DEF SlotOK

\* A step of the call that does not touch FAT, bitmap and count, and hands no cluster about.
LEMMA CalmOwn ==
    ASSUME NEW o, NEW r, IInv(o, r), call.pc # "idle", call.op # "rename", call'.op # "rename", call'.pc # "erase",
           NEW s, s = call.s, call' \in CallSet, call'.pc = "idle" \/ call'.s = s,
           UNCHANGED <<fs_type, fat, bitmap, entry, free_clst, last_clst, fsi_flag, pulls>>, DiskMoves,
           NEW b \in ObjSet, obj' = [obj EXCEPT ![s] = b], NEW f \in FileSet, file' = [file EXCEPT ![s] = f],
           call.pc \notin Handing, call'.pc \notin Handing,
           SlotInv(s, o[s])', CallOK(o, r)', Torn => Torn', DiskStays \/ Unstretched \/ Torn'
    PROVE  Kept1(o, r)
<1>1. /\ s \in Slots /\ obj \in [Slots -> ObjSet] /\ file \in [Slots -> FileSet] /\ Types /\ call.pc # "erase"
  BY CallHas
<1>2. obj' \in [Slots -> ObjSet] /\ file' \in [Slots -> FileSet] /\ \A t \in Slots : t # s => obj'[t] = obj[t] /\ file'[t] = file[t]
  BY <1>1
<1>3. \A t \in Slots : SlotInv(t, o[t])'
  BY <1>1, <1>2, SlotsStep, AgreeSame
<1>4. Types'
  BY <1>1, <1>2, TypesStep DEF Types
<1> QED
  BY <1>3, <1>4, CalmStep

\* What a step of the call does not tear.
LEMMA TornStep ==
    ASSUME NEW s \in Slots, fs_type' = fs_type, call.op # "rename",
           NEW f, file \in [Slots -> FileSet], file' = [file EXCEPT ![s] = f],
           file[s].cut => f.cut, file[s].modified => f.modified
    PROVE  Torn => Torn'
<1>1. file'[s] = f /\ \A t \in Slots : t # s => file'[t] = file[t]
  OBVIOUS
<1>2. \A t \in Slots : (file[t].cut => file'[t].cut) /\ (file[t].modified => file'[t].modified)
  BY <1>1
<1> QED
  BY <1>2 DEF Torn, ExFat

\* A call goes on, with another place, position or both.
LEMMA CallGoes ==
    ASSUME call \in CallSet, NEW pc \in Pcs, call' = [call EXCEPT !.pc = pc]
    PROVE  /\ call' \in CallSet /\ call'.pc = pc /\ call'.op = call.op /\ call'.s = call.s /\ call'.to = call.to
           /\ call'.clst = call.clst /\ call'.pclst = call.pclst /\ call'.ncl = call.ncl
           /\ call'.scl = call.scl /\ call'.ecl = call.ecl /\ call'.failed = FALSE
  BY DEF CallSet

\* A call that waits.
LEMMA SameCall ==
    ASSUME call \in CallSet, UNCHANGED call
    PROVE  call' \in CallSet /\ call'.failed = FALSE
  BY DEF CallSet

\* What CallOK asks of a call that seeks.
LEMMA SeekCallOK ==
    ASSUME NEW p, NEW s \in Slots, call'.s = s, call'.pc \in Seeking \ {"link", "fill_link"}, call'.ncl = 0, SeekOK(p[s])'
    PROVE  CallOK(p, <<>>)'
<1>1. call'.pc \notin {"idle", "link", "fill_link", "cut", "free", "freed", "first", "sync", "erase"}
  BY DEF Seeking, Next1
<1>2. call'.op # "rename"
  BY DEF SeekOK
<1> QED
  BY <1>1, <1>2 DEF CallOK, LinkOK, RemoveOK, SyncOK

\* All files but the call's are within their sizes.
LEMMA OthersUnstretched ==
    ASSUME NEW o, NEW r, IInv(o, r),
           call.pc \in Next1 => (ExFat => file[call.s].fptr <= obj[call.s].objsize)
    PROVE  Unstretched
<1> SUFFICES ASSUME NEW t \in Slots, file[t].open, ExFat PROVE file[t].fptr <= obj[t].objsize
  BY DEF Unstretched
<1>1. SlotInv(t, o[t]) /\ obj[t] \in ObjSet /\ file[t] \in FileSet
  BY SlotHas
<1>2. OpenOK(t, o[t])
  BY <1>1 DEF SlotInv, SlotOK
<1>3. CASE Removing(t)
  <2>1. file[t].fptr = Len(o[t]) /\ Len(o[t]) < obj[t].objsize
    BY <1>2, <1>3 DEF OpenOK, Shrinking
  <2> QED
    BY <1>1, <2>1 DEF ObjSet, FileSet
<1>4. CASE ~Removing(t)
  BY <1>2, <1>4 DEF OpenOK
<1> QED
  BY <1>3, <1>4

\* SeekStart keeps the invariant.
LEMMA StepSeekStart ==
    ASSUME NEW o, NEW r, IInv(o, r), LagInv, SeekStart PROVE Kept1(o, r)
<1>1. PICK s, q, b, f, from : /\ s = call.s /\ q = o[s] /\ b = obj[s] /\ f = file[s] /\ from = StartAt(call.to)
  OBVIOUS
<1>2. /\ call.pc = "fill" /\ ~(ExFat /\ O.n_frag > 0)
      /\ UNCHANGED <<fs_type, fat, bitmap, entry, win, disk, free_clst, last_clst, fsi_flag, obj, pulls>>
      /\ call.pc # "idle" /\ call.pc \in Seeking \union {"first"} /\ call.pc \notin Next1 /\ call.pc \notin Handing
  BY DEF SeekStart, volume, counts, bounds, Seeking, Next1, Handing
<1>3. /\ s \in Slots /\ q \in Seq(Clusters) /\ SlotInv(s, q) /\ b \in ObjSet /\ f \in FileSet /\ Types /\ call \in CallSet
      /\ O = b /\ F = f /\ SeekOK(q) /\ call.ncl = 0 /\ obj \in [Slots -> ObjSet] /\ file \in [Slots -> FileSet]
  BY <1>1, <1>2, CallHas
<1>4. /\ f.open /\ entry[s].used /\ Plain(b) /\ Held(fat, b, f, q) /\ r = <<>> /\ call.op # "rename"
      /\ b.sclust # 0 => b.objsize > 0 \/ f.fptr > 0
      /\ f.fptr <= b.objsize
      /\ f.cut => f.modified
  BY <1>1, <1>2, OpenHas
<1>5. /\ b.n_frag = 0 /\ b.objsize \in Nat /\ f.fptr \in Nat /\ b.sclust \in Cluster0 /\ b.stat \in {0, 2, 3} /\ f.clust \in Cluster0
      /\ b.n_cont \in Nat /\ Len(q) \in Nat /\ (b.sclust # 0 => b.objsize > 0)
  BY <1>2, <1>3, <1>4 DEF ObjSet, FileSet, Plain
<1>6. call.to \in Nat /\ call.op \in {"seek", "create", "truncate"} /\ (call.op = "create" => f.modified)
      /\ (call.op = "truncate" => call.to < b.objsize)
  BY <1>2, <1>3 DEF SeekOK, Seeking
<1>7. /\ from \in 0 .. b.objsize /\ (from = 0 <=> b.sclust = 0) /\ (call.to > 0 => from <= call.to)
      /\ from # 0 /\ from # 1 => from = f.fptr
  BY <1>1, <1>3, <1>4, <1>5, <1>6 DEF StartAt, Held
<1>8. PICK n, c, pc : /\ n = IF call.to = 0 THEN 0 ELSE from
                      /\ c = IF call.to = 0 THEN f.clust ELSE IF from = 0 THEN 0 ELSE IF from = 1 THEN b.sclust ELSE f.clust
                      /\ pc = IF call.to = 0 THEN "seeked" ELSE IF from = 0 THEN "take" ELSE "follow"
  OBVIOUS
<1>9. /\ file' = [file EXCEPT ![s] = [f EXCEPT !.fptr = n, !.clust = c]] /\ call' = [call EXCEPT !.pc = pc]
  <2>1. CASE call.to = 0
    <3>1. file' = [file EXCEPT ![s] = [f EXCEPT !.fptr = 0]] /\ call' = [call EXCEPT !.pc = "seeked"]
      BY <1>1, <1>3, <2>1 DEF SeekStart, SetFile, Goto
    <3>2. PICK g : g = [f EXCEPT !.fptr = 0]
      OBVIOUS
    <3>3. g = [f EXCEPT !.fptr = n, !.clust = c]
      BY <1>3, <1>8, <2>1, <3>2 DEF FileSet
    <3> QED
      BY <1>8, <2>1, <3>1, <3>2, <3>3
  <2>2. CASE call.to # 0
    BY <1>1, <1>3, <1>8, <2>2 DEF SeekStart, SetFile, Goto
  <2> QED
    BY <2>1, <2>2
<1>10. n \in 0 .. b.objsize /\ n <= call.to /\ c \in Cluster0 /\ pc \in {"seeked", "take", "follow"} /\ pc \in Pcs
       /\ (n > 0 => c = q[n])
  <2>1. n \in 0 .. b.objsize /\ n <= call.to /\ c \in Cluster0 /\ pc \in {"seeked", "take", "follow"}
    BY <1>5, <1>6, <1>7, <1>8 DEF Cluster0
  <2>2. pc \in Pcs
    BY <1>8 DEF Pcs, Next1
  <2>3. n > 0 => c = q[n]
    BY <1>4, <1>5, <1>6, <1>7, <1>8 DEF Held
  <2> QED
    BY <2>1, <2>2, <2>3
<1>11. PICK g : g = [f EXCEPT !.fptr = n, !.clust = c]
  OBVIOUS
<1>12. /\ g \in FileSet /\ g.open /\ g.fptr = n /\ g.clust = c /\ g.modified = f.modified /\ g.cut = f.cut
  <2>1. n \in Nat /\ c \in Cluster0
    BY <1>5, <1>10
  <2> QED
    BY <1>3, <1>4, <1>11, <2>1 DEF FileSet
<1>13. file'[s] = g /\ obj'[s] = b
  BY <1>1, <1>2, <1>3, <1>9, <1>11
<1>14. /\ call' \in CallSet /\ call'.pc = pc /\ call'.op = call.op /\ call'.s = s /\ call'.to = call.to /\ call'.ncl = 0
  BY <1>1, <1>3, <1>9, <1>10, CallGoes
<1>15. Held(fat, b, g, q)
  <2>1. BoundedMax(b.objsize, g.fptr) = b.objsize /\ BoundedMax(b.objsize, f.fptr) = b.objsize
    BY <1>4, <1>5, <1>10, <1>12 DEF BoundedMax
  <2>2. g.fptr <= Len(q) /\ (g.fptr > 0 => g.clust = q[g.fptr])
    BY <1>4, <1>5, <1>10, <1>12 DEF Held
  <2> QED
    BY <1>4, <1>5, <2>1, <2>2 DEF Held
<1>16. SlotOK(s, q)'
  <2>1. ~Removing(s)'
    BY <1>10, <1>14 DEF Removing
  <2>2. g.fptr <= b.objsize /\ (b.sclust # 0 => b.objsize > 0) /\ ~(b.n_frag > 0)
    BY <1>5, <1>10, <1>12
  <2>3. entry'[s].used /\ fat' = fat /\ fs_type' = fs_type
    BY <1>2, <1>4
  <2> QED
    BY <1>4, <1>12, <1>13, <1>15, <2>1, <2>2, <2>3, OpenSlot
<1>17. DiskMoves /\ DiskStays
  BY <1>2, <1>3, StaysMoves DEF DiskStays
<1>18. SlotInv(s, q)'
  <2>1. Kept(s, q)'
    <3>1. Settled(s)' => Settled(s)
      BY <1>1, <1>2, <1>4, <1>12, <1>13 DEF Settled, ExFat
    <3> QED
      BY <1>2, <1>3, <3>1, KeptStep, AgreeSame DEF SlotInv
  <2>2. OnDisk(s, q)'
    <3>1. Quiet(s)' => Quiet(s)
      BY <1>1, <1>2, <1>4, <1>12, <1>13, <1>14 DEF Quiet
    <3>2. Quiet(s) /\ file[s].open => entry[s].sclust = b.sclust
      BY <1>1, <1>3 DEF SlotInv, OnDisk
    <3> QED
      BY <1>1, <1>2, <1>3, <1>4, <1>13, <1>17, <3>1, <3>2, OnDiskStep, AgreeSame DEF SlotInv
  <2> QED
    BY <1>16, <2>1, <2>2 DEF SlotInv
<1>19. SeekOK(q)'
  <2>1. F' = g /\ O' = b
    BY <1>1, <1>13, <1>14 DEF F, O
  <2>2. pc = "follow" => n > 0 /\ n <= call.to
    BY <1>5, <1>7, <1>8, <1>10
  <2>3. pc = "take" => n = 0 /\ q = <<>> /\ c = 0 /\ n < call.to /\ call.op # "truncate"
    BY <1>4, <1>5, <1>6, <1>7, <1>8 DEF Held
  <2>4. pc = "seeked" => n = 0 /\ call.to = 0
    BY <1>7, <1>8
  <2>5. q = <<>> => Len(q) = 0
    OBVIOUS
  <2> QED
    BY <1>4, <1>5, <1>6, <1>10, <1>12, <1>14, <2>1, <2>2, <2>3, <2>4, <2>5 DEF SeekOK, Seeking
<1>20. CallOK(o, r)'
  <2>1. call'.pc \in Seeking \ {"link", "fill_link"}
    BY <1>10, <1>14 DEF Seeking, Next1
  <2> QED
    BY <1>1, <1>3, <1>4, <1>14, <1>19, <2>1, SeekCallOK
<1>21. Torn => Torn'
  BY <1>1, <1>2, <1>3, <1>4, <1>9, <1>11, <1>12, TornStep
<1>22. obj' = [obj EXCEPT ![s] = b] /\ file' = [file EXCEPT ![s] = g]
  BY <1>1, <1>2, <1>3, <1>9, <1>11
<1>23. call'.pc \notin Handing /\ call'.pc # "erase" /\ call'.op # "rename"
  BY <1>4, <1>10, <1>14 DEF Handing
<1> QED
  BY <1>1, <1>2, <1>3, <1>4, <1>12, <1>14, <1>17, <1>18, <1>20, <1>21, <1>22, <1>23, CalmOwn

\* The file pointer moves, and the size with it.
LEMMA HeldMove ==
    ASSUME NEW m, NEW b \in ObjSet, NEW f \in FileSet, NEW q \in Seq(Clusters), Held(m, b, f, q),
           NEW b2 \in ObjSet, NEW f2 \in FileSet,
           b2.sclust = b.sclust, b2.stat = b.stat, b2.n_cont = b.n_cont, b2.n_frag = b.n_frag, b2.objsize <= Len(q),
           f2.fptr <= Len(q), f2.fptr > 0 => f2.clust = q[f2.fptr],
           b.n_frag > 0 => f2.fptr = Len(q),
           b.stat = 2 => BoundedMax(b2.objsize, f2.fptr) = BoundedMax(b.objsize, f.fptr)
    PROVE  Held(m, b2, f2, q)
<1>1. Followed(m, b, q) => Followed(m, b2, q)
  BY DEF Followed, FirstRun
<1> QED
  BY <1>1 DEF Held

\* The slot of the call, when neither its entry nor the FAT changes.
LEMMA OwnSame ==
    ASSUME NEW s \in Slots, NEW q, SlotInv(s, q), UNCHANGED <<fat, entry>>, DiskMoves, call.pc # "erase",
           Settled(s)' => Settled(s), Quiet(s)' => Quiet(s), file[s].open, obj'[s].sclust = obj[s].sclust
    PROVE  Kept(s, q)' /\ OnDisk(s, q)'
<1>1. Kept(s, q)'
  BY KeptStep, AgreeSame DEF SlotInv
<1>2. Quiet(s)' => entry[s].sclust = obj'[s].sclust
  BY DEF SlotInv, OnDisk
<1> QED
  BY <1>1, <1>2, OnDiskStep, AgreeSame DEF SlotInv

\* Follow keeps the invariant.
LEMMA StepFollow ==
    ASSUME NEW o, NEW r, IInv(o, r), LagInv, Follow PROVE Kept1(o, r)
<1>1. PICK s, q, b, f, b2, cs : /\ s = call.s /\ q = o[s] /\ b = obj[s] /\ f = file[s]
                                /\ b2 = Grown(b, f.fptr) /\ cs = GetFat(b2, f.clust)
  OBVIOUS
<1>2. /\ call.pc = "follow"
      /\ UNCHANGED <<fs_type, fat, bitmap, entry, free_clst, last_clst, fsi_flag, pulls>>
      /\ call.pc # "idle" /\ call.pc \in Seeking \union {"first"} /\ call.pc \in Next1 /\ call.pc \notin Handing
  BY DEF Follow, volume, counts, bounds, Seeking, Next1, Handing
<1>3. /\ s \in Slots /\ q \in Seq(Clusters) /\ Alone(q) /\ SlotInv(s, q) /\ b \in ObjSet /\ f \in FileSet /\ Types /\ call \in CallSet
      /\ O = b /\ F = f /\ SeekOK(q) /\ call.ncl = 0 /\ obj \in [Slots -> ObjSet] /\ file \in [Slots -> FileSet]
  BY <1>1, <1>2, CallHas
<1>4. /\ f.open /\ entry[s].used /\ Plain(b) /\ Held(fat, b, f, q) /\ r = <<>> /\ call.op # "rename" /\ call.pc # "erase"
      /\ f.cut => f.modified
      /\ b.n_frag > 0 => f.modified \/ f.fptr > b.objsize
  BY <1>1, <1>2, OpenHas
<1>5. /\ b.n_frag \in Nat /\ b.objsize \in Nat /\ f.fptr \in Nat /\ b.sclust \in Cluster0 /\ b.stat \in {0, 2, 3} /\ f.clust \in Cluster0
      /\ b.n_cont \in Nat /\ Len(q) \in Nat
  BY <1>3 DEF ObjSet, FileSet
<1>6. /\ call.to \in Nat /\ call.op \in {"seek", "create", "truncate"} /\ (call.op = "create" => f.modified)
      /\ (call.op = "truncate" => call.to < b.objsize /\ b.n_frag = 0)
      /\ f.fptr > 0 /\ f.fptr <= call.to
  BY <1>2, <1>3 DEF SeekOK, Seeking
<1>7. /\ b2 \in ObjSet /\ b2.sclust = b.sclust /\ b2.stat = b.stat /\ b2.n_cont = b.n_cont /\ b2.n_frag = b.n_frag
      /\ b2.objsize = BoundedMax(b.objsize, f.fptr)
      /\ Plain(b2)
  <2>1. b2 = [b EXCEPT !.objsize = BoundedMax(b.objsize, f.fptr)]
    BY <1>1, <1>3 DEF Grown, ObjSet
  <2>2. BoundedMax(b.objsize, f.fptr) \in Nat
    BY <1>5 DEF BoundedMax
  <2> QED
    BY <1>3, <1>4, <1>5, <2>1, <2>2 DEF ObjSet, Plain, BoundedMax
<1>8. /\ b2.objsize \in Nat /\ b.objsize <= b2.objsize /\ b2.objsize <= Len(q) /\ (ExFat => f.fptr <= b2.objsize)
      /\ BoundedMax(b2.objsize, f.fptr) = BoundedMax(b.objsize, f.fptr)
      /\ ExFat /\ f.fptr > b.objsize => b2.objsize # b.objsize
  BY <1>4, <1>5, <1>7 DEF Held, BoundedMax
<1>9. Held(fat, b2, f, q)
  <2>1. f.fptr <= Len(q) /\ f.clust = q[f.fptr] /\ (b.n_frag > 0 => f.fptr = Len(q))
    BY <1>4, <1>6 DEF Held
  <2> QED
    BY <1>3, <1>4, <1>7, <1>8, <2>1, HeldMove
<1>10. f.fptr \in 1 .. Len(q) /\ f.clust = q[f.fptr]
  BY <1>4, <1>5, <1>6 DEF Held
<1>11. cs = IF f.fptr < Len(q) THEN q[f.fptr + 1] ELSE EOC
  <2>1. (b2.stat = 2 => f.fptr <= b2.objsize) /\ (b2.stat = 3 => b2.objsize > 0)
    BY <1>6, <1>5, <1>7, <1>8 DEF Plain
  <2>2. b2.n_frag > 0 => f.fptr = Len(q)
    BY <1>9 DEF Held
  <2> QED
    BY <1>1, <1>3, <1>7, <1>9, <1>10, <2>1, <2>2, HeldGet, SMTT(40)
<1>12. CASE f.fptr = call.to
  <2>1. /\ call' = [call EXCEPT !.pc = "seeked"] /\ UNCHANGED <<win, disk, obj, file>>
    BY <1>1, <1>3, <1>12 DEF Follow, Goto
  <2>2. /\ call' \in CallSet /\ call'.pc = "seeked" /\ call'.op = call.op /\ call'.s = s /\ call'.to = call.to /\ call'.ncl = 0
    <3>1. "seeked" \in Pcs
      BY DEF Pcs, Next1
    <3> QED
      BY <1>1, <1>3, <2>1, <3>1, CallGoes
  <2>3. obj'[s] = b /\ file'[s] = f /\ obj' = [obj EXCEPT ![s] = b] /\ file' = [file EXCEPT ![s] = f]
    BY <1>1, <1>3, <2>1
  <2>4. SlotOK(s, q)'
    <3>1. ~Removing(s)' /\ call'.s = s /\ call'.pc \in Next1
      BY <2>2 DEF Removing, Next1
    <3>2. b.sclust # 0 => b.objsize > 0 \/ f.fptr > 0
      BY <1>6
    <3> QED
      BY <1>2, <1>4, <2>3, <3>1, <3>2, OpenSlot
  <2>5. DiskMoves /\ DiskStays
    BY <1>3, <2>1, StaysMoves DEF DiskStays
  <2>6. SlotInv(s, q)'
    <3>1. (Settled(s)' => Settled(s)) /\ (Quiet(s)' => Quiet(s))
      BY <1>2, <1>4, <2>1 DEF Settled, Quiet, ExFat
    <3> QED
      BY <1>1, <1>2, <1>3, <1>4, <2>1, <2>4, <2>5, <3>1, OwnSame DEF SlotInv
  <2>7. SeekOK(q)'
    <3>1. F' = f /\ O' = b
      BY <1>1, <2>1, <2>2 DEF F, O
    <3> QED
      BY <1>4, <1>6, <1>12, <2>2, <3>1 DEF SeekOK, Seeking
  <2>8. CallOK(o, r)'
    <3>1. call'.pc \in Seeking \ {"link", "fill_link"}
      BY <2>2 DEF Seeking, Next1
    <3> QED
      BY <1>1, <1>3, <1>4, <2>2, <2>7, <3>1, SeekCallOK
  <2>9. Torn => Torn'
    BY <1>1, <1>2, <1>3, <1>4, <2>3, TornStep
  <2>10. call'.pc \notin Handing /\ call'.pc # "erase" /\ call'.op # "rename"
    BY <1>4, <2>2 DEF Handing
  <2> QED
    BY <1>1, <1>2, <1>3, <1>4, <2>2, <2>3, <2>5, <2>6, <2>8, <2>9, <2>10, CalmOwn
<1>13. CASE f.fptr # call.to
  <2>1. PICK on, mod, n, c, g, pc :
           /\ on = (cs \in Clusters) /\ mod = (f.modified \/ b2 # b)
           /\ n = IF cs \in Clusters THEN f.fptr + 1 ELSE f.fptr
           /\ c = IF cs \in Clusters THEN cs ELSE f.clust
           /\ g = [f EXCEPT !.modified = mod, !.clust = c, !.fptr = n]
           /\ pc = IF cs \in Clusters THEN "follow" ELSE "take"
    OBVIOUS
  <2>2. /\ ~(cs < 2) /\ mod \in BOOLEAN /\ pc \in Pcs /\ pc \in {"follow", "take"} /\ cs \in Cluster0 \union {EOC}
        /\ (cs \in Clusters <=> f.fptr < Len(q))
    <3>1. f.fptr < Len(q) => q[f.fptr + 1] \in Clusters
      BY <1>3, <1>10
    <3> QED
      BY <1>11, <2>1, <3>1, Nums DEF Pcs, Next1, Cluster0
  <2>3. /\ \E R : Read(R)
        /\ obj' = [obj EXCEPT ![s] = b2] /\ file' = [file EXCEPT ![s] = g]
    <3>1. /\ Read(FatReads(Grown(O, F.fptr), F.clust)) /\ obj' = [obj EXCEPT ![call.s] = Grown(O, F.fptr)]
          /\ file' = [file EXCEPT ![call.s] = [F EXCEPT !.modified = @ \/ Grown(O, F.fptr) # O,
                                 !.clust = IF GetFat(Grown(O, F.fptr), F.clust) \in Clusters THEN GetFat(Grown(O, F.fptr), F.clust) ELSE @,
                                 !.fptr = IF GetFat(Grown(O, F.fptr), F.clust) \in Clusters THEN @ + 1 ELSE @]]
      BY <1>3, <1>13, Zenon DEF Follow, SetObj, SetFile
    <3>2. /\ Read(FatReads(b2, f.clust)) /\ obj' = [obj EXCEPT ![s] = b2]
          /\ file' = [file EXCEPT ![s] = [f EXCEPT !.modified = f.modified \/ b2 # b,
                                 !.clust = IF cs \in Clusters THEN cs ELSE f.clust,
                                 !.fptr = IF cs \in Clusters THEN f.fptr + 1 ELSE f.fptr]]
      BY <1>1, <1>3, <3>1, Zenon DEF FileSet
    <3>3. file' = [file EXCEPT ![s] = [f EXCEPT !.modified = mod, !.clust = c, !.fptr = n]]
      BY <2>1, <3>2, Zenon
    <3> QED
      BY <2>1, <3>2, <3>3, Zenon
  <2>4. call' = [call EXCEPT !.pc = pc]
    <3>1. CASE cs \in Clusters
      <4>1. call' = call
        BY <1>1, <1>3, <1>13, <2>2, <3>1 DEF Follow
      <4> QED
        BY <1>2, <1>3, <2>1, <3>1, <4>1 DEF CallSet
    <3>2. CASE cs \notin Clusters
      BY <1>1, <1>3, <1>13, <2>1, <2>2, <3>2 DEF Follow, Goto
    <3> QED
      BY <3>1, <3>2
  <2>5. n \in Nat /\ n <= Len(q) /\ n > 0 /\ c = q[n] /\ c \in Cluster0 /\ n >= f.fptr /\ n <= call.to
    <3>1. cs \in Clusters => n = f.fptr + 1 /\ c = q[f.fptr + 1] /\ c \in Cluster0
      BY <1>11, <2>1, <2>2 DEF Cluster0
    <3>2. cs \notin Clusters => n = f.fptr /\ c = f.clust
      BY <2>1
    <3> QED
      BY <1>5, <1>6, <1>10, <1>13, <2>2, <3>1, <3>2
  <2>6. g \in FileSet /\ g.open /\ g.fptr = n /\ g.clust = c /\ g.cut = f.cut /\ g.modified = mod
    BY <1>3, <1>4, <2>1, <2>2, <2>5 DEF FileSet
  <2>7. /\ call' \in CallSet /\ call'.pc = pc /\ call'.op = call.op /\ call'.s = s /\ call'.to = call.to /\ call'.ncl = 0
    BY <1>1, <1>3, <2>2, <2>4, CallGoes
  <2>8. obj'[s] = b2 /\ file'[s] = g
    BY <1>3, <2>3
  <2>9. /\ f.modified => mod
        /\ ~mod => b2 = b
        /\ b2.objsize # b.objsize => mod
    BY <2>1
  <2>10. Held(fat, b2, g, q)
    <3>1. b2.n_frag > 0 => n = Len(q)
      BY <1>9, <2>1, <2>2 DEF Held
    <3>2. b2.stat = 2 => BoundedMax(b2.objsize, n) = BoundedMax(b2.objsize, f.fptr)
      <4> SUFFICES ASSUME b2.stat = 2 PROVE BoundedMax(b2.objsize, n) = BoundedMax(b2.objsize, f.fptr)
        OBVIOUS
      <4>1. ExFat /\ f.fptr <= b2.objsize
        BY <1>7, <1>8 DEF Plain
      <4>2. BoundedMax(b2.objsize, f.fptr) = b2.objsize
        BY <1>5, <1>8, <4>1 DEF BoundedMax
      <4>3. b2.sclust \in Nat
        BY <1>5, <1>7, Nums
      <4>4. Len(q) = b2.objsize
        <5>1. q = Contig(b2.sclust, b2.objsize)
          BY <1>9, <4>2 DEF Held
        <5> QED
          BY <1>8, <4>3, <5>1, ContigSeq
      <4> QED
        BY <1>8, <2>5, <4>2, <4>4 DEF BoundedMax
    <3> QED
      BY <1>3, <1>7, <1>8, <1>9, <2>5, <2>6, <3>1, <3>2, HeldMove
  <2>11. SlotOK(s, q)'
    <3>1. ~Removing(s)' /\ call'.s = s /\ call'.pc \in Next1
      BY <2>2, <2>7 DEF Removing, Next1
    <3>2. b2.sclust # 0 => b2.objsize > 0 \/ g.fptr > 0
      BY <2>5, <2>6
    <3>3. g.cut => g.modified
      BY <1>4, <2>6, <2>9
    <3>4. b2.n_frag > 0 => g.modified
      <4>1. b.n_frag > 0 /\ f.fptr > b.objsize => mod
        BY <1>4, <1>8, <2>9 DEF Plain
      <4> QED
        BY <1>4, <1>7, <2>6, <2>9, <4>1
    <3> QED
      BY <1>2, <1>4, <1>7, <2>6, <2>8, <2>10, <3>1, <3>2, <3>3, <3>4, OpenSlot
  <2>12. DiskMoves
    BY <1>3, <2>3, ReadMoves
  <2>13. SlotInv(s, q)'
    <3>1. Settled(s)' => Settled(s)
      <4>1. ExFat /\ ~mod /\ n <= b2.objsize => f.fptr <= b.objsize /\ ~f.modified
        BY <1>5, <2>5, <2>9
      <4> QED
        BY <1>1, <1>2, <1>4, <2>6, <2>8, <4>1 DEF Settled, ExFat
    <3>2. Quiet(s)' => Quiet(s)
      <4>1. ~mod /\ n <= b2.objsize => f.fptr <= b.objsize /\ ~f.modified
        BY <1>5, <2>5, <2>9
      <4> QED
        BY <1>1, <1>2, <1>4, <2>6, <2>8, <4>1 DEF Quiet
    <3> QED
      BY <1>1, <1>2, <1>3, <1>4, <1>7, <2>8, <2>11, <2>12, <3>1, <3>2, OwnSame DEF SlotInv
  <2>14. SeekOK(q)'
    <3>1. F' = g /\ O' = b2
      BY <1>1, <2>7, <2>8 DEF F, O
    <3>2. pc = "follow" => (call.op = "truncate" => b2.n_frag = 0)
      BY <1>6, <1>7
    <3>3. pc = "take" => n = Len(q) /\ n < call.to /\ q # <<>> /\ call.op # "truncate" /\ (ExFat => n <= b2.objsize)
      <4>1. pc = "take" => n = f.fptr /\ n = Len(q) /\ n < call.to
        BY <1>5, <1>6, <1>10, <1>13, <2>1, <2>2
      <4>2. pc = "take" => call.op # "truncate"
        <5>1. call.op = "truncate" => call.to < b.objsize
          BY <1>6
        <5>2. b.objsize <= Len(q)
          BY <1>5, <1>8
        <5> QED
          BY <1>5, <1>6, <4>1, <5>1, <5>2
      <4>3. pc = "take" => (ExFat => n <= b2.objsize)
        BY <1>8, <4>1
      <4>4. pc = "take" => q # <<>>
        BY <2>5, <4>1
      <4> QED
        BY <4>1, <4>2, <4>3, <4>4
    <3>4. call.op = "truncate" => call.to < b2.objsize
      BY <1>5, <1>6, <1>8
    <3>5. call.op = "create" => mod
      BY <1>6, <2>9
    <3>6. ExFat' <=> ExFat
      BY <1>2 DEF ExFat
    <3> QED
      BY <1>6, <2>2, <2>5, <2>6, <2>7, <3>1, <3>2, <3>3, <3>4, <3>5, <3>6 DEF SeekOK, Seeking
  <2>15. CallOK(o, r)'
    <3>1. call'.pc \in Seeking \ {"link", "fill_link"}
      BY <2>2, <2>7 DEF Seeking, Next1
    <3> QED
      BY <1>1, <1>3, <1>4, <2>7, <2>14, <3>1, SeekCallOK
  <2>16. Torn => Torn'
    BY <1>1, <1>2, <1>3, <1>4, <2>3, <2>6, <2>9, TornStep
  <2>17. call'.pc \notin Handing /\ call'.pc # "erase" /\ call'.op # "rename"
    BY <1>4, <2>2, <2>7 DEF Handing
  <2>18. Unstretched \/ Torn'
    <3>1. CASE ExFat /\ f.fptr > b.objsize
      <4>1. file'[s].modified /\ ExFat'
        BY <1>2, <1>8, <2>6, <2>8, <2>9, <3>1 DEF ExFat
      <4> QED
        BY <1>3, <4>1 DEF Torn
    <3>2. CASE ~(ExFat /\ f.fptr > b.objsize)
      BY <1>1, <1>5, <3>2, OthersUnstretched
    <3> QED
      BY <3>1, <3>2
  <2> QED
    BY <1>1, <1>2, <1>3, <1>4, <1>7, <2>3, <2>6, <2>7, <2>12, <2>13, <2>15, <2>16, <2>17, <2>18, CalmOwn
<1> QED
  BY <1>12, <1>13

\* Full keeps the invariant.
LEMMA StepFull ==
    ASSUME NEW o, NEW r, IInv(o, r), LagInv, Full PROVE Kept1(o, r)
<1>1. PICK s, q, b, f : s = call.s /\ q = o[s] /\ b = obj[s] /\ f = file[s]
  OBVIOUS
<1>2. /\ call.pc = "take" /\ call' = [call EXCEPT !.pc = "seeked"]
      /\ UNCHANGED <<fs_type, fat, bitmap, entry, free_clst, last_clst, fsi_flag, obj, file, pulls>>
      /\ call.pc # "idle" /\ call.pc \in Seeking \union {"first"} /\ call.pc \in Next1 /\ call.pc \notin Handing
      /\ "seeked" \in Pcs
  BY DEF Full, Goto, volume, counts, bounds, Seeking, Next1, Handing, Pcs
<1>3. /\ s \in Slots /\ q \in Seq(Clusters) /\ SlotInv(s, q) /\ b \in ObjSet /\ f \in FileSet /\ Types /\ call \in CallSet
      /\ O = b /\ F = f /\ SeekOK(q) /\ call.ncl = 0 /\ obj \in [Slots -> ObjSet] /\ file \in [Slots -> FileSet]
  BY <1>1, <1>2, CallHas
<1>4. /\ f.open /\ entry[s].used /\ Plain(b) /\ Held(fat, b, f, q) /\ r = <<>> /\ call.op # "rename" /\ call.pc # "erase"
      /\ f.cut => f.modified
      /\ b.sclust # 0 => b.objsize > 0 \/ f.fptr > 0
      /\ b.n_frag > 0 => f.modified \/ f.fptr > b.objsize
  BY <1>1, <1>2, OpenHas
<1>5. /\ call' \in CallSet /\ call'.pc = "seeked" /\ call'.op = call.op /\ call'.s = s /\ call'.to = call.to /\ call'.ncl = 0
  BY <1>1, <1>2, <1>3, CallGoes
<1>6. obj'[s] = b /\ file'[s] = f /\ obj' = [obj EXCEPT ![s] = b] /\ file' = [file EXCEPT ![s] = f]
  BY <1>1, <1>2, <1>3
<1>7. SlotOK(s, q)'
  <2>1. ~Removing(s)' /\ call'.s = s /\ call'.pc \in Next1
    BY <1>5 DEF Removing, Next1
  <2> QED
    BY <1>2, <1>4, <1>6, <2>1, OpenSlot
<1>8. DiskMoves
  <2>1. UNCHANGED disk \/ \E R : Read(R)
    BY DEF Full
  <2> QED
    BY <1>3, <2>1, ReadMoves, StaysMoves
<1>9. SlotInv(s, q)'
  <2>1. (Settled(s)' => Settled(s)) /\ (Quiet(s)' => Quiet(s))
    BY <1>2, <1>4 DEF Settled, Quiet, ExFat
  <2> QED
    BY <1>1, <1>2, <1>3, <1>4, <1>6, <1>7, <1>8, <2>1, OwnSame DEF SlotInv
<1>10. SeekOK(q)'
  <2>1. F' = f /\ O' = b
    BY <1>1, <1>2, <1>5 DEF F, O
  <2>2. /\ call.to \in Nat /\ call.op \in {"seek", "create", "truncate"} /\ (call.op = "create" => f.modified)
        /\ call.op # "truncate" /\ f.fptr < call.to
    BY <1>2, <1>3 DEF SeekOK, Seeking
  <2>3. f.fptr \in Nat
    BY <1>3 DEF FileSet
  <2> QED
    BY <1>4, <1>5, <2>1, <2>2, <2>3 DEF SeekOK, Seeking
<1>11. CallOK(o, r)'
  <2>1. call'.pc \in Seeking \ {"link", "fill_link"}
    BY <1>5 DEF Seeking, Next1
  <2> QED
    BY <1>1, <1>3, <1>4, <1>5, <1>10, <2>1, SeekCallOK
<1>12. Torn => Torn'
  BY <1>2, <1>5 DEF Torn, ExFat
<1>13. call'.pc \notin Handing /\ call'.pc # "erase" /\ call'.op # "rename"
  BY <1>4, <1>5 DEF Handing
<1>14. Unstretched
  <2>1. ExFat => f.fptr <= b.objsize
    BY <1>2, <1>3 DEF SeekOK, Next1, Seeking
  <2> QED
    BY <1>1, <2>1, OthersUnstretched
<1> QED
  BY <1>1, <1>2, <1>3, <1>4, <1>5, <1>6, <1>8, <1>9, <1>11, <1>12, <1>13, <1>14, CalmOwn

\* SeekedAt keeps the invariant.
LEMMA StepSeekedAt ==
    ASSUME NEW o, NEW r, IInv(o, r), LagInv, Seeked, call.op \in {"seek", "create"} PROVE Kept1(o, r)
<1>1. PICK s, q, b, f, b2 : /\ s = call.s /\ q = o[s] /\ b = obj[s] /\ f = file[s]
                            /\ b2 = [b EXCEPT !.objsize = BoundedMax(b.objsize, f.fptr)]
  OBVIOUS
<1>2. /\ call.pc = "seeked"
      /\ UNCHANGED <<fs_type, fat, bitmap, entry, free_clst, last_clst, fsi_flag, pulls, win, disk>>
      /\ call.pc # "idle" /\ call.pc \in Seeking \union {"first"} /\ call.pc \in Next1 /\ call.pc \notin Handing
      /\ "first" \in Pcs
  BY DEF Seeked, volume, counts, bounds, Seeking, Next1, Handing, Pcs
<1>3. /\ s \in Slots /\ q \in Seq(Clusters) /\ SlotInv(s, q) /\ b \in ObjSet /\ f \in FileSet /\ Types /\ call \in CallSet
      /\ O = b /\ F = f /\ SeekOK(q) /\ call.ncl = 0 /\ obj \in [Slots -> ObjSet] /\ file \in [Slots -> FileSet]
  BY <1>1, <1>2, CallHas
<1>4. /\ f.open /\ entry[s].used /\ Plain(b) /\ Held(fat, b, f, q) /\ r = <<>> /\ call.op # "rename" /\ call.pc # "erase"
      /\ f.cut => f.modified
      /\ b.sclust # 0 => b.objsize > 0 \/ f.fptr > 0
      /\ b.n_frag > 0 => f.modified \/ f.fptr > b.objsize
  BY <1>1, <1>2, OpenHas
<1>5. f.fptr \in Nat /\ b.objsize \in Nat /\ b.n_frag \in Nat
  BY <1>3 DEF ObjSet, FileSet
<1>6. /\ b2 \in ObjSet /\ b2.sclust = b.sclust /\ b2.stat = b.stat /\ b2.n_cont = b.n_cont /\ b2.n_frag = b.n_frag
      /\ b2.objsize = BoundedMax(b.objsize, f.fptr) /\ Plain(b2) /\ b2.objsize \in Nat /\ b2.objsize >= b.objsize /\ b2.objsize >= f.fptr
      /\ BoundedMax(b2.objsize, f.fptr) = BoundedMax(b.objsize, f.fptr)
      /\ b2.objsize \in {b.objsize, f.fptr}
  <2>1. BoundedMax(b.objsize, f.fptr) \in Nat /\ BoundedMax(b.objsize, f.fptr) >= b.objsize /\ BoundedMax(b.objsize, f.fptr) >= f.fptr
        /\ BoundedMax(BoundedMax(b.objsize, f.fptr), f.fptr) = BoundedMax(b.objsize, f.fptr)
        /\ BoundedMax(b.objsize, f.fptr) \in {b.objsize, f.fptr}
    BY <1>5 DEF BoundedMax
  <2>2. /\ b2 \in ObjSet /\ b2.sclust = b.sclust /\ b2.stat = b.stat /\ b2.n_cont = b.n_cont /\ b2.n_frag = b.n_frag
        /\ b2.objsize = BoundedMax(b.objsize, f.fptr)
    BY <1>1, <1>3, <2>1 DEF ObjSet
  <2> QED
    BY <1>4, <2>1, <2>2 DEF Plain
<1>7. PICK mod, g, c : /\ mod = (f.modified \/ f.fptr > b.objsize) /\ g = [f EXCEPT !.modified = mod]
                       /\ c = IF call.op = "create" THEN [call EXCEPT !.pc = "first"] ELSE Idle
  OBVIOUS
<1>8. mod \in BOOLEAN /\ g \in FileSet /\ g.open /\ g.fptr = f.fptr /\ g.clust = f.clust /\ g.cut = f.cut /\ g.modified = mod
  BY <1>3, <1>4, <1>7 DEF FileSet
<1>9. obj' = [obj EXCEPT ![s] = b2] /\ file' = [file EXCEPT ![s] = g] /\ call' = c
  <2>1. obj' = [obj EXCEPT ![s] = b2]
    BY <1>1, <1>3 DEF Seeked, SetObj, Grown
  <2>2. call' = c
    BY <1>3, <1>7 DEF Seeked
  <2>3. file' = [file EXCEPT ![call.s] = [F EXCEPT !.modified = @ \/ F.fptr > O.objsize]]
    BY DEF Seeked, SetFile
  <2> QED
    BY <1>1, <1>3, <1>7, <2>1, <2>2, <2>3
<1>10. obj'[s] = b2 /\ file'[s] = g
  BY <1>3, <1>9
<1>11. /\ call' \in CallSet /\ call'.pc \in {"idle", "first"} /\ call'.op # "rename" /\ (call'.pc # "idle" => call'.s = s)
       /\ call'.pc # "erase"
  <2>1. CASE call.op = "create"
    <3>1. call' = [call EXCEPT !.pc = "first"]
      BY <1>7, <1>9, <2>1
    <3> QED
      BY <1>1, <1>2, <1>3, <1>4, <3>1, CallGoes
  <2>2. CASE call.op # "create"
    <3>1. call' = Idle /\ call'.pc = "idle" /\ call'.op = "none"
      BY <1>7, <1>9, <2>2 DEF Idle
    <3>2. Idle \in CallSet
      BY DEF Idle, CallSet, Ops, Pcs, Cluster0
    <3> QED
      BY <3>1, <3>2
  <2> QED
    BY <2>1, <2>2
<1>12. Held(fat, b2, g, q)
  <2>1. b2.objsize <= Len(q)
    BY <1>4, <1>6 DEF Held
  <2>2. g.fptr <= Len(q) /\ (g.fptr > 0 => g.clust = q[g.fptr]) /\ (b.n_frag > 0 => g.fptr = Len(q))
    BY <1>4, <1>8 DEF Held
  <2> QED
    BY <1>3, <1>4, <1>6, <1>8, <2>1, <2>2, HeldMove
<1>13. mod => f.modified \/ f.fptr > b.objsize
  BY <1>7
<1>14. ~mod => ~f.modified /\ f.fptr <= b.objsize /\ b2.objsize = b.objsize
  BY <1>5, <1>6, <1>7 DEF BoundedMax
<1>15. SlotOK(s, q)'
  <2>1. ~Removing(s)'
    BY <1>11 DEF Removing
  <2>2. (b2.sclust # 0 => b2.objsize > 0) /\ g.fptr <= b2.objsize /\ (g.cut => g.modified) /\ (b2.n_frag > 0 => g.modified)
    BY <1>4, <1>5, <1>6, <1>8, <1>14
  <2> QED
    BY <1>2, <1>4, <1>6, <1>8, <1>10, <1>12, <2>1, <2>2, OpenSlot
<1>16. DiskMoves /\ DiskStays
  BY <1>2, <1>3, StaysMoves DEF DiskStays
<1>17. SlotInv(s, q)'
  <2>1. Settled(s)' => Settled(s)
    BY <1>1, <1>2, <1>4, <1>8, <1>10, <1>14 DEF Settled, ExFat
  <2>2. Quiet(s)' => Quiet(s)
    BY <1>1, <1>2, <1>4, <1>8, <1>10, <1>14 DEF Quiet
  <2> QED
    BY <1>1, <1>2, <1>3, <1>4, <1>6, <1>10, <1>15, <1>16, <2>1, <2>2, OwnSame, ZenonT(40) DEF SlotInv
<1>18. CallOK(o, r)'
  <2>1. CASE call.op # "create"
    BY <1>4, <1>7, <1>9, <2>1, IdleCall
  <2>2. CASE call.op = "create"
    <3>1. call' = [call EXCEPT !.pc = "first"]
      BY <1>7, <1>9, <2>2
    <3>2. call'.pc = "first" /\ call'.op = "create" /\ call'.s = s /\ call'.ncl = 0
      BY <1>1, <1>2, <1>3, <2>2, <3>1, CallGoes
    <3>3. F' = g /\ F'.open /\ F'.modified
      <4>1. f.modified
        BY <1>2, <1>3, <2>2 DEF SeekOK, Seeking
      <4> QED
        BY <1>1, <1>7, <1>8, <1>10, <3>2, <4>1, ZenonT(40) DEF F
    <3>4. SeekOK(o[s])'
      BY <3>2 DEF SeekOK, Seeking, Next1
    <3>5. LinkOK(o)' /\ RemoveOK(o, r)'
      BY <3>2 DEF LinkOK, RemoveOK
    <3>6. SyncOK'
      <4>1. ~(call'.ncl > 0) /\ 0 .. call'.ncl - 1 = {}
        BY <3>2
      <4> QED
        BY <3>2, <3>3, <4>1 DEF SyncOK
    <3> QED
      BY <1>3, <1>4, <3>2, <3>4, <3>5, <3>6 DEF CallOK
  <2> QED
    BY <2>1, <2>2
<1>19. Torn => Torn'
  <2>1. (file[s].cut => g.cut) /\ (file[s].modified => g.modified)
    BY <1>1, <1>8, <1>14
  <2> QED
    BY <1>2, <1>3, <1>4, <1>9, <2>1, TornStep
<1>20. call'.pc \notin Handing
  BY <1>11 DEF Handing
<1> QED
  BY <1>1, <1>2, <1>3, <1>4, <1>6, <1>8, <1>9, <1>11, <1>16, <1>17, <1>18, <1>19, <1>20, CalmOwn

\* A step after which the same clusters are marked, and no other are handed about.
LEMMA UseStep ==
    ASSUME NEW o, NEW r, IInv(o, r), UNCHANGED <<fs_type, pulls, free_clst>>, SameUse, DiskMoves,
           Types', \A s \in Slots : SlotInv(s, o[s])', CallOK(o, r)',
           Limbo(r) \subseteq Limbo(r)', Pending' = Pending,
           Torn => Torn', DiskStays \/ Unstretched \/ Torn'
    PROVE  Kept1(o, r)
<1>1. ChainsOK(o, r)'
  BY ChainsStay DEF IInv, SameUse
<1>2. Marks(o, r)' /\ Count'
  BY MarksStay, CountStays DEF IInv
<1>3. DiskSound'
  BY DiskStep
<1>4. IInv(o, r)'
  BY <1>1, <1>2, <1>3 DEF IInv, SlotInv
<1> QED
  BY <1>4 DEF Kept1, Moves

\* A FAT entry in a file's chain is no other's.
LEMMA AgreeApart ==
    ASSUME NEW o, NEW r, ChainsOK(o, r), NEW s \in Slots, NEW c \in Elems(o[s]),
           \A d \in Clusters : d # c => fat'[d] = fat[d]
    PROVE  \A t \in Slots \ {s} : Agree(fat, fat', o[t])
<1> TAKE t \in Slots \ {s}
<1>1. o[t] \in Seq(Clusters) /\ o[s] \in Seq(Clusters)
  BY DEF ChainsOK
<1>2. PICK i \in DOMAIN o[s] : c = o[s][i]
  BY DEF Elems
<1>3. ASSUME NEW k \in 1 .. Len(o[t]) PROVE o[t][k] # c /\ o[t][k] \in Clusters
  BY <1>1, <1>2 DEF ChainsOK, Owners!Apart
<1> QED
  BY <1>3 DEF Agree

\* One fragment entry less to write.
Filling(m, b, f, c, v, m2, b2) ==
    /\ b.n_frag > 0
    /\ c = f.clust - b.n_frag + 1
    /\ v = IF b.n_frag > 1 THEN c + 1 ELSE EOC
    /\ m2 = [m EXCEPT ![c] = v]
    /\ b2 = [b EXCEPT !.n_frag = b.n_frag - 1]

\* fill_last_frag, and the file still holds its chain.
LEMMA FillHeld ==
    ASSUME NEW m \in [Clusters -> Link], NEW b \in ObjSet, NEW f \in FileSet, NEW q \in Seq(Clusters), Alone(q), Held(m, b, f, q),
           NEW c, NEW v, NEW m2, NEW b2, Filling(m, b, f, c, v, m2, b2)
    PROVE  /\ Held(m2, b2, f, q) /\ c \in Elems(q) /\ v \in Link /\ b2 \in ObjSet
           /\ b2.sclust = b.sclust /\ b2.objsize = b.objsize /\ b2.stat = b.stat /\ b2.n_frag = b.n_frag - 1
           /\ b2.n_cont = b.n_cont
<1> USE DEF Filling
<1>1. /\ b.n_cont \in Nat /\ b.n_frag \in Nat /\ b.objsize \in Nat /\ b.stat \in {0, 2, 3} /\ b.sclust \in Cluster0
      /\ f.fptr \in Nat /\ Len(q) \in Nat
  BY DEF ObjSet, FileSet
<1>2. /\ b2 \in ObjSet
      /\ b2.sclust = b.sclust /\ b2.objsize = b.objsize /\ b2.stat = b.stat /\ b2.n_frag = b.n_frag - 1
      /\ b2.n_cont = b.n_cont
  <2>1. b.n_frag - 1 \in Nat
    BY <1>1
  <2> QED
    BY <2>1 DEF ObjSet
<1>3. /\ f.fptr = Len(q) /\ f.clust = q[Len(q)] /\ b.n_frag <= Len(q) /\ b.stat # 2
      /\ \A i \in 1 .. Len(q) : i > Len(q) - b.n_frag => q[i] = q[Len(q)] - (Len(q) - i)
      /\ Followed(m, b, q)
      /\ b.stat = 3 => b.n_cont < Len(q) /\ b.n_cont + b.n_frag <= Len(q)
  BY <1>1 DEF Held
<1>4. PICK k : k = Len(q) - b.n_frag + 1
  OBVIOUS
<1>5. k \in 1 .. Len(q) /\ Len(q) \in 1 .. Len(q) /\ (b.stat = 3 => k > b.n_cont)
  BY <1>1, <1>3, <1>4, SMTT(40)
<1>6. q[k] = c /\ (k < Len(q) => q[k + 1] = c + 1) /\ (b.n_frag > 1 <=> k < Len(q))
  <2>1. q[Len(q)] \in Nat /\ k > Len(q) - b.n_frag
    <3>1. q[Len(q)] \in Clusters
      BY <1>5
    <3> QED
      BY <1>1, <1>4, <3>1, Nums, SMTT(40)
  <2>2. q[k] = q[Len(q)] - (Len(q) - k)
    BY <1>3, <1>5, <2>1
  <2>3. k < Len(q) => q[k + 1] = q[Len(q)] - (Len(q) - (k + 1))
    <3>1. k < Len(q) => k + 1 \in 1 .. Len(q) /\ k + 1 > Len(q) - b.n_frag
      BY <1>1, <1>5, <2>1, SMTT(40)
    <3> QED
      BY <1>3, <3>1
  <2>4. PICK z, y, l : z = q[Len(q)] /\ y = b.n_frag /\ l = Len(q)
    OBVIOUS
  <2>5. z \in Nat /\ y \in Nat /\ l \in Nat /\ c = z - y + 1 /\ k = l - y + 1
    BY <1>1, <1>3, <1>4, <2>1, <2>4
  <2>6. z - (l - k) = c /\ z - (l - (k + 1)) = c + 1 /\ (y > 1 <=> k < l)
    BY <2>5
  <2> QED
    BY <2>2, <2>3, <2>4, <2>6
<1>7. c \in Clusters
  BY <1>5, <1>6
<1>8. /\ m2[c] = IF k < Len(q) THEN q[k + 1] ELSE EOC
      /\ \A i \in 1 .. Len(q) : i # k => m2[q[i]] = m[q[i]]
  <2>1. \A i \in 1 .. Len(q) : i # k => q[i] # c
    BY <1>5, <1>6 DEF Alone
  <2> QED
    BY <1>6, <1>7, <2>1
<1>9. v \in Link
  BY <1>5, <1>6, <1>7, <1>8 DEF Link
<1>10. Followed(m2, b2, q)
  <2>1. FirstRun(b2) = FirstRun(b)
    BY <1>2 DEF FirstRun
  <2>2. \A i \in 1 .. Len(q) : i <= FirstRun(b2) + 1 => q[i] = b2.sclust + i - 1
    BY <1>2, <1>3, <2>1 DEF Followed
  <2>3. ASSUME NEW i \in 1 .. Len(q) - 1, i > FirstRun(b), i <= Len(q) - (b.n_frag - 1) PROVE m2[q[i]] = q[i + 1]
    <3>1. CASE i = k
      BY <1>5, <1>6, <1>8, <2>3, <3>1
    <3>2. CASE i # k
      <4>1. i <= Len(q) - b.n_frag /\ i \in 1 .. Len(q)
        BY <1>1, <1>4, <2>3, <3>2
      <4> QED
        BY <1>3, <1>8, <2>3, <3>2, <4>1 DEF Followed
    <3> QED
      BY <3>1, <3>2
  <2> QED
    BY <1>2, <2>1, <2>2, <2>3 DEF Followed
<1>11. \A i \in 1 .. Len(q) : i > Len(q) - b2.n_frag => q[i] = q[Len(q)] - (Len(q) - i)
  BY <1>1, <1>2, <1>3
<1>12. b2.n_frag = 0 => m2[q[Len(q)]] = EOC
  BY <1>1, <1>2, <1>4, <1>5, <1>6, <1>8
<1>13. Held(m2, b2, f, q)
  <2>1. b2.n_frag <= Len(q) /\ (b2.stat = 3 => b2.n_cont < Len(q) /\ b2.n_cont + b2.n_frag <= Len(q))
    BY <1>1, <1>2, <1>3
  <2> QED
    BY <1>2, <1>3, <1>10, <1>11, <1>12, <2>1 DEF Held
<1> QED
  BY <1>2, <1>5, <1>6, <1>9, <1>13 DEF Elems

\* A step that writes one FAT entry of a modified file's own chain, on exFAT.
FillsOwn(o, s, c, x, b) ==
    /\ call.pc \in {"fill", "first", "fill_link"} /\ ExFat /\ s = call.s
    /\ fat' = [fat EXCEPT ![c] = x] /\ obj' = [obj EXCEPT ![s] = b]
    /\ UNCHANGED <<fs_type, bitmap, entry, free_clst, last_clst, fsi_flag, file, pulls>>
    /\ \E R, sect : Modify(R, sect)
    /\ b.sclust = obj[s].sclust /\ b.objsize = obj[s].objsize
    /\ Held(fat', b, file[s], o[s]) /\ file[s].modified
    /\ call' \in CallSet /\ call'.s = s /\ call'.op = call.op /\ call'.pc = call.pc
    /\ call.pc = "fill_link" => call'.ncl = call.ncl

\* So a step of it keeps the invariant.
LEMMA FillOwn ==
    ASSUME NEW o, NEW r, IInv(o, r), LagInv, NEW s, NEW c \in Elems(o[s]), NEW x \in Link, NEW b \in ObjSet,
           FillsOwn(o, s, c, x, b), CallOK(o, r)'
    PROVE  Kept1(o, r)
<1> USE DEF FillsOwn
<1>1. PICK q, f : q = o[s] /\ f = file[s]
  OBVIOUS
<1>2. call.pc # "idle" /\ call.pc \in Seeking \union {"first"} /\ call.pc \notin {"cut", "free"}
  BY DEF Seeking, Next1
<1>3. /\ s \in Slots /\ q \in Seq(Clusters) /\ f \in FileSet /\ Types /\ obj \in [Slots -> ObjSet] /\ file \in [Slots -> FileSet]
  BY <1>1, <1>2, CallHas
<1>4. /\ f.open /\ entry[s].used /\ call.op # "rename" /\ call.pc # "erase"
      /\ b.sclust # 0 => b.objsize > 0 \/ f.fptr > 0
      /\ f.fptr <= b.objsize \/ call.pc \in Next1
  BY <1>1, <1>2, OpenHas
<1>5. DiskMoves
  BY <1>3, ModifyMoves
<1>6. c \in Clusters /\ fat \in [Clusters -> Link] /\ (\A d \in Clusters : d # c => fat'[d] = fat[d]) /\ fat' \in [Clusters -> Link]
  BY <1>1, <1>3 DEF Types, Elems
<1>7. \A t \in Slots \ {s} : Agree(fat, fat', o[t])
  BY <1>3, <1>6, AgreeApart DEF IInv
<1>8. obj'[s] = b /\ file'[s] = f /\ obj' \in [Slots -> ObjSet] /\ \A t \in Slots : t # s => obj'[t] = obj[t]
  BY <1>1, <1>3
<1>9. SlotInv(s, q)'
  <2>1. SlotOK(s, q)'
    <3>1. ~Removing(s)' /\ fs_type' = fs_type
      BY <1>2 DEF Removing
    <3>2. Plain(b)
      BY DEF Plain
    <3> QED
      BY <1>1, <1>4, <1>8, <3>1, <3>2, OpenSlot
  <2>2. ~Settled(s)' /\ ~Quiet(s)'
    BY <1>1, <1>4, <1>8 DEF Settled, Quiet, ExFat
  <2> QED
    BY <2>1, <2>2 DEF SlotInv, Kept, OnDisk
<1>10. \A t \in Slots : SlotInv(t, o[t])'
  <2>1. call'.op # "rename" /\ call'.pc # "erase"
    BY <1>4
  <2> QED
    BY <1>1, <1>3, <1>4, <1>5, <1>7, <1>8, <1>9, <2>1, SlotsStep
<1>11. Types'
  BY <1>3, <1>5, <1>6, <1>8, TypesStep DEF Types
<1>12. SameUse
  BY DEF SameUse, InUse, ExFat
<1>13. Limbo(r) \subseteq Limbo(r)' /\ Pending' = Pending
  BY <1>2 DEF Limbo, Pending
<1>14. (Torn => Torn') /\ Torn'
  BY <1>1, <1>3, <1>8 DEF Torn, ExFat
<1> QED
  BY <1>5, <1>10, <1>11, <1>12, <1>13, <1>14, UseStep

\* FillForSeek keeps the invariant.
LEMMA StepFillForSeek ==
    ASSUME NEW o, NEW r, IInv(o, r), LagInv, FillForSeek PROVE Kept1(o, r)
<1>1. PICK s, q, b, f, c, b2, x : /\ s = call.s /\ q = o[s] /\ b = obj[s] /\ f = file[s]
                                  /\ c = f.clust - b.n_frag + 1 /\ x = IF b.n_frag > 1 THEN c + 1 ELSE EOC
                                  /\ b2 = [b EXCEPT !.n_frag = b.n_frag - 1]
  OBVIOUS
<1>2. /\ call.pc = "fill" /\ ExFat /\ O.n_frag > 0 /\ call' = call
      /\ UNCHANGED <<fs_type, bitmap, entry, free_clst, last_clst, fsi_flag, file, pulls>>
      /\ \E R, sect : Modify(R, sect)
      /\ call.pc # "idle" /\ call.pc \in Seeking \union {"first"} /\ call.pc \notin Next1 /\ call.pc \notin Handing
  BY DEF FillForSeek, FillLast, counts, bounds, Seeking, Next1, Handing
<1>3. /\ s \in Slots /\ q \in Seq(Clusters) /\ Alone(q) /\ b \in ObjSet /\ f \in FileSet /\ Types /\ call \in CallSet
      /\ O = b /\ F = f /\ SeekOK(q) /\ call.ncl = 0 /\ fat \in [Clusters -> Link]
  BY <1>1, <1>2, CallHas DEF Types
<1>4. Held(fat, b, f, q) /\ r = <<>> /\ f.modified
  <2>1. /\ Held(fat, b, f, q) /\ r = <<>> /\ f.fptr <= b.objsize
        /\ b.n_frag > 0 => f.modified \/ f.fptr > b.objsize
    BY <1>1, <1>2, OpenHas
  <2>2. f.fptr \in Nat /\ b.objsize \in Nat
    BY <1>3 DEF ObjSet, FileSet
  <2> QED
    BY <1>2, <1>3, <2>1, <2>2
<1>5. fat' = [fat EXCEPT ![c] = x] /\ obj' = [obj EXCEPT ![s] = b2]
  BY <1>1, <1>3 DEF FillForSeek, FillLast, SetObj
<1>6. /\ Held(fat', b2, f, q) /\ b2 \in ObjSet
      /\ b2.sclust = b.sclust /\ b2.objsize = b.objsize /\ b2.stat = b.stat /\ b2.n_frag = b.n_frag - 1
      /\ c \in Elems(q) /\ x \in Link
  <2>1. Filling(fat, b, f, c, x, fat', b2)
    BY <1>1, <1>2, <1>3, <1>5 DEF Filling
  <2> QED
    BY <1>3, <1>4, <2>1, FillHeld
<1>8. call' \in CallSet /\ call'.s = s /\ call'.op = call.op /\ call'.pc = "fill" /\ call'.ncl = 0 /\ call'.to = call.to
  BY <1>1, <1>2, <1>3
<1>9. CallOK(o, r)'
  <2>1. SeekOK(q)'
    <3>1. F' = f /\ O' = b2
      BY <1>1, <1>2, <1>3, <1>5, <1>8 DEF F, O, Types
    <3> QED
      BY <1>2, <1>3, <1>6, <1>8, <3>1 DEF SeekOK, Seeking
  <2>2. call'.pc \in Seeking \ {"link", "fill_link"}
    BY <1>8 DEF Seeking, Next1
  <2> QED
    BY <1>1, <1>3, <1>4, <1>8, <2>1, <2>2, SeekCallOK
<1>10. obj'[s] = b2 /\ b2.sclust = obj[s].sclust /\ b2.objsize = obj[s].objsize
  BY <1>1, <1>3, <1>5, <1>6 DEF Types
<1>20. FillsOwn(o, s, c, x, b2)
  BY <1>1, <1>2, <1>4, <1>5, <1>6, <1>8, <1>9, <1>10 DEF FillsOwn
<1> QED
  BY <1>1, <1>6, <1>9, <1>20, FillOwn

\* What CallOK asks of a call in f_sync, before it writes the entry.
LEMMA FirstCallOK ==
    ASSUME NEW p, NEW s \in Slots, call'.s = s, call'.pc = "first", call'.op \in {"create", "close"},
           F'.open, F'.modified,
           call'.ncl > 0 => O'.stat = 3 /\ call'.ncl < O'.n_cont,
           \A k \in 0 .. call'.ncl - 1 : fat'[O'.sclust + k] = O'.sclust + k + 1
    PROVE  CallOK(p, <<>>)'
<1>1. SyncOK' /\ SeekOK(p[s])' /\ LinkOK(p)' /\ RemoveOK(p, <<>>)'
  BY DEF SyncOK, SeekOK, LinkOK, RemoveOK, Seeking, Next1
<1> QED
  BY <1>1 DEF CallOK

\* FillForSync keeps the invariant.
LEMMA StepFillForSync ==
    ASSUME NEW o, NEW r, IInv(o, r), LagInv, FillForSync PROVE Kept1(o, r)
<1>1. PICK s, q, b, f, c, b2, x : /\ s = call.s /\ q = o[s] /\ b = obj[s] /\ f = file[s]
                                  /\ c = f.clust - b.n_frag + 1 /\ x = IF b.n_frag > 1 THEN c + 1 ELSE EOC
                                  /\ b2 = [b EXCEPT !.n_frag = b.n_frag - 1]
  OBVIOUS
<1>2. /\ call.pc = "first" /\ ExFat /\ O.n_frag > 0 /\ call' = call /\ O.stat # 3
      /\ UNCHANGED <<fs_type, bitmap, entry, free_clst, last_clst, fsi_flag, file, pulls>>
      /\ \E R, sect : Modify(R, sect)
      /\ call.pc # "idle" /\ call.pc \in Seeking \union {"first"} /\ call.pc \notin Next1 /\ call.pc \notin Handing
  BY DEF FillForSync, FillLast, counts, bounds, Seeking, Next1, Handing, FirstDone
<1>3. /\ s \in Slots /\ q \in Seq(Clusters) /\ Alone(q) /\ b \in ObjSet /\ f \in FileSet /\ Types /\ call \in CallSet
      /\ O = b /\ F = f /\ SyncOK /\ fat \in [Clusters -> Link]
  BY <1>1, <1>2, CallHas DEF Types
<1>4. Held(fat, b, f, q) /\ r = <<>> /\ f.open
  BY <1>1, <1>2, OpenHas
<1>5. f.modified /\ call.op \in {"create", "close"} /\ call.ncl = 0
  <2>1. call.ncl \in Nat \/ call.ncl \in Cluster0
    BY <1>3 DEF CallSet
  <2>2. call.ncl \in Nat
    BY <2>1, Nums
  <2> QED
    BY <1>2, <1>3, <2>2 DEF SyncOK
<1>6. fat' = [fat EXCEPT ![c] = x] /\ obj' = [obj EXCEPT ![s] = b2]
  BY <1>1, <1>3 DEF FillForSync, FillLast, SetObj
<1>7. /\ Held(fat', b2, f, q) /\ b2 \in ObjSet
      /\ b2.sclust = b.sclust /\ b2.objsize = b.objsize /\ b2.stat = b.stat /\ b2.n_frag = b.n_frag - 1
      /\ c \in Elems(q) /\ x \in Link
  <2>1. Filling(fat, b, f, c, x, fat', b2)
    BY <1>1, <1>2, <1>3, <1>6 DEF Filling
  <2> QED
    BY <1>3, <1>4, <2>1, FillHeld
<1>9. call' \in CallSet /\ call'.s = s /\ call'.op = call.op /\ call'.pc = "first" /\ call'.ncl = 0
  BY <1>1, <1>2, <1>3, <1>5
<1>10. obj'[s] = b2 /\ b2.sclust = obj[s].sclust /\ b2.objsize = obj[s].objsize
  BY <1>1, <1>3, <1>6, <1>7 DEF Types
<1>11. CallOK(o, r)'
  <2>1. F' = f /\ 0 .. call'.ncl - 1 = {} /\ ~(call'.ncl > 0)
    BY <1>1, <1>2, <1>9 DEF F
  <2> QED
    BY <1>3, <1>4, <1>5, <1>9, <2>1, FirstCallOK
<1>20. FillsOwn(o, s, c, x, b2)
  BY <1>1, <1>2, <1>4, <1>5, <1>6, <1>7, <1>9, <1>10 DEF FillsOwn
<1> QED
  BY <1>1, <1>7, <1>11, <1>20, FillOwn

\* fill_first_frag: entry k of the first run.
FillingFirst(m, b, k, c, m2) ==
    /\ b.stat = 3 /\ k \in Nat /\ k < b.n_cont /\ c = b.sclust + k
    /\ \A i \in 0 .. k - 1 : m[b.sclust + i] = b.sclust + i + 1
    /\ m2 = [m EXCEPT ![c] = c + 1]
FilledTo(b, k, m) == \A i \in 0 .. k : m[b.sclust + i] = b.sclust + i + 1

LEMMA NextTwo == \A x, y \in Nat : x + (y + 1) - 1 = x + y /\ x + (y + 2) - 1 = (x + y) + 1
  OBVIOUS

\* And fill_first_frag.
LEMMA FirstHeld ==
    ASSUME NEW m \in [Clusters -> Link], NEW b \in ObjSet, NEW f \in FileSet, NEW q \in Seq(Clusters), Alone(q), Held(m, b, f, q),
           NEW k, NEW c, NEW m2, FillingFirst(m, b, k, c, m2)
    PROVE  Held(m2, b, f, q) /\ c \in Elems(q) /\ m2 \in [Clusters -> Link] /\ FilledTo(b, k, m2)
<1> USE DEF FillingFirst, FilledTo
<1>1. /\ b.n_cont \in Nat /\ b.n_frag \in Nat /\ b.sclust \in Cluster0 /\ f.fptr \in Nat /\ Len(q) \in Nat
      /\ b.n_cont < Len(q) /\ Followed(m, b, q) /\ FirstRun(b) = b.n_cont /\ b.sclust \in Nat
  BY Nums DEF ObjSet, FileSet, Held, FirstRun
<1>2. \A i \in 1 .. Len(q) : i <= b.n_cont + 1 => q[i] = b.sclust + i - 1
  BY <1>1 DEF Followed
<1>3. k + 1 \in 1 .. Len(q) /\ k + 2 \in 1 .. Len(q) /\ q[k + 1] = c /\ q[k + 2] = c + 1
  <2>1. k + 1 \in 1 .. Len(q) /\ k + 2 \in 1 .. Len(q) /\ k + 1 <= b.n_cont + 1 /\ k + 2 <= b.n_cont + 1
    BY <1>1
  <2>2. q[k + 1] = b.sclust + (k + 1) - 1 /\ q[k + 2] = b.sclust + (k + 2) - 1
    BY <1>2, <2>1
  <2>3. b.sclust \in Nat /\ k \in Nat /\ c = b.sclust + k
    BY <1>1, Zenon
  <2>4. b.sclust + (k + 1) - 1 = b.sclust + k /\ b.sclust + (k + 2) - 1 = (b.sclust + k) + 1
    BY <2>3, NextTwo, Zenon
  <2>5. q[k + 1] = c /\ q[k + 2] = c + 1
    BY <2>2, <2>3, <2>4, Zenon
  <2> QED
    BY <2>1, <2>5, Zenon
<1>4. c \in Clusters /\ c + 1 \in Clusters
  BY <1>3
<1>5. m2 \in [Clusters -> Link] /\ m2[c] = c + 1
  BY <1>4 DEF Link
<1>6. \A i \in 1 .. Len(q) : i > b.n_cont => m2[q[i]] = m[q[i]]
  <2>1. \A i \in 1 .. Len(q) : i > b.n_cont => q[i] # c
    BY <1>1, <1>3, SMTT(40) DEF Alone
  <2> QED
    BY <1>4, <2>1
<1>7. Followed(m2, b, q)
  BY <1>1, <1>6 DEF Followed
<1>8. b.n_frag = 0 => m2[q[Len(q)]] = EOC
  <2>1. Len(q) \in 1 .. Len(q) /\ Len(q) > b.n_cont /\ q # <<>>
    BY <1>1
  <2> QED
    BY <1>6, <2>1 DEF Held
<1>9. \A i \in 0 .. k : m2[b.sclust + i] = b.sclust + i + 1
  <2> TAKE i \in 0 .. k
  <2>1. CASE i = k
    BY <1>5, <2>1
  <2>2. CASE i # k
    <3>1. i \in 0 .. k - 1 /\ b.sclust + i # c
      BY <1>1, <2>2
    <3>2. i + 1 \in 1 .. Len(q) /\ i + 1 <= b.n_cont + 1 /\ q[i + 1] = b.sclust + i
      <4>1. i + 1 \in 1 .. Len(q) /\ i + 1 <= b.n_cont + 1
        BY <1>1
      <4>2. q[i + 1] = b.sclust + (i + 1) - 1
        BY <1>2, <4>1
      <4> QED
        BY <1>1, <4>1, <4>2
    <3> QED
      BY <1>4, <3>1, <3>2
  <2> QED
    BY <2>1, <2>2
<1> QED
  BY <1>3, <1>5, <1>7, <1>8, <1>9 DEF Held, Elems

\* Once the first run is on the FAT, it is only linked.
LEMMA FirstFilled ==
    ASSUME NEW m, NEW b \in ObjSet, NEW f \in FileSet, NEW q \in Seq(Clusters), Alone(q), Held(m, b, f, q),
           b.stat = 3, \A i \in 0 .. b.n_cont - 1 : m[b.sclust + i] = b.sclust + i + 1,
           NEW b2, b2 = [b EXCEPT !.stat = 0]
    PROVE  /\ Held(m, b2, f, q) /\ b2 \in ObjSet
           /\ b2.sclust = b.sclust /\ b2.objsize = b.objsize /\ b2.stat = 0 /\ b2.n_cont = b.n_cont /\ b2.n_frag = b.n_frag
<1>1. /\ b.n_cont \in Nat /\ b.n_frag \in Nat /\ b.sclust \in Cluster0 /\ f.fptr \in Nat /\ Len(q) \in Nat
      /\ b.n_cont < Len(q) /\ Followed(m, b, q) /\ FirstRun(b) = b.n_cont /\ b.sclust \in Nat
  BY Nums DEF ObjSet, FileSet, Held, FirstRun
<1>2. /\ b2 \in ObjSet /\ b2.sclust = b.sclust /\ b2.objsize = b.objsize /\ b2.stat = 0 /\ b2.n_cont = b.n_cont
      /\ b2.n_frag = b.n_frag
  BY DEF ObjSet
<1>3. FirstRun(b2) = 0
  BY <1>2 DEF FirstRun
<1>4. \A i \in 1 .. Len(q) : i <= b.n_cont + 1 => q[i] = b.sclust + i - 1
  BY <1>1 DEF Followed
<1>5. ASSUME NEW i \in 1 .. Len(q) - 1, i <= Len(q) - b.n_frag PROVE m[q[i]] = q[i + 1]
  <2>1. CASE i <= b.n_cont
    <3>1. q[i] = b.sclust + (i - 1) /\ q[i + 1] = b.sclust + i /\ i - 1 \in 0 .. b.n_cont - 1
      <4>1. i \in 1 .. Len(q) /\ i + 1 \in 1 .. Len(q) /\ i <= b.n_cont + 1 /\ i + 1 <= b.n_cont + 1
        BY <1>1, <2>1
      <4> QED
        <5>1. q[i] = b.sclust + i - 1 /\ q[i + 1] = b.sclust + (i + 1) - 1
          BY <1>4, <4>1
        <5> QED
          BY <1>1, <2>1, <5>1, SMTT(40)
    <3>2. m[b.sclust + (i - 1)] = b.sclust + (i - 1) + 1
      BY <3>1
    <3>3. PICK a, y, z : a = b.sclust /\ y = q[i] /\ z = q[i + 1]
      OBVIOUS
    <3>4. a \in Nat /\ i \in Nat /\ y = a + i - 1 /\ z = a + i
      BY <1>1, <3>1, <3>3
    <3>5. y = a + (i - 1) /\ z = a + (i - 1) + 1
      BY <3>4
    <3>6. m[y] = z
      BY <3>2, <3>3, <3>5
    <3> QED
      BY <3>3, <3>6
  <2>2. CASE ~(i <= b.n_cont)
    BY <1>1, <1>5, <2>2 DEF Followed
  <2> QED
    BY <2>1, <2>2
<1>6. Followed(m, b2, q)
  <2>1. \A i \in 1 .. Len(q) : i <= 0 + 1 => q[i] = b2.sclust + i - 1
    BY <1>1, <1>2, <1>4
  <2> QED
    BY <1>2, <1>3, <1>5, <2>1 DEF Followed
<1> QED
  BY <1>2, <1>6 DEF Held

\* FillFirst keeps the invariant.
LEMMA StepFillFirst ==
    ASSUME NEW o, NEW r, IInv(o, r), LagInv, FillFirst PROVE Kept1(o, r)
<1>1. PICK s, q, b, f, k, b2 : /\ s = call.s /\ q = o[s] /\ b = obj[s] /\ f = file[s] /\ k = call.ncl
                               /\ b2 = [b EXCEPT !.stat = 0]
  OBVIOUS
<1>2. /\ call.pc = "first" /\ ExFat /\ O.stat = 3
      /\ UNCHANGED <<fs_type, bitmap, entry, free_clst, last_clst, fsi_flag, file, pulls>>
      /\ call.pc # "idle" /\ call.pc \in Seeking \union {"first"} /\ call.pc \notin Next1 /\ call.pc \notin Handing
  BY DEF FillFirst, counts, bounds, Seeking, Next1, Handing, FirstDone
<1>3. /\ s \in Slots /\ q \in Seq(Clusters) /\ Alone(q) /\ SlotInv(s, q) /\ b \in ObjSet /\ f \in FileSet /\ Types /\ call \in CallSet
      /\ O = b /\ F = f /\ SyncOK /\ fat \in [Clusters -> Link] /\ obj \in [Slots -> ObjSet] /\ file \in [Slots -> FileSet]
  BY <1>1, <1>2, CallHas DEF Types
<1>4. Held(fat, b, f, q) /\ r = <<>> /\ f.open /\ entry[s].used /\ call.op # "rename" /\ call.pc # "erase" /\ f.fptr <= b.objsize
      /\ (b.sclust # 0 => b.objsize > 0 \/ f.fptr > 0)
  BY <1>1, <1>2, OpenHas
<1>5. /\ f.modified /\ call.op \in {"create", "close"} /\ k \in Nat /\ (k > 0 => k < b.n_cont) /\ b.n_cont \in Nat
      /\ \A i \in 0 .. k - 1 : fat[b.sclust + i] = b.sclust + i + 1
  <2>1. call.ncl \in Nat
    BY <1>3, Nums DEF CallSet
  <2> QED
    BY <1>1, <1>2, <1>3, <2>1 DEF SyncOK, ObjSet
<1>6. CASE b.n_cont = 0
  <2>1. obj' = [obj EXCEPT ![s] = b2] /\ UNCHANGED <<fat, win, disk, call>>
    BY <1>1, <1>3, <1>6 DEF FillFirst, SetObj
  <2>2. /\ Held(fat, b2, f, q) /\ b2 \in ObjSet
        /\ b2.sclust = b.sclust /\ b2.objsize = b.objsize /\ b2.stat = 0 /\ b2.n_cont = b.n_cont /\ b2.n_frag = b.n_frag
    <3>1. \A i \in 0 .. b.n_cont - 1 : fat[b.sclust + i] = b.sclust + i + 1
      BY <1>6
    <3> QED
      BY <1>1, <1>2, <1>3, <1>4, <3>1, FirstFilled
  <2>3. obj'[s] = b2 /\ file'[s] = f /\ file' = [file EXCEPT ![s] = f]
    BY <1>1, <1>2, <1>3, <2>1
  <2>4. call' \in CallSet /\ call'.s = s /\ call'.op = call.op /\ call'.pc = "first" /\ call'.ncl = 0
    BY <1>1, <1>2, <1>3, <1>5, <1>6, <2>1
  <2>5. SlotInv(s, q)'
    <3>1. ~Removing(s)'
      BY <2>4 DEF Removing
    <3>2. Plain(b2)
      BY <1>2 DEF Plain
    <3>3. SlotOK(s, q)'
      BY <1>2, <1>4, <1>5, <2>1, <2>2, <2>3, <3>1, <3>2, OpenSlot
    <3>4. ~Settled(s)' /\ ~Quiet(s)'
      BY <1>2, <1>4, <1>5, <2>3 DEF Settled, Quiet, ExFat
    <3> QED
      BY <3>3, <3>4 DEF SlotInv, Kept, OnDisk
  <2>6. DiskMoves /\ DiskStays
    BY <1>3, <2>1, StaysMoves DEF DiskStays
  <2>7. CallOK(o, r)'
    <3>1. F' = f /\ 0 .. call'.ncl - 1 = {} /\ ~(call'.ncl > 0)
      BY <1>1, <1>2, <2>3, <2>4 DEF F
    <3> QED
      BY <1>3, <1>4, <1>5, <2>4, <3>1, FirstCallOK
  <2>8. Torn => Torn'
    BY <1>2, <2>1 DEF Torn, ExFat
  <2>9. call'.pc \notin Handing /\ call'.pc # "erase" /\ call'.op # "rename"
    BY <1>4, <2>4 DEF Handing
  <2> QED
    BY <1>1, <1>2, <1>3, <1>4, <2>1, <2>2, <2>3, <2>4, <2>5, <2>6, <2>7, <2>8, <2>9, CalmOwn
<1>7. CASE b.n_cont # 0
  <2>1. PICK c, x : c = b.sclust + k /\ x = c + 1
    OBVIOUS
  <2>2. k < b.n_cont
    BY <1>5, <1>7
  <2>3. /\ fat' = [fat EXCEPT ![c] = x] /\ \E R, sect : Modify(R, sect)
        /\ IF k + 1 < b.n_cont THEN call' = [call EXCEPT !.ncl = k + 1] /\ UNCHANGED obj
           ELSE call' = [call EXCEPT !.ncl = 0] /\ obj' = [obj EXCEPT ![s] = b2]
    <3>1. fat' = [fat EXCEPT ![O.sclust + call.ncl] = O.sclust + call.ncl + 1] /\ \E R, sect : Modify(R, sect)
      BY <1>3, <1>7 DEF FillFirst
    <3>2. IF k + 1 < b.n_cont THEN call' = [call EXCEPT !.ncl = k + 1] /\ UNCHANGED obj
          ELSE call' = [call EXCEPT !.ncl = 0] /\ obj' = [obj EXCEPT ![s] = b2]
      BY <1>1, <1>3, <1>7 DEF FillFirst, SetObj
    <3> QED
      BY <1>1, <1>3, <2>1, <3>1, <3>2
  <2>4. /\ Held(fat', b, f, q) /\ c \in Elems(q) /\ fat' \in [Clusters -> Link]
        /\ \A i \in 0 .. k : fat'[b.sclust + i] = b.sclust + i + 1
    <3>1. FillingFirst(fat, b, k, c, fat')
      BY <1>2, <1>3, <1>5, <2>1, <2>2, <2>3 DEF FillingFirst
    <3>2. Held(fat', b, f, q) /\ c \in Elems(q) /\ fat' \in [Clusters -> Link] /\ FilledTo(b, k, fat')
      BY <1>3, <1>4, <3>1, FirstHeld
    <3> QED
      BY <3>2 DEF FilledTo
  <2>5. x \in Link
    <3>1. c \in Clusters
      BY <1>3, <2>4 DEF Elems
    <3> QED
      BY <1>3, <2>3, <2>4, <3>1
  <2>6. CASE k + 1 < b.n_cont
    <3>1. call' = [call EXCEPT !.ncl = k + 1] /\ obj' = [obj EXCEPT ![s] = b]
      BY <1>1, <1>3, <2>3, <2>6
    <3>2. call' \in CallSet /\ call'.s = s /\ call'.op = call.op /\ call'.pc = "first" /\ call'.ncl = k + 1
      <4>1. k + 1 \in Nat
        BY <1>5
      <4> QED
        BY <1>1, <1>2, <1>3, <3>1, <4>1 DEF CallSet
    <3>3. obj'[s] = b
      BY <1>3, <3>1
    <3>4. FillsOwn(o, s, c, x, b)
      BY <1>1, <1>2, <1>5, <2>3, <2>4, <3>1, <3>2 DEF FillsOwn
    <3>5. CallOK(o, r)'
      <4>1. F' = f /\ O' = b
        BY <1>1, <1>2, <3>2, <3>3 DEF F, O
      <4>2. k + 1 - 1 = k
        BY <1>5
      <4>3. \A i \in 0 .. k + 1 - 1 : fat'[b.sclust + i] = b.sclust + i + 1
        BY <2>4, <4>2
      <4> QED
        BY <1>2, <1>3, <1>4, <1>5, <2>6, <3>2, <4>1, <4>3, FirstCallOK
    <3> QED
      BY <1>1, <1>3, <2>4, <2>5, <3>4, <3>5, FillOwn
  <2>7. CASE ~(k + 1 < b.n_cont)
    <3>1. call' = [call EXCEPT !.ncl = 0] /\ obj' = [obj EXCEPT ![s] = b2]
      BY <2>3, <2>7
    <3>2. call' \in CallSet /\ call'.s = s /\ call'.op = call.op /\ call'.pc = "first" /\ call'.ncl = 0
      BY <1>1, <1>2, <1>3, <3>1 DEF CallSet
    <3>3. /\ Held(fat', b2, f, q) /\ b2 \in ObjSet
          /\ b2.sclust = b.sclust /\ b2.objsize = b.objsize /\ b2.stat = 0 /\ b2.n_cont = b.n_cont /\ b2.n_frag = b.n_frag
      <4>1. b.n_cont - 1 = k
        BY <1>5, <2>2, <2>7
      <4>2. \A i \in 0 .. b.n_cont - 1 : fat'[b.sclust + i] = b.sclust + i + 1
        BY <2>4, <4>1
      <4> QED
        BY <1>1, <1>2, <1>3, <2>4, <4>2, FirstFilled
    <3>4. FillsOwn(o, s, c, x, b2)
      BY <1>1, <1>2, <1>5, <2>3, <3>1, <3>2, <3>3 DEF FillsOwn
    <3>5. CallOK(o, r)'
      <4>1. F' = f /\ 0 .. call'.ncl - 1 = {} /\ ~(call'.ncl > 0)
        BY <1>1, <1>2, <3>2 DEF F
      <4> QED
        BY <1>3, <1>4, <1>5, <3>2, <4>1, FirstCallOK
    <3> QED
      BY <1>1, <2>4, <2>5, <3>3, <3>4, <3>5, FillOwn
  <2> QED
    BY <2>6, <2>7
<1> QED
  BY <1>6, <1>7

\* What a file holds is what its entry will say.
LEMMA HeldLaid ==
    ASSUME NEW m, NEW b \in ObjSet, NEW f \in FileSet, NEW q \in Seq(Clusters), Held(m, b, f, q), b.n_frag = 0, b.stat # 3,
           f.fptr <= b.objsize, NEW e, e.sclust = b.sclust, e.size = b.objsize, e.stat = b.stat
    PROVE  Laid(m, e, q)
<1>1. f.fptr \in Nat /\ b.objsize \in Nat /\ b.stat \in {0, 2, 3} /\ b.n_cont \in Nat /\ Len(q) \in Nat
  BY DEF ObjSet, FileSet
<1>2. (e.sclust = 0 <=> q = <<>>) /\ (q # <<>> => q[1] = e.sclust /\ Len(q) >= e.size)
  BY <1>1 DEF Held
<1>3. e.stat = 2 => q = Contig(e.sclust, e.size)
  BY <1>1 DEF Held, BoundedMax
<1>4. e.stat # 2 /\ q # <<>> => Linked(m, q)
  <2> SUFFICES ASSUME e.stat # 2, q # <<>>, NEW i \in 1 .. Len(q) PROVE m[q[i]] = IF i < Len(q) THEN q[i + 1] ELSE EOC
    BY DEF Linked
  <2>1. Followed(m, b, q) /\ m[q[Len(q)]] = EOC /\ FirstRun(b) = 0
    BY <1>1 DEF Held, FirstRun
  <2>2. i < Len(q) => i \in 1 .. Len(q) - 1 /\ i > 0 /\ i <= Len(q) - b.n_frag
    BY <1>1
  <2> QED
    BY <2>1, <2>2 DEF Followed
<1> QED
  BY <1>2, <1>3, <1>4 DEF Laid

\* WriteEntry keeps the invariant.
LEMMA StepWriteEntry ==
    ASSUME NEW o, NEW r, IInv(o, r), LagInv, WriteEntry PROVE Kept1(o, r)
<1>1. PICK s, q, b, f, e : /\ s = call.s /\ q = o[s] /\ b = obj[s] /\ f = file[s]
                           /\ e = [used |-> TRUE, sclust |-> b.sclust, size |-> b.objsize, stat |-> IF b.stat \in {2, 3} THEN 2 ELSE 0]
  OBVIOUS
<1>2. /\ call.pc = "first" /\ FirstDone(O) /\ ~(ExFat /\ O.n_frag > 0) /\ call' = [call EXCEPT !.pc = "sync"]
      /\ UNCHANGED <<fs_type, fat, bitmap, free_clst, last_clst, fsi_flag, obj, file, pulls>>
      /\ \E R, sect : Modify(R, sect)
      /\ call.pc # "idle" /\ call.pc \in Seeking \union {"first"} /\ call.pc \notin Next1 /\ call.pc \notin Handing
      /\ "sync" \in Pcs
  BY DEF WriteEntry, counts, bounds, Seeking, Next1, Handing, Goto, Pcs
<1>3. /\ s \in Slots /\ q \in Seq(Clusters) /\ Alone(q) /\ SlotInv(s, q) /\ b \in ObjSet /\ f \in FileSet /\ Types /\ call \in CallSet
      /\ O = b /\ F = f /\ SyncOK /\ entry \in [Slots -> EntrySet]
  BY <1>1, <1>2, CallHas DEF Types
<1>4. /\ f.open /\ entry[s].used /\ Plain(b) /\ Held(fat, b, f, q) /\ r = <<>> /\ call.op # "rename" /\ call.pc # "erase"
      /\ f.cut => f.modified
      /\ f.fptr <= b.objsize
      /\ b.sclust # 0 => b.objsize > 0 \/ f.fptr > 0
      /\ ~ExFat => b.stat = 0 /\ b.n_frag = 0
  BY <1>1, <1>2, OpenHas
<1>5. f.fptr \in Nat /\ b.objsize \in Nat /\ b.n_frag \in Nat /\ b.stat \in {0, 2, 3} /\ b.sclust \in Cluster0 /\ call.ncl \in Nat
  BY <1>3, Nums DEF ObjSet, FileSet, CallSet
<1>6. b.n_frag = 0 /\ b.stat # 3
  BY <1>2, <1>3, <1>4, <1>5 DEF FirstDone
<1>7. f.modified /\ call.op \in {"create", "close"} /\ call.ncl = 0
  BY <1>2, <1>3, <1>5, <1>6 DEF SyncOK
<1>8. /\ entry' = [entry EXCEPT ![s] = e] /\ e.used /\ e.sclust = b.sclust /\ e.size = b.objsize /\ e.stat = b.stat
      /\ e = [used |-> TRUE, sclust |-> b.sclust, size |-> b.objsize, stat |-> b.stat]
  BY <1>1, <1>3, <1>5, <1>6 DEF WriteEntry
<1>9. e \in EntrySet
  <2>1. b.sclust = 0 => b.objsize = 0
    BY <1>4, <1>5 DEF Held
  <2>2. b.objsize = 0 => b.sclust = 0
    BY <1>4, <1>5
  <2> QED
    BY <1>4, <1>5, <1>6, <1>8, <2>1, <2>2 DEF EntrySet
<1>10. entry'[s] = e /\ entry' \in [Slots -> EntrySet] /\ \A t \in Slots : t # s => entry'[t] = entry[t]
  BY <1>3, <1>8, <1>9
<1>11. Laid(fat, e, q)
  BY <1>3, <1>4, <1>6, <1>8, HeldLaid
<1>12. /\ call' \in CallSet /\ call'.pc = "sync" /\ call'.op = call.op /\ call'.s = s /\ call'.ncl = 0
  BY <1>1, <1>2, <1>3, <1>7, CallGoes
<1>13. DiskMoves
  BY <1>2, <1>3, ModifyMoves
<1>14. SlotInv(s, q)'
  <2>1. SlotOK(s, q)'
    <3>1. ~Removing(s)'
      BY <1>12 DEF Removing
    <3>2. obj'[s] = b /\ file'[s] = f /\ entry'[s].used /\ ~(b.n_frag > 0)
      BY <1>1, <1>2, <1>6, <1>8, <1>10
    <3> QED
      BY <1>2, <1>4, <3>1, <3>2, OpenSlot
  <2>2. Kept(s, q)'
    <3>1. Laid(fat, e, IF e.sclust = 0 THEN <<>> ELSE q)
      BY <1>11 DEF Laid
    <3> QED
      BY <1>2, <1>10, <3>1 DEF Kept
  <2>3. ~Quiet(s)'
    BY <1>1, <1>2, <1>4, <1>7 DEF Quiet
  <2> QED
    BY <2>1, <2>2, <2>3 DEF SlotInv, OnDisk
<1>15. \A t \in Slots : SlotInv(t, o[t])'
  BY <1>1, <1>2, <1>3, <1>4, <1>10, <1>12, <1>13, <1>14, AgreeSame, SlotsStep
<1>16. Types'
  BY <1>2, <1>3, <1>10, <1>12, <1>13, TypesStep DEF Types
<1>17. CallOK(o, r)'
  <2>1. F' = f /\ O' = b
    BY <1>1, <1>2, <1>12 DEF F, O
  <2>2. SyncOK'
    BY <1>4, <1>6, <1>7, <1>8, <1>10, <1>12, <2>1 DEF SyncOK
  <2>3. SeekOK(q)' /\ LinkOK(o)' /\ RemoveOK(o, r)'
    BY <1>12 DEF SeekOK, LinkOK, RemoveOK, Seeking, Next1
  <2> QED
    BY <1>1, <1>3, <1>4, <1>12, <2>2, <2>3 DEF CallOK
<1>18. Torn => Torn'
  BY <1>2, <1>12 DEF Torn, ExFat
<1>19. Unstretched
  BY <1>2, OthersUnstretched
<1>20. call'.pc \notin Handing
  BY <1>12 DEF Handing
<1> QED
  BY <1>2, <1>13, <1>15, <1>16, <1>17, <1>18, <1>19, <1>20, CalmStep

\* f_sync ends: the slots of which the file stays as it was.
LEMMA SyncSlot ==
    ASSUME NEW o, NEW r, IInv(o, r), Sync, DiskCatches, NEW t \in Slots, file'[t] = file[t], obj'[t] = obj[t]
    PROVE  SlotInv(t, o[t])'
<1>1. /\ call.pc = "sync" /\ call.pc # "idle" /\ call' = Idle /\ UNCHANGED <<fs_type, fat, entry>> /\ call.pc # "erase"
      /\ call.pc \notin Next1 /\ call.pc # "fill_link" /\ ~Removing(t) /\ call'.pc = "idle" /\ call'.op = "none"
  BY DEF Sync, volume, Next1, Removing, Idle
<1>2. SlotInv(t, o[t]) /\ SyncOK /\ call.s \in Slots
  BY <1>1, SlotHas, CallHas
<1>3. SlotOK(t, o[t])'
  <2>1. CASE file[t].open
    <3>1. OpenOK(t, o[t])
      BY <1>2, <2>1 DEF SlotInv, SlotOK
    <3>2. ~Removing(t)'
      BY <1>1 DEF Removing
    <3>3. OpenOK(t, o[t])'
      BY <1>1, <3>1, <3>2 DEF OpenOK, ExFat
    <3> QED
      BY <2>1, <3>3 DEF SlotOK
  <2>2. CASE ~file[t].open
    BY <1>1, <1>2, <2>2 DEF SlotInv, SlotOK
  <2> QED
    BY <2>1, <2>2
<1>4. Kept(t, o[t])'
  BY <1>1, <1>2 DEF SlotInv, Kept, Settled, ExFat
<1>5. OnDisk(t, o[t])'
  <2>1. ASSUME Quiet(t)', file[t].open PROVE Quiet(t)
    BY <1>1, <1>2, <2>1 DEF Quiet, SyncOK
  <2>2. Quiet(t)' /\ file[t].open => entry[t].sclust = obj[t].sclust
    BY <1>2, <2>1 DEF SlotInv, OnDisk
  <2> QED
    BY <1>1, <2>2 DEF OnDisk, DiskCatches
<1> QED
  BY <1>3, <1>4, <1>5 DEF SlotInv

\* Sync keeps the invariant.
LEMMA StepSync ==
    ASSUME NEW o, NEW r, IInv(o, r), LagInv, Sync PROVE Kept1(o, r)
<1>1. PICK s, q, b, f, e : s = call.s /\ q = o[s] /\ b = obj[s] /\ f = file[s] /\ e = entry[s]
  OBVIOUS
<1>2. /\ call.pc = "sync" /\ call' = Idle /\ SyncFs /\ call.pc # "erase"
      /\ UNCHANGED <<fs_type, fat, bitmap, entry, pulls, free_clst, last_clst>>
      /\ call.pc # "idle" /\ call.pc \notin Next1 /\ call.pc \notin Handing
  BY DEF Sync, SyncFs, volume, counts, bounds, Next1, Handing
<1>3. /\ s \in Slots /\ q \in Seq(Clusters) /\ Alone(q) /\ SlotInv(s, q) /\ b \in ObjSet /\ f \in FileSet /\ e \in EntrySet
      /\ Types /\ O = b /\ F = f /\ SyncOK /\ r = <<>>
      /\ obj \in [Slots -> ObjSet] /\ file \in [Slots -> FileSet] /\ Idle \in CallSet
  <2>1. Idle \in CallSet
    BY DEF Idle, CallSet, Ops, Pcs, Cluster0
  <2> QED
    BY <1>1, <1>2, <2>1, CallHas
<1>4. DiskCatches /\ DiskMoves /\ fsi_flag' \in BOOLEAN
  <2>1. fsi_flag' \in BOOLEAN
    BY <1>2, <1>3 DEF SyncFs, Types, counts
  <2> QED
    BY <1>2, <1>3, <2>1, SyncMoves
<1>5. PICK closing : closing = (call.op \in {"create", "close"})
  OBVIOUS
<1>6. /\ closing => file' = [file EXCEPT ![s] = NoFile] /\ obj' = [obj EXCEPT ![s] = NoObj]
      /\ ~closing => UNCHANGED <<file, obj>>
  BY <1>1, <1>5 DEF Sync
<1>7. NoFile \in FileSet /\ ~NoFile.open /\ NoObj \in ObjSet
  BY DEF FileSet, NoFile, Cluster0, ObjSet, NoObj
<1>8. /\ obj' \in [Slots -> ObjSet] /\ file' \in [Slots -> FileSet]
      /\ \A t \in Slots : t # s \/ ~closing => file'[t] = file[t] /\ obj'[t] = obj[t]
      /\ closing => file'[s] = NoFile
  BY <1>3, <1>6, <1>7
<1>9. closing => Laid(fat, e, q) /\ f.open
  <2> SUFFICES ASSUME closing PROVE Laid(fat, e, q) /\ f.open
    OBVIOUS
  <2>1. /\ f.open /\ b.n_frag = 0 /\ b.stat # 3
        /\ e = [used |-> TRUE, sclust |-> b.sclust, size |-> b.objsize, stat |-> b.stat]
    BY <1>1, <1>2, <1>3, <1>5 DEF SyncOK
  <2>2. OpenOK(s, q) /\ ~Removing(s)
    BY <1>1, <1>2, <1>3, <2>1 DEF SlotInv, SlotOK, Removing
  <2>3. Held(fat, b, f, q) /\ f.fptr <= b.objsize
    BY <1>1, <1>2, <2>2 DEF OpenOK
  <2> QED
    BY <1>3, <2>1, <2>3, HeldLaid
<1>10. closing => Laid(fat, e, IF e.sclust = 0 THEN <<>> ELSE q)
  BY <1>9 DEF Laid
<1>11. ASSUME closing PROVE SlotInv(s, q)'
  <2>1. SlotOK(s, q)'
    <3>1. call'.pc # "erase"
      BY <1>2 DEF Idle
    <3> QED
      BY <1>1, <1>2, <1>7, <1>8, <1>9, <1>11, <3>1 DEF SlotOK
  <2>2. Kept(s, q)'
    BY <1>1, <1>2, <1>10, <1>11 DEF Kept
  <2>3. OnDisk(s, q)'
    BY <1>1, <1>2, <1>4, <1>7, <1>8, <1>11 DEF OnDisk, DiskCatches
  <2> QED
    BY <2>1, <2>2, <2>3 DEF SlotInv
<1>12. \A t \in Slots : SlotInv(t, o[t])'
  BY <1>1, <1>4, <1>8, <1>11, SyncSlot
<1>13. Types'
  BY <1>2, <1>3, <1>4, <1>8, TypesStep DEF Types
<1>14. CallOK(o, r)'
  BY <1>2, <1>3, IdleCall
<1>15. SameUse
  BY <1>2, SameUseBy
<1>16. ChainsOK(o, r)'
  BY <1>15, ChainsStay DEF IInv, SameUse
<1>17. Limbo(r) = {} /\ Pending = 0 /\ Pending' = 0
  BY <1>2 DEF Limbo, Pending, Handing, Idle
<1>18. Marks(o, r)' /\ Count'
  BY <1>2, <1>15, <1>17, MarksStay, CountStays DEF IInv
<1>19. DiskSound'
  <2> SUFFICES ASSUME ~Torn' PROVE Sound(disk)'
    BY DEF DiskSound
  <2>1. ASSUME NEW t \in Slots PROVE Laid(fat, entry[t], IF entry[t].sclust = 0 THEN <<>> ELSE o[t])
    <3>1. CASE t = s /\ closing
      BY <1>1, <1>10, <3>1
    <3>2. CASE ~(t = s /\ closing)
      <4>1. file'[t] = file[t]
        BY <1>8, <3>2
      <4>2. ~file[t].cut /\ (ExFat => ~file[t].modified)
        BY <1>2, <4>1 DEF Torn, ExFat
      <4>3. ExFat /\ file[t].open => file[t].fptr <= obj[t].objsize
        BY <1>2, OthersUnstretched DEF Unstretched
      <4>4. Settled(t)
        BY <4>2, <4>3 DEF Settled
      <4> QED
        BY <1>2, <4>4 DEF IInv, Kept
    <3> QED
      BY <3>1, <3>2
  <2>2. LaidOut(o)
    BY <2>1 DEF LaidOut
  <2>3. PICK d : d = [fat |-> fat, bitmap |-> bitmap, entry |-> entry]
    OBVIOUS
  <2>4. Sound(d)
    BY <2>2, <2>3, LaidSound DEF IInv, Types
  <2> QED
    BY <1>2, <1>4, <2>3, <2>4, SoundPrimed DEF DiskCatches
<1>20. IInv(o, r)'
  BY <1>12, <1>13, <1>14, <1>16, <1>18, <1>19 DEF IInv, SlotInv
<1> QED
  BY <1>2, <1>20 DEF Kept1, Moves

\* The search of create_chain finds a cluster that is free.
LEMMA NearestFree ==
    ASSUME NEW scl \in 1 .. NClusters + 1, Nearest(scl) # 0 PROVE Nearest(scl) \in Clusters /\ ~InUse(Nearest(scl))
<1>1. PICK free : free = {c \in Clusters : ~InUse(c)} /\ free # {}
  BY DEF Nearest
<1>2. PICK n \in Nat : n = 2 * NClusters + 1
  BY Nums
<1>3. \A c \in Clusters : Distance(scl, c) \in Nat /\ Distance(scl, c) + 1 \in 1 .. n
  BY <1>2, Nums DEF Distance
<1>4. PICK S : S = {Distance(scl, c) + 1 : c \in free}
  OBVIOUS
<1>5. S # {} /\ S \in SUBSET (1 .. n)
  BY <1>1, <1>3, <1>4
<1>6. PICK i \in S : \A j \in S : i <= j
  BY <1>5, LeastOf
<1>7. PICK c \in free : i = Distance(scl, c) + 1
  BY <1>4
<1>8. \A e \in free : Distance(scl, c) <= Distance(scl, e)
  <2> TAKE e \in free
  <2>1. Distance(scl, e) + 1 \in S
    BY <1>4
  <2>2. Distance(scl, c) + 1 <= Distance(scl, e) + 1
    BY <1>6, <1>7, <2>1
  <2>3. Distance(scl, c) \in Nat /\ Distance(scl, e) \in Nat
    BY <1>1, <1>3
  <2> QED
    BY <2>2, <2>3
<1>9. Nearest(scl) = CHOOSE x \in free : \A e \in free : Distance(scl, x) <= Distance(scl, e)
  BY <1>1, Zenon DEF Nearest
<1>10. Nearest(scl) \in free
  BY <1>8, <1>9, Zenon
<1> QED
  BY <1>1, <1>10

\* find_bitmap and the search of create_chain give a cluster that is free.
LEMMA FreeIs ==
    ASSUME Types, NEW clst \in Cluster0, FreeCluster(clst) # 0
    PROVE  FreeCluster(clst) \in Clusters /\ ~InUse(FreeCluster(clst))
<1>1. last_clst \in Clusters \union {Unknown}
  BY DEF Types
<1>2. CASE clst # 0 /\ ~ExFat /\ ~InUse(NextTo(clst))
  <2>1. NextTo(clst) \in Clusters
    BY Nums DEF NextTo
  <2> QED
    BY <1>2, <2>1 DEF FreeCluster
<1>3. CASE ~(clst # 0 /\ ~ExFat /\ ~InUse(NextTo(clst)))
  <2>1. Hint \in 1 .. NClusters + 1
    BY <1>1, Nums DEF Hint
  <2>2. SearchFrom(clst) \in 1 .. NClusters + 1
    BY <1>1, <2>1, Nums DEF SearchFrom, Cluster0
  <2>3. FreeCluster(clst) = Nearest(SearchFrom(clst))
    BY <1>3 DEF FreeCluster
  <2> QED
    BY <2>2, <2>3, NearestFree
<1> QED
  BY <1>2, <1>3

\* One cluster more is marked, or one less.
Others(c) == \A d \in Clusters : d # c => (InUse(d)' <=> InUse(d))

\* The free clusters are finitely many.
LEMMA FreeFinite == IsFiniteSet({c \in Clusters : ~InUse(c)}) /\ IsFiniteSet({c \in Clusters : ~InUse(c)'})
<1>1. IsFiniteSet(Clusters)
  BY Nums, FS_Interval
<1> QED
  BY <1>1, FS_Subset

\* The number of free clusters, after one is marked,
LEMMA MarkOne ==
    ASSUME NEW c \in Clusters, ~InUse(c), InUse(c)', Others(c) PROVE NFree' = NFree - 1 /\ NFree > 0
<1>1. PICK A, B : A = {d \in Clusters : ~InUse(d)} /\ B = {d \in Clusters : ~InUse(d)'}
  OBVIOUS
<1>2. B = A \ {c} /\ c \in A
  BY <1>1 DEF Others
<1>3. IsFiniteSet(A)
  BY <1>1, FreeFinite
<1>4. Cardinality(A) \in Nat /\ Cardinality(A) # 0
  BY <1>2, <1>3, FS_CardinalityType, FS_EmptySet
<1>5. Cardinality(B) = Cardinality(A) - 1
  BY <1>2, <1>3, FS_RemoveElement
<1>6. NFree = Cardinality(A) /\ NFree' = Cardinality(B)
  BY <1>1, Zenon DEF NFree
<1> QED
  BY <1>4, <1>5, <1>6

\* and after one is unmarked.
LEMMA UnmarkOne ==
    ASSUME NEW c \in Clusters, InUse(c), ~InUse(c)', Others(c) PROVE NFree' = NFree + 1
<1>1. PICK A, B : A = {d \in Clusters : ~InUse(d)} /\ B = {d \in Clusters : ~InUse(d)'}
  OBVIOUS
<1>2. A = B \ {c} /\ c \in B
  BY <1>1 DEF Others
<1>3. IsFiniteSet(A) /\ IsFiniteSet(B)
  BY <1>1, FreeFinite
<1>4. Cardinality(A) \in Nat /\ Cardinality(B) \in Nat
  BY <1>3, FS_CardinalityType
<1>5. Cardinality(A) = Cardinality(B) - 1
  BY <1>2, <1>3, FS_RemoveElement
<1>6. NFree = Cardinality(A) /\ NFree' = Cardinality(B)
  BY <1>1, Zenon DEF NFree
<1> QED
  BY <1>4, <1>5, <1>6

\* A cluster that is marked was in no chain.
LEMMA FreeApart ==
    ASSUME NEW o, NEW r, ChainsOK(o, r), NEW c \in Clusters, ~InUse(c)
    PROVE  /\ \A t \in Slots : c \notin Elems(o[t])
           /\ \A t \in Slots : \A i \in 1 .. Len(o[t]) : o[t][i] # c /\ o[t][i] \in Clusters
<1>1. \A t \in Slots : c \notin Elems(o[t]) /\ o[t] \in Seq(Clusters)
  BY DEF ChainsOK
<1> QED
  BY <1>1 DEF Elems

\* change_bitmap or put_fat marks that cluster and no other.
LEMMA MarkIs ==
    ASSUME Types, NEW c \in Clusters, ~InUse(c), Mark(c), fs_type' = fs_type
    PROVE  /\ fat' \in [Clusters -> Link] /\ bitmap' \in [Clusters -> BOOLEAN]
           /\ \A d \in Clusters : d # c => fat'[d] = fat[d]
           /\ InUse(c)' /\ Others(c) /\ (~ExFat => fat'[c] = EOC)
<1>1. CASE ExFat
  BY <1>1 DEF Mark, Types, InUse, Others, ExFat
<1>2. CASE ~ExFat
  <2>1. EOC \in Link /\ EOC # 0
    BY Nums DEF Link
  <2>2. fat' = [fat EXCEPT ![c] = EOC] /\ bitmap' = bitmap
    BY <1>2 DEF Mark
  <2> QED
    BY <1>2, <2>1, <2>2 DEF Types, InUse, Others, ExFat
<1> QED
  BY <1>1, <1>2

\* Take keeps the invariant.
LEMMA StepTake ==
    ASSUME NEW o, NEW r, IInv(o, r), LagInv, Take PROVE Kept1(o, r)
<1>1. PICK s, q, b, f, c : s = call.s /\ q = o[s] /\ b = obj[s] /\ f = file[s] /\ c = FreeCluster(f.clust)
  OBVIOUS
<1>2. /\ call.pc = "take" /\ free_clst # 0
      /\ UNCHANGED <<fs_type, entry, free_clst, last_clst, fsi_flag, obj, file, pulls>>
      /\ \E R, sect : Modify(R, sect)
      /\ call.pc # "idle" /\ call.pc \in Seeking \union {"first"} /\ call.pc \in Next1 /\ call.pc \notin Handing
      /\ "link" \in Pcs
  BY DEF Take, counts, bounds, Seeking, Next1, Handing, Pcs
<1>3. /\ s \in Slots /\ q \in Seq(Clusters) /\ SlotInv(s, q) /\ b \in ObjSet /\ f \in FileSet /\ Types /\ call \in CallSet
      /\ O = b /\ F = f /\ SeekOK(q) /\ call.ncl = 0
  BY <1>1, <1>2, CallHas
<1>4. /\ f.open /\ entry[s].used /\ Plain(b) /\ Held(fat, b, f, q) /\ r = <<>> /\ call.op # "rename" /\ call.pc # "erase"
      /\ f.cut => f.modified
      /\ b.sclust # 0 => b.objsize > 0 \/ f.fptr > 0
      /\ b.n_frag > 0 => f.modified \/ f.fptr > b.objsize
  BY <1>1, <1>2, OpenHas
<1>5. call' = [call EXCEPT !.pc = "link", !.ncl = c] /\ Mark(c) /\ c # 0
  BY <1>1, <1>3 DEF Take
<1>6. c \in Clusters /\ ~InUse(c) /\ c \in Nat
  <2>1. f.clust \in Cluster0
    BY <1>3 DEF FileSet
  <2> QED
    BY <1>1, <1>3, <1>5, <2>1, FreeIs, Nums
<1>7. /\ call' \in CallSet /\ call'.pc = "link" /\ call'.op = call.op /\ call'.s = s /\ call'.to = call.to /\ call'.ncl = c
  BY <1>1, <1>2, <1>3, <1>5, <1>6 DEF CallSet
<1>8. /\ fat' \in [Clusters -> Link] /\ bitmap' \in [Clusters -> BOOLEAN]
      /\ \A d \in Clusters : d # c => fat'[d] = fat[d]
      /\ InUse(c)' /\ Others(c) /\ (~ExFat => fat'[c] = EOC)
  BY <1>2, <1>3, <1>5, <1>6, MarkIs
<1>9. ChainsOK(o, r)
  BY DEF IInv
<1>10. \A t \in Slots : c \notin Elems(o[t]) /\ Agree(fat, fat', o[t])
  <2>1. /\ \A t \in Slots : c \notin Elems(o[t])
        /\ \A t \in Slots : \A i \in 1 .. Len(o[t]) : o[t][i] # c /\ o[t][i] \in Clusters
    BY <1>6, <1>9, FreeApart
  <2> QED
    BY <1>8, <2>1 DEF Agree
<1>11. DiskMoves
  BY <1>2, <1>3, ModifyMoves
<1>12. SlotInv(s, q)'
  <2>1. Held(fat', b, f, q)
    BY <1>1, <1>3, <1>4, <1>10, HeldSame
  <2>2. ~Removing(s)' /\ call'.s = s /\ call'.pc \in Next1
    BY <1>7 DEF Removing, Next1
  <2>3. SlotOK(s, q)'
    BY <1>1, <1>2, <1>4, <2>1, <2>2, OpenSlot
  <2>4. (Settled(s)' => Settled(s)) /\ (Quiet(s)' => Quiet(s))
    BY <1>2, <1>4, <1>7 DEF Settled, Quiet, ExFat
  <2>5. Kept(s, q)'
    BY <1>1, <1>2, <1>3, <1>4, <1>10, <2>4, KeptStep DEF SlotInv
  <2>6. Quiet(s)' /\ file'[s].open => entry[s].sclust = obj'[s].sclust
    BY <1>1, <1>2, <1>3, <2>4 DEF SlotInv, OnDisk
  <2>7. OnDisk(s, q)'
    BY <1>1, <1>2, <1>3, <1>10, <1>11, <2>4, <2>6, OnDiskStep DEF SlotInv
  <2> QED
    BY <2>3, <2>5, <2>7 DEF SlotInv
<1>13. \A t \in Slots : SlotInv(t, o[t])'
  BY <1>1, <1>2, <1>3, <1>4, <1>7, <1>10, <1>11, <1>12, SlotsStep
<1>14. Types'
  BY <1>2, <1>3, <1>7, <1>8, <1>11, TypesStep DEF Types
<1>15. CallOK(o, r)'
  <2>1. F' = f /\ O' = b
    BY <1>1, <1>2, <1>7 DEF F, O
  <2>2. SeekOK(q)'
    <3>1. /\ call.to \in Nat /\ call.op \in {"seek", "create"} /\ (call.op = "create" => f.modified)
          /\ f.fptr = Len(q) /\ f.fptr < call.to /\ (q = <<>> => f.clust = 0) /\ (ExFat => f.fptr <= b.objsize)
      BY <1>2, <1>3 DEF SeekOK, Seeking
    <3>2. ExFat' <=> ExFat
      BY <1>2 DEF ExFat
    <3> QED
      BY <1>4, <1>7, <2>1, <3>1, <3>2 DEF SeekOK, Seeking
  <2>3. LinkOK(o)'
    <3>1. free_clst' # 0 /\ (~ExFat' => fat'[c] = EOC)
      BY <1>2, <1>8 DEF ExFat
    <3> QED
      BY <1>6, <1>7, <1>8, <1>10, <3>1 DEF LinkOK
  <2>4. RemoveOK(o, r)' /\ SyncOK'
    BY <1>4, <1>7 DEF RemoveOK, SyncOK
  <2> QED
    BY <1>1, <1>3, <1>4, <1>7, <2>2, <2>3, <2>4 DEF CallOK
<1>16. ChainsOK(o, r)'
  BY <1>6, <1>8, <1>9, ChainsStay DEF Others
<1>17. Marks(o, r)'
  <2>1. Limbo(r) = {} /\ Limbo(r)' = {c}
    BY <1>2, <1>7 DEF Limbo
  <2> QED
    BY <1>2, <1>8, <2>1 DEF Marks, Others, IInv
<1>18. Count'
  <2>1. NFree' = NFree - 1
    BY <1>6, <1>8, MarkOne
  <2>2. Pending = 0 /\ Pending' = 1
    BY <1>2, <1>7 DEF Pending
  <2>3. NFree \in Nat
    BY FreeTyped
  <2> QED
    BY <1>2, <2>1, <2>2, <2>3 DEF Count, IInv
<1>19. DiskSound'
  <2>1. Torn => Torn'
    BY <1>2, <1>7 DEF Torn, ExFat
  <2>2. ExFat => f.fptr <= b.objsize
    BY <1>2, <1>3 DEF SeekOK, Next1, Seeking
  <2>3. Unstretched
    BY <1>1, <2>2, OthersUnstretched
  <2> QED
    BY <1>2, <1>11, <2>1, <2>3, DiskStep
<1>20. IInv(o, r)'
  BY <1>13, <1>14, <1>15, <1>16, <1>17, <1>18, <1>19 DEF IInv, SlotInv
<1> QED
  BY <1>2, <1>20 DEF Kept1, Moves

\* A chain that grows by a cluster: what the file holds of it.
Stretch(b, f, q, c, b2, g) ==
    /\ f.fptr = Len(q) /\ g.fptr = Len(q) + 1 /\ g.clust = c
    /\ b2.objsize = b.objsize /\ b2.sclust = IF q = <<>> THEN c ELSE b.sclust

\* The first cluster.
LEMMA FirstGiven ==
    ASSUME NEW m, NEW b \in ObjSet, NEW f \in FileSet, NEW q \in Seq(Clusters), Held(m, b, f, q), q = <<>>,
           NEW c \in Clusters, NEW b2 \in ObjSet, NEW g \in FileSet, Stretch(b, f, q, c, b2, g),
           b2.n_frag = 0, b2.stat = 2 \/ (b2.stat = 0 /\ m[c] = EOC)
    PROVE  Held(m, b2, g, Append(q, c))
<1>1. PICK z : z = Append(q, c)
  OBVIOUS
<1>2. z = <<c>> /\ Len(z) = 1 /\ z[1] = c /\ z # <<>> /\ c # 0 /\ c \in Nat
  BY <1>1, Nums
<1>3. b2.objsize = 0 /\ b2.sclust = c /\ g.fptr = 1 /\ g.clust = c
  <2>1. b.objsize = 0
    BY DEF Held, ObjSet
  <2> QED
    BY <2>1 DEF Stretch
<1>4. b2.stat = 2 => z = Contig(c, 1) /\ BoundedMax(b2.objsize, g.fptr) = 1
  <2>1. Contig(c, 1) = <<c>>
    BY <1>2 DEF Contig
  <2> QED
    BY <1>2, <1>3, <2>1 DEF BoundedMax
<1>5. b2.stat # 2 => Followed(m, b2, z) /\ m[z[Len(z)]] = EOC
  BY <1>2, <1>3 DEF Followed, FirstRun
<1>6. \A i \in 1 .. Len(z) : ~(i > Len(z) - b2.n_frag)
  BY <1>2
<1>7. Held(m, b2, g, z)
  BY <1>2, <1>3, <1>4, <1>5, <1>6 DEF Held
<1> QED
  BY <1>1, <1>7

\* One more of a contiguous chain.
LEMMA NextGiven ==
    ASSUME NEW m, NEW b \in ObjSet, NEW f \in FileSet, NEW q \in Seq(Clusters), Held(m, b, f, q), q # <<>>,
           NEW c \in Clusters, NEW b2 \in ObjSet, NEW g \in FileSet, Stretch(b, f, q, c, b2, g),
           b.stat = 2, b2.stat = 2, b2.n_frag = 0, c = f.clust + 1
    PROVE  Held(m, b2, g, Append(q, c))
<1>1. PICK z, n, a : z = Append(q, c) /\ n = Len(q) /\ a = b.sclust
  OBVIOUS
<1>2. /\ n \in Nat /\ n >= 1 /\ Len(z) = n + 1 /\ z \in Seq(Clusters) /\ z # <<>>
      /\ z[n + 1] = c /\ \A i \in 1 .. n : z[i] = q[i]
  BY <1>1
<1>3. b.objsize \in Nat /\ b.objsize <= n /\ a \in Nat /\ a # 0 /\ f.fptr = n /\ f.clust = q[n]
  BY <1>1, <1>2, Nums DEF Held, ObjSet, Stretch
<1>4. q = Contig(a, n)
  BY <1>1, <1>2, <1>3 DEF Held, BoundedMax
<1>5. \A i \in 1 .. n : q[i] = a + i - 1
  BY <1>2, <1>3, <1>4, ContigSeq
<1>6. c = a + n
  <2>1. q[n] = a + n - 1
    BY <1>2, <1>5
  <2> QED
    BY <1>2, <1>3, <2>1
<1>7. z = Contig(a, n + 1)
  <2>1. Len(Contig(a, n + 1)) = n + 1 /\ \A i \in 1 .. n + 1 : Contig(a, n + 1)[i] = a + i - 1
    <3>1. n + 1 \in Nat
      BY <1>2
    <3> QED
      BY <1>3, <3>1, ContigSeq, Zenon
  <2>2. \A i \in 1 .. n + 1 : z[i] = a + i - 1
    <3> TAKE i \in 1 .. n + 1
    <3>1. CASE i = n + 1
      BY <1>2, <1>3, <1>6, <3>1
    <3>2. CASE i # n + 1
      BY <1>2, <1>5, <3>2
    <3> QED
      BY <3>1, <3>2
  <2>3. Contig(a, n + 1) \in Seq(Nat)
    BY <1>2, <1>3 DEF Contig
  <2> QED
    BY <1>2, <2>1, <2>2, <2>3
<1>8. BoundedMax(b2.objsize, g.fptr) = n + 1 /\ b2.objsize <= n + 1 /\ g.fptr = n + 1 /\ g.clust = c /\ b2.sclust = a
  BY <1>1, <1>2, <1>3 DEF Stretch, BoundedMax
<1>9. z[1] = a
  BY <1>2, <1>3, <1>5
<1>10. Held(m, b2, g, z)
  BY <1>2, <1>3, <1>7, <1>8, <1>9 DEF Held
<1> QED
  BY <1>1, <1>10

\* One more of a chain that is not: linked to, or counted into the last fragment.
Joined(m, b, q, c, m2, b2) ==
    \/ /\ b.n_frag \in {0, 1} /\ b2.n_frag = b.n_frag
       /\ m2[q[Len(q)]] = c /\ \A d \in Clusters : d # q[Len(q)] => m2[d] = m[d]
       /\ b2.n_frag = 0 => m2[c] = EOC
    \/ m2 = m /\ c = q[Len(q)] + 1 /\ b2.n_frag = IF b.n_frag = 0 THEN 2 ELSE b.n_frag + 1

\* Or one more fragment.
LEMMA MoreGiven ==
    ASSUME NEW m, NEW m2, NEW b \in ObjSet, NEW f \in FileSet, NEW q \in Seq(Clusters), Alone(q), Held(m, b, f, q), q # <<>>,
           NEW c \in Clusters, NEW b2 \in ObjSet, NEW g \in FileSet, Stretch(b, f, q, c, b2, g),
           b.stat # 2, b2.stat = b.stat, b2.n_cont = b.n_cont, Joined(m, b, q, c, m2, b2)
    PROVE  Held(m2, b2, g, Append(q, c))
<1>1. PICK z, n, k, k2, x : z = Append(q, c) /\ n = Len(q) /\ k = b.n_frag /\ k2 = b2.n_frag /\ x = FirstRun(b)
  OBVIOUS
<1>2. /\ n \in Nat /\ n >= 1 /\ Len(z) = n + 1 /\ z \in Seq(Clusters) /\ z # <<>>
      /\ z[n + 1] = c /\ \A i \in 1 .. n : z[i] = q[i]
  BY <1>1
<1>3. /\ b.objsize \in Nat /\ b.objsize <= n /\ k \in Nat /\ k2 \in Nat
      /\ b.n_cont \in Nat /\ b.stat \in {0, 3} /\ k <= n
  BY <1>1, <1>2 DEF Held, ObjSet, FirstRun
<1>4. x \in Nat /\ x < n /\ (b.stat = 3 => x = b.n_cont /\ x + k <= n) /\ FirstRun(b2) = x /\ k \in Nat /\ k2 \in Nat /\ b.objsize \in Nat /\ b.objsize <= n
      /\ b.sclust # 0
  BY <1>1, <1>2 DEF Held, ObjSet, FirstRun
<1>5. /\ \A i \in 1 .. n : i <= x + 1 => q[i] = b.sclust + i - 1
      /\ \A i \in 1 .. n - 1 : i > x /\ i <= n - k => m[q[i]] = q[i + 1]
      /\ \A i \in 1 .. n : i > n - k => q[i] = q[n] - (n - i)
  BY <1>1, <1>2 DEF Held, Followed
<1>6. (k2 = k /\ k \in {0, 1} /\ m2[q[n]] = c /\ (k2 = 0 => m2[c] = EOC) /\ \A d \in Clusters : d # q[n] => m2[d] = m[d])
      \/ (m2 = m /\ c = q[n] + 1 /\ k2 = IF k = 0 THEN 2 ELSE k + 1)
  BY <1>1 DEF Joined
<1>7. \A i \in 1 .. n - 1 : i > x /\ i <= n - k => m2[q[i]] = q[i + 1]
  <2> SUFFICES ASSUME NEW i \in 1 .. n - 1, i > x, i <= n - k PROVE m2[q[i]] = q[i + 1]
    OBVIOUS
  <2>1. q[i] # q[n] /\ q[i] \in Clusters
    BY <1>1, <1>2 DEF Alone
  <2>2. m2[q[i]] = m[q[i]]
    BY <1>6, <2>1
  <2> QED
    BY <1>5, <2>2
<1>8. \A i \in 1 .. n : i > x /\ i <= n + 1 - k2 => m2[z[i]] = z[i + 1]
  <2> SUFFICES ASSUME NEW i \in 1 .. n, i > x, i <= n + 1 - k2 PROVE m2[z[i]] = z[i + 1]
    OBVIOUS
  <2>1. CASE i = n
    <3>1. k2 \in {0, 1}
      BY <1>4, <2>1
    <3>2. m2[q[n]] = c
      BY <1>4, <1>6, <3>1
    <3> QED
      BY <1>2, <2>1, <3>2
  <2>2. CASE i # n
    <3>1. i \in 1 .. n - 1 /\ i <= n - k /\ i + 1 \in 1 .. n
      BY <1>2, <1>4, <1>6, <2>2
    <3> QED
      BY <1>2, <1>7, <3>1
  <2> QED
    BY <2>1, <2>2
<1>9. \A i \in 1 .. n + 1 : i > n + 1 - k2 => z[i] = c - (n + 1 - i)
  <2> SUFFICES ASSUME NEW i \in 1 .. n + 1, i > n + 1 - k2 PROVE z[i] = c - (n + 1 - i)
    OBVIOUS
  <2>0. c \in Nat
    BY Nums
  <2>1. CASE i = n + 1
    BY <1>2, <2>0, <2>1
  <2>2. CASE i # n + 1
    <3>1. i \in 1 .. n
      BY <1>2, <2>2
    <3>2. c = q[n] + 1 /\ k2 = IF k = 0 THEN 2 ELSE k + 1
      BY <1>2, <1>4, <1>6, <3>1
    <3>3. q[i] = q[n] - (n - i)
      <4>1. q[n] \in Nat
        <5>1. q[n] \in Clusters
          BY <1>1, <1>2
        <5> QED
          BY <5>1, Nums
      <4>2. CASE k = 0
        <5>1. i = n
          BY <1>2, <3>1, <3>2, <4>2
        <5> QED
          BY <1>2, <4>1, <5>1
      <4>3. CASE k # 0
        <5>1. i > n - k
          BY <1>2, <1>4, <3>1, <3>2, <4>3
        <5> QED
          BY <1>5, <3>1, <5>1
      <4> QED
        BY <4>2, <4>3
    <3>4. PICK y : y = q[n]
      OBVIOUS
    <3>5. z[i] = y - (n - i) /\ c = y + 1
      BY <1>2, <3>1, <3>2, <3>3, <3>4
    <3>6. y \in Int
      <4>1. y \in Clusters
        BY <1>1, <1>2, <3>4
      <4> QED
        BY <4>1, Nums
    <3> QED
      BY <1>2, <3>5, <3>6
  <2> QED
    BY <2>1, <2>2
<1>10. Followed(m2, b2, z)
  <2>1. b2.sclust = b.sclust
    BY DEF Stretch
  <2>2. \A i \in 1 .. Len(z) : i <= FirstRun(b2) + 1 => z[i] = b2.sclust + i - 1
    <3> TAKE i \in 1 .. Len(z)
    <3>1. i <= x + 1 => i \in 1 .. n
      BY <1>2, <1>4
    <3> QED
      BY <1>2, <1>4, <1>5, <2>1, <3>1
  <2>3. Len(z) - 1 = n
    BY <1>2
  <2>4. \A i \in 1 .. Len(z) - 1 : i > FirstRun(b2) /\ i <= Len(z) - b2.n_frag => m2[z[i]] = z[i + 1]
    BY <1>1, <1>2, <1>4, <1>8, <2>3
  <2> QED
    BY <2>2, <2>4 DEF Followed
<1>11. k2 = 0 => m2[z[Len(z)]] = EOC
  BY <1>2, <1>4, <1>6
<1>12. k2 <= n + 1 /\ (b.stat = 3 => b.n_cont < n + 1 /\ b.n_cont + k2 <= n + 1)
  BY <1>2, <1>3, <1>4, <1>6
<1>13. /\ b2.sclust = b.sclust /\ b2.objsize <= n + 1 /\ g.fptr = n + 1 /\ g.clust = c
       /\ z[1] = b2.sclust
  <2>1. z[1] = q[1] /\ q[1] = b.sclust
    BY <1>1, <1>2 DEF Held
  <2> QED
    BY <1>1, <1>2, <1>4, <2>1 DEF Stretch
<1>14. \A i \in 1 .. Len(z) : i > Len(z) - b2.n_frag => z[i] = z[Len(z)] - (Len(z) - i)
  <2>1. PICK l : l = n + 1
    OBVIOUS
  <2>2. Len(z) = l /\ z[l] = c /\ b2.n_frag = k2 /\ \A i \in 1 .. l : i > l - k2 => z[i] = c - (l - i)
    <3>1. \A i \in 1 .. l : i > l - k2 => z[i] = c - (l - i)
      BY <1>2, <1>4, <1>9, <2>1
    <3> QED
      BY <1>1, <1>2, <2>1, <3>1
  <2> QED
    BY <2>2
<1>17. g.fptr <= Len(z)
  <2>1. g.fptr = n + 1 /\ Len(z) = n + 1 /\ n + 1 \in Nat
    BY <1>2, <1>13
  <2> QED
    BY <2>1
<1>15. /\ b2.sclust # 0 /\ b2.objsize <= Len(z) /\ g.fptr = Len(z) /\ g.clust = z[g.fptr] /\ b2.n_frag <= Len(z)
       /\ b2.stat = 3 => b2.n_cont < Len(z) /\ b2.n_cont + b2.n_frag <= Len(z)
       /\ b2.n_frag = 0 => m2[z[Len(z)]] = EOC
       /\ g.fptr <= Len(z)
  <2>1. b2.sclust # 0 /\ g.clust = z[g.fptr] /\ g.fptr = Len(z)
    BY <1>1, <1>2, <1>4, <1>13
  <2>2. b2.objsize <= Len(z) /\ b2.n_frag <= Len(z)
    BY <1>1, <1>2, <1>12, <1>13
  <2>3. b2.stat = 3 => b2.n_cont < Len(z) /\ b2.n_cont + b2.n_frag <= Len(z)
    BY <1>1, <1>2, <1>12
  <2> QED
    BY <1>1, <1>11, <1>17, <2>1, <2>2, <2>3
<1>16. Held(m2, b2, g, z)
  BY <1>2, <1>10, <1>13, <1>14, <1>15 DEF Held
<1> QED
  BY <1>1, <1>16

\* A chain without fragments is on the FAT as a whole.
LEMMA HeldLinked ==
    ASSUME NEW m, NEW b \in ObjSet, NEW f, NEW q \in Seq(Clusters), Held(m, b, f, q), b.n_frag = 0, b.stat = 0, q # <<>>
    PROVE  Linked(m, q)
<1>1. b.n_cont \in Nat /\ Len(q) \in Nat
  BY DEF ObjSet
<1>2. Followed(m, b, q) /\ m[q[Len(q)]] = EOC /\ FirstRun(b) = 0
  BY <1>1 DEF Held, FirstRun
<1>3. ASSUME NEW i \in 1 .. Len(q) PROVE m[q[i]] = IF i < Len(q) THEN q[i + 1] ELSE EOC
  <2>1. i < Len(q) => i \in 1 .. Len(q) - 1 /\ i > 0 /\ i <= Len(q) - b.n_frag
    BY <1>1
  <2> QED
    BY <1>2, <2>1 DEF Followed
<1> QED
  BY <1>3 DEF Linked

\* The end of create_chain: the file has the new cluster at the end of its chain.
Giving(o, s, c, b, g) ==
    /\ call.pc \in {"link", "fill_link"} /\ s = call.s /\ c = call.ncl
    /\ UNCHANGED <<fs_type, bitmap, entry, pulls>> /\ Counted /\ DiskMoves
    /\ file' = [file EXCEPT ![s] = g] /\ obj' = [obj EXCEPT ![s] = b]
    /\ g.open /\ g.modified = file[s].modified /\ g.cut = file[s].cut
    /\ Stretch(obj[s], file[s], o[s], c, b, g)
    /\ call' = [call EXCEPT !.pc = "follow", !.ncl = 0]
    /\ fat' \in [Clusters -> Link] /\ SameUse
    /\ \A t \in Slots \ {s} : Agree(fat, fat', o[t])
    /\ Plain(b) /\ Held(fat', b, g, Append(o[s], c))

\* So the step that gives it keeps the invariant, by a Give of ClusterOwners.
LEMMA GiveStep ==
    ASSUME NEW o, NEW r, IInv(o, r), LagInv, NEW s, NEW c, NEW b \in ObjSet, NEW g \in FileSet, Giving(o, s, c, b, g)
    PROVE  Kept1(o, r)
<1>1. PICK q, b1, f, z, p : q = o[s] /\ b1 = obj[s] /\ f = file[s] /\ z = Append(q, c) /\ p = [o EXCEPT ![s] = z]
  OBVIOUS
<1>2. /\ call.pc \in {"link", "fill_link"} /\ s = call.s /\ c = call.ncl
      /\ UNCHANGED <<fs_type, bitmap, entry, pulls>> /\ Counted /\ DiskMoves
      /\ file' = [file EXCEPT ![s] = g] /\ obj' = [obj EXCEPT ![s] = b]
      /\ g.open /\ g.modified = f.modified /\ g.cut = f.cut
      /\ Stretch(b1, f, q, c, b, g)
      /\ call' = [call EXCEPT !.pc = "follow", !.ncl = 0]
      /\ fat' \in [Clusters -> Link] /\ SameUse
      /\ \A t \in Slots \ {s} : Agree(fat, fat', o[t])
      /\ Plain(b) /\ Held(fat', b, g, z)
  BY <1>1 DEF Giving
<1>3. call.pc # "idle" /\ call.pc \in Seeking \union {"first"} /\ call.pc \in Next1 /\ "follow" \in Pcs
  BY <1>2 DEF Seeking, Next1, Pcs
<1>4. /\ s \in Slots /\ q \in Seq(Clusters) /\ Alone(q) /\ SlotInv(s, q) /\ b1 \in ObjSet /\ f \in FileSet /\ Types /\ call \in CallSet
      /\ O = b1 /\ F = f /\ SeekOK(q) /\ LinkOK(o) /\ obj \in [Slots -> ObjSet] /\ file \in [Slots -> FileSet]
  BY <1>1, <1>2, <1>3, CallHas
<1>5. /\ f.open /\ entry[s].used /\ Plain(b1) /\ Held(fat, b1, f, q) /\ r = <<>> /\ call.op # "rename" /\ call.pc # "erase"
      /\ f.cut => f.modified
  BY <1>1, <1>2, <1>3, OpenHas
<1>6. c \in Clusters /\ InUse(c) /\ free_clst # 0 /\ \A t \in Slots : c \notin Elems(o[t])
  BY <1>2, <1>4 DEF LinkOK
<1>7. ChainsOK(o, r) /\ o \in [Slots -> Seq(Clusters)]
  BY DEF IInv, ChainsOK
<1>8. /\ Len(q) \in Nat /\ z \in Seq(Clusters) /\ Len(z) = Len(q) + 1 /\ z[Len(q) + 1] = c /\ \A i \in 1 .. Len(q) : z[i] = q[i]
      /\ z # <<>>
  BY <1>1, <1>4, <1>6
<1>9. p \in [Slots -> Seq(Clusters)] /\ p[s] = z /\ \A t \in Slots : t # s => p[t] = o[t]
  BY <1>1, <1>4, <1>7, <1>8
<1>10. /\ call' \in CallSet /\ call'.pc = "follow" /\ call'.op = call.op /\ call'.s = s /\ call'.to = call.to /\ call'.ncl = 0
  BY <1>2, <1>3, <1>4 DEF CallSet
<1>11. /\ file'[s] = g /\ obj'[s] = b /\ obj' \in [Slots -> ObjSet] /\ file' \in [Slots -> FileSet]
       /\ \A t \in Slots : t # s => obj'[t] = obj[t] /\ file'[t] = file[t]
  BY <1>2, <1>4
<1>12. /\ g.fptr = Len(q) + 1 /\ f.fptr = Len(q) /\ b.objsize = b1.objsize /\ b1.objsize <= Len(q) /\ b1.objsize \in Nat
       /\ g.fptr > b.objsize /\ g.fptr > 0
  <2>1. /\ g.fptr = Len(q) + 1 /\ f.fptr = Len(q) /\ b.objsize = b1.objsize /\ b1.objsize <= Len(q) /\ b1.objsize \in Nat
    BY <1>2, <1>4, <1>5 DEF Stretch, Held, ObjSet
  <2> QED
    BY <1>8, <2>1
<1>13. SlotOK(s, z)'
  <2>1. ~Removing(s)' /\ call'.s = s /\ call'.pc \in Next1
    BY <1>10 DEF Removing, Next1
  <2>2. fs_type' = fs_type /\ entry'[s].used /\ (g.cut => g.modified)
    BY <1>2, <1>5
  <2> QED
    BY <1>2, <1>11, <1>12, <2>1, <2>2, OpenSlot
<1>14. Kept(s, z)'
  <2>1. CASE ExFat
    <3>1. ~(g.fptr <= b.objsize)
      BY <1>8, <1>12
    <3>2. ~Settled(s)'
      BY <1>2, <1>11, <2>1, <3>1 DEF Settled, ExFat
    <3> QED
      BY <3>2 DEF Kept
  <2>2. CASE ~ExFat
    <3>1. b.stat = 0 /\ b.n_frag = 0
      BY <1>2, <2>2 DEF Plain
    <3>2. Linked(fat', z)
      BY <1>2, <1>8, <3>1, HeldLinked
    <3>3. PICK e : e = entry[s] /\ e \in EntrySet /\ e.stat = 0 /\ e.size \in Nat
      BY <1>1, <1>4, <2>2 DEF Types, EntrySet
    <3>4. ASSUME Settled(s)' PROVE Laid(fat', e, IF e.sclust = 0 THEN <<>> ELSE z)
      <4>1. Settled(s)
        BY <1>1, <1>2, <1>11, <2>2, <3>4 DEF Settled, ExFat
      <4>2. Laid(fat, e, IF e.sclust = 0 THEN <<>> ELSE q)
        BY <1>4, <1>5, <3>3, <4>1 DEF SlotInv, Kept
      <4>3. CASE e.sclust = 0
        BY <4>3 DEF Laid
      <4>4. CASE e.sclust # 0
        <5>1. q # <<>> /\ q[1] = e.sclust /\ Len(q) >= e.size
          BY <4>2, <4>4 DEF Laid
        <5>2. z[1] = e.sclust /\ Len(z) >= e.size
          BY <1>4, <1>8, <3>3, <5>1
        <5> QED
          BY <1>8, <3>2, <3>3, <4>4, <5>2 DEF Laid
      <4> QED
        BY <4>3, <4>4
    <3> QED
      BY <1>2, <3>3, <3>4 DEF Kept
  <2> QED
    BY <2>1, <2>2
<1>15. ~Quiet(s)'
  <2>1. ~(g.fptr <= b.objsize)
    BY <1>8, <1>12
  <2> QED
    BY <1>2, <1>11, <2>1 DEF Quiet
<1>16. SlotInv(s, p[s])'
  BY <1>9, <1>13, <1>14, <1>15 DEF SlotInv, OnDisk
<1>17. \A t \in Slots : SlotInv(t, p[t])'
  <2>1. \A t \in Slots \ {s} :
               p[t] = o[t] /\ obj'[t] = obj[t] /\ file'[t] = file[t] /\ entry'[t] = entry[t] /\ Agree(fat, fat', o[t])
    BY <1>2, <1>9, <1>11
  <2>2. call'.pc # "erase" /\ call'.op # "rename" /\ call.s = s /\ call'.s = s
    BY <1>2, <1>5, <1>10
  <2> QED
    BY <1>2, <1>4, <1>5, <1>16, <2>1, <2>2, SlotsStep
<1>18. free_clst \in 0 .. NClusters \union {Unknown} /\ Unknown > NClusters /\ NClusters \in Nat /\ Unknown \in Nat
  BY <1>4, Nums DEF Types
<1>19. /\ free_clst' = IF free_clst <= NClusters THEN free_clst - 1 ELSE free_clst
       /\ last_clst' = c /\ fsi_flag' = TRUE
  BY <1>2 DEF Counted
<1>20. Types'
  <2>1. free_clst' \in 0 .. NClusters \union {Unknown}
    BY <1>6, <1>18, <1>19
  <2> QED
    BY <1>2, <1>4, <1>6, <1>10, <1>11, <1>19, <2>1, TypesStep DEF Types
<1>21. CallOK(p, r)'
  <2>1. F' = g /\ O' = b
    BY <1>10, <1>11 DEF F, O
  <2>2. /\ call.to \in Nat /\ call.op \in {"seek", "create"} /\ (call.op = "create" => f.modified) /\ f.fptr < call.to
    BY <1>2, <1>3, <1>4 DEF SeekOK, Seeking
  <2>3. g.fptr <= call.to
    BY <1>8, <1>12, <2>2
  <2>4. SeekOK(z)'
    BY <1>2, <1>10, <1>12, <2>1, <2>2, <2>3 DEF SeekOK, Seeking
  <2>5. call'.pc \in Seeking \ {"link", "fill_link"}
    BY <1>10 DEF Seeking, Next1
  <2> QED
    BY <1>4, <1>5, <1>9, <1>10, <2>4, <2>5, SeekCallOK
<1>22. Owners!Apart(p)
  <2>1. \A i \in DOMAIN z : i \in 1 .. Len(q) \/ i = Len(q) + 1
    BY <1>8
  <2>2. \A t \in Slots : \A i \in DOMAIN o[t] : o[t][i] # c
    BY <1>6 DEF Elems
  <2>3. DOMAIN q = 1 .. Len(q)
    BY <1>4
  <2>4. Owners!Apart(o)
    BY <1>7 DEF ChainsOK
  <2>5. ASSUME NEW i \in DOMAIN z, NEW j \in DOMAIN z, z[i] = z[j] PROVE i = j
    <3>1. \A k \in 1 .. Len(q) : z[k] = q[k] /\ q[k] # c
      BY <1>1, <1>4, <1>8, <2>2, <2>3
    <3> QED
      BY <1>4, <1>8, <2>1, <2>3, <2>5, <3>1 DEF Alone
  <2>6. ASSUME NEW t \in Slots, t # s, NEW i \in DOMAIN z, NEW j \in DOMAIN o[t] PROVE z[i] # o[t][j]
    <3>1. CASE i = Len(q) + 1
      BY <1>8, <2>2, <3>1
    <3>2. CASE i \in 1 .. Len(q)
      <4>1. z[i] = q[i] /\ i \in DOMAIN q
        BY <1>8, <2>3, <3>2
      <4>2. q[i] # o[t][j]
        BY <1>1, <1>4, <2>4, <2>6, <4>1 DEF Owners!Apart
      <4> QED
        BY <4>1, <4>2
    <3> QED
      BY <2>1, <3>1, <3>2
  <2>7. ASSUME NEW t \in Slots, NEW i \in DOMAIN p[t], NEW j \in DOMAIN p[t], p[t][i] = p[t][j] PROVE i = j
    <3>1. CASE t = s
      BY <1>9, <2>5, <2>7, <3>1
    <3>2. CASE t # s
      BY <1>9, <2>4, <2>7, <3>2 DEF Owners!Apart
    <3> QED
      BY <3>1, <3>2
  <2>8. ASSUME NEW t \in Slots, NEW u \in Slots, t # u, NEW i \in DOMAIN p[t], NEW j \in DOMAIN p[u] PROVE p[t][i] # p[u][j]
    <3>1. CASE t = s
      BY <1>9, <2>6, <2>8, <3>1
    <3>2. CASE u = s
      BY <1>9, <2>6, <2>8, <3>2
    <3>3. CASE t # s /\ u # s
      BY <1>9, <2>4, <2>8, <3>3, SMTT(40) DEF Owners!Apart
    <3> QED
      BY <3>1, <3>2, <3>3
  <2> QED
    BY <2>7, <2>8 DEF Owners!Apart
<1>23. Elems(z) = Elems(q) \union {c}
  <2>1. DOMAIN q = 1 .. Len(q) /\ DOMAIN z = 1 .. Len(q) + 1
    BY <1>4, <1>8
  <2>2. \A d \in Elems(z) : d \in Elems(q) \union {c}
    BY <1>8, <2>1 DEF Elems
  <2>3. \A d \in Elems(q) \union {c} : d \in Elems(z)
    BY <1>8, <2>1 DEF Elems
  <2> QED
    BY <2>2, <2>3
<1>24. ChainsOK(p, r)'
  <2>1. \A t \in Slots : \A d \in Elems(p[t]) : InUse(d)' /\ d \notin Elems(r)
    <3> TAKE t \in Slots
    <3>1. Elems(r) = {}
      BY <1>5 DEF Elems
    <3>2. \A d \in Elems(o[t]) : InUse(d) /\ d \in Clusters
      BY <1>7 DEF ChainsOK, Elems
    <3>3. \A d \in Elems(p[t]) : d = c \/ d \in Elems(o[t])
      BY <1>1, <1>9, <1>23
    <3> QED
      BY <1>2, <1>6, <3>1, <3>2, <3>3 DEF SameUse
  <2>2. r \in Seq(Clusters) /\ Alone(r) /\ Elems(r) = {}
    BY <1>5 DEF Alone, Elems
  <2> QED
    BY <1>9, <1>22, <2>1, <2>2 DEF ChainsOK
<1>25. Marks(p, r)'
  <2>1. Limbo(r) = {c}
    BY <1>2 DEF Limbo
  <2>2. \A t \in Slots : Elems(o[t]) \subseteq Elems(p[t])
    BY <1>1, <1>9, <1>23
  <2>3. c \in Elems(p[s])
    BY <1>9, <1>23
  <2>4. \A d \in Clusters : InUse(d)' <=> InUse(d)
    BY <1>2 DEF SameUse
  <2> SUFFICES ASSUME pulls' = 0, NEW d \in Clusters, InUse(d)' PROVE \E t \in Slots : d \in Elems(p[t])
    BY DEF Marks
  <2>5. d = c \/ \E t \in Slots : d \in Elems(o[t])
    BY <1>2, <2>1, <2>4 DEF Marks, IInv
  <2> QED
    BY <1>4, <2>2, <2>3, <2>5
<1>26. Count'
  <2>1. NFree' = NFree /\ NFree \in Nat
    BY <1>2, FreeStays, FreeTyped
  <2>2. Pending = 1 /\ Pending' = 0
    BY <1>2, <1>10 DEF Pending
  <2>3. pulls = 0 /\ free_clst <= NClusters => free_clst = NFree + 1
    BY <2>2 DEF Count, IInv
  <2> SUFFICES ASSUME pulls' = 0, free_clst' <= NClusters PROVE free_clst' = NFree'
    BY <2>1, <2>2 DEF Count
  <2>4. free_clst <= NClusters
    BY <1>18, <1>19
  <2> QED
    BY <1>2, <1>19, <2>1, <2>3, <2>4
<1>27. DiskSound'
  <2>1. Torn => Torn'
    BY <1>1, <1>2, <1>4, <1>5, TornStep
  <2>2. ExFat => f.fptr <= b1.objsize
    BY <1>2, <1>4 DEF SeekOK
  <2>3. Unstretched
    BY <1>1, <1>2, <2>2, OthersUnstretched
  <2> QED
    BY <1>2, <2>1, <2>3, DiskStep
<1>28. IInv(p, r)'
  BY <1>17, <1>20, <1>21, <1>24, <1>25, <1>26, <1>27 DEF IInv, SlotInv
<1>29. Owners!Give(s, o, p)
  BY <1>1, <1>6, <1>9, <1>22 DEF Owners!Give
<1> QED
  BY <1>2, <1>4, <1>28, <1>29 DEF Kept1, Moves

\* What is known when a cluster is about to be linked.
LEMMA LinkHas ==
    ASSUME NEW o, NEW r, IInv(o, r), call.pc \in {"link", "fill_link"}, NEW s, s = call.s
    PROVE  /\ s \in Slots /\ o[s] \in Seq(Clusters) /\ Alone(o[s]) /\ obj[s] \in ObjSet /\ file[s] \in FileSet
           /\ O = obj[s] /\ F = file[s] /\ Types /\ call \in CallSet /\ ChainsOK(o, r) /\ r = <<>>
           /\ obj \in [Slots -> ObjSet] /\ file \in [Slots -> FileSet] /\ fat \in [Clusters -> Link]
           /\ file[s].open /\ Plain(obj[s]) /\ Held(fat, obj[s], file[s], o[s]) /\ file[s].fptr = Len(o[s])
           /\ o[s] = <<>> <=> file[s].clust = 0
           /\ o[s] = <<>> <=> obj[s].sclust = 0
           /\ o[s] # <<>> => file[s].clust = o[s][Len(o[s])] /\ file[s].clust \in Clusters
           /\ call.ncl \in Clusters /\ InUse(call.ncl) /\ (~ExFat => fat[call.ncl] = EOC)
           /\ \A t \in Slots : call.ncl \notin Elems(o[t])
           /\ call.op \in {"seek", "create"} /\ call.to \in Nat /\ file[s].fptr < call.to
           /\ call.op = "create" => file[s].modified
           /\ ExFat => file[s].fptr <= obj[s].objsize
           /\ ~ExFat => obj[s].stat = 0 /\ obj[s].n_frag = 0
           /\ obj[s].n_frag > 0 => file[s].modified \/ file[s].fptr > obj[s].objsize \/ (call.pc = "fill_link" /\ obj[s].n_frag = 1)
           /\ call.pc = "fill_link" => ExFat /\ obj[s].n_frag > 0 /\ obj[s].stat # 2 /\ o[s] # <<>> /\ call.ncl # file[s].clust + 1
           /\ free_clst # 0
<1>1. call.pc # "idle" /\ call.pc \in Seeking \union {"first"}
  BY DEF Seeking, Next1
<1>2. /\ s \in Slots /\ o[s] \in Seq(Clusters) /\ Alone(o[s]) /\ obj[s] \in ObjSet /\ file[s] \in FileSet
      /\ O = obj[s] /\ F = file[s] /\ Types /\ call \in CallSet
      /\ obj \in [Slots -> ObjSet] /\ file \in [Slots -> FileSet]
      /\ SeekOK(o[s]) /\ LinkOK(o)
  BY <1>1, CallHas
<1>3. /\ file[s].open /\ Plain(obj[s]) /\ Held(fat, obj[s], file[s], o[s]) /\ r = <<>>
      /\ ~ExFat => obj[s].stat = 0 /\ obj[s].n_frag = 0
      /\ obj[s].n_frag > 0 => file[s].modified \/ file[s].fptr > obj[s].objsize \/ (call.pc = "fill_link" /\ obj[s].n_frag = 1)
  BY <1>1, OpenHas
<1>4. /\ file[s].fptr = Len(o[s]) /\ file[s].fptr < call.to /\ (o[s] = <<>> => file[s].clust = 0)
      /\ ExFat => file[s].fptr <= obj[s].objsize
      /\ call.op \in {"seek", "create"} /\ call.to \in Nat
      /\ call.op = "create" => file[s].modified
      /\ call.pc = "fill_link" => ExFat /\ obj[s].n_frag > 0 /\ obj[s].stat # 2 /\ o[s] # <<>> /\ call.ncl # file[s].clust + 1
  BY <1>2 DEF SeekOK, Seeking, Next1
<1>5. /\ call.ncl \in Clusters /\ InUse(call.ncl) /\ (~ExFat => fat[call.ncl] = EOC)
      /\ \A t \in Slots : call.ncl \notin Elems(o[t])
      /\ free_clst # 0
  BY <1>2 DEF LinkOK
<1>6. o[s] # <<>> => file[s].clust = o[s][Len(o[s])] /\ file[s].clust \in Clusters /\ file[s].clust # 0
  <2> SUFFICES ASSUME o[s] # <<>> PROVE file[s].clust = o[s][Len(o[s])] /\ file[s].clust \in Clusters /\ file[s].clust # 0
    OBVIOUS
  <2>1. Len(o[s]) \in 1 .. Len(o[s]) /\ Len(o[s]) > 0 /\ o[s][Len(o[s])] \in Clusters
    BY <1>2
  <2>2. file[s].clust = o[s][Len(o[s])]
    BY <1>3, <1>4, <2>1 DEF Held
  <2> QED
    BY <2>1, <2>2, Nums
<1>7. o[s] = <<>> <=> obj[s].sclust = 0
  BY <1>3 DEF Held
<1>8. ChainsOK(o, r) /\ fat \in [Clusters -> Link]
  BY DEF IInv, Types
<1> QED
  BY <1>2, <1>3, <1>4, <1>5, <1>6, <1>7, <1>8

\* What f_lseek does with a new cluster.
Got(q, s, c, b, b2, g) ==
    /\ Counted
    /\ file' = [file EXCEPT ![s] = g] /\ obj' = [obj EXCEPT ![s] = b2]
    /\ g.open /\ g.modified = file[s].modified /\ g.cut = file[s].cut
    /\ Stretch(obj[s], file[s], q, c, b2, g)
    /\ b2.stat = b.stat /\ b2.n_cont = b.n_cont /\ b2.n_frag = b.n_frag
    /\ call' = [call EXCEPT !.pc = "follow", !.ncl = 0]

\* The FFOBJID and the FIL that come of it.
LEMMA GotHas ==
    ASSUME NEW o, NEW r, IInv(o, r), call.pc \in {"link", "fill_link"}, NEW s, s = call.s, NEW c, c = call.ncl,
           NEW b \in ObjSet, b.sclust = obj[s].sclust, b.objsize = obj[s].objsize, GotCluster(b)
    PROVE  \E b2 \in ObjSet, g \in FileSet : Got(o[s], s, c, b, b2, g)
<1>1. /\ obj[s] \in ObjSet /\ file[s] \in FileSet /\ F = file[s] /\ file[s].open
      /\ file[s].fptr = Len(o[s]) /\ (o[s] = <<>> <=> obj[s].sclust = 0) /\ c \in Clusters
  BY LinkHas
<1>2. PICK b2, g : /\ b2 = IF b.sclust = 0 THEN [b EXCEPT !.sclust = c] ELSE b
                   /\ g = [file[s] EXCEPT !.clust = c, !.fptr = file[s].fptr + 1]
  OBVIOUS
<1>3. c \in Cluster0
  BY <1>1 DEF Cluster0
<1>4. g \in FileSet /\ g.open /\ g.modified = file[s].modified /\ g.cut = file[s].cut /\ g.clust = c /\ g.fptr = file[s].fptr + 1
  <2>1. PICK f, n : f = file[s] /\ n = file[s].fptr + 1
    OBVIOUS
  <2>2. f \in FileSet /\ n \in Nat
    BY <1>1, <2>1 DEF FileSet
  <2>3. g = [f EXCEPT !.clust = c, !.fptr = n]
    BY <1>2, <2>1
  <2>4. g \in FileSet /\ g.open = f.open /\ g.modified = f.modified /\ g.cut = f.cut /\ g.clust = c /\ g.fptr = n
    BY <1>3, <2>2, <2>3 DEF FileSet
  <2> QED
    BY <1>1, <2>1, <2>4
<1>5. /\ b2 \in ObjSet /\ b2.objsize = b.objsize /\ b2.stat = b.stat /\ b2.n_cont = b.n_cont /\ b2.n_frag = b.n_frag
      /\ b2.sclust = IF b.sclust = 0 THEN c ELSE b.sclust
  BY <1>2, <1>3 DEF ObjSet
<1>6. Stretch(obj[s], file[s], o[s], c, b2, g)
  BY <1>1, <1>4, <1>5 DEF Stretch
<1>7. /\ Counted /\ call' = [call EXCEPT !.pc = "follow", !.ncl = 0]
      /\ file' = [file EXCEPT ![s] = g] /\ obj' = [obj EXCEPT ![s] = b2]
  BY <1>1, <1>2 DEF GotCluster, SetFile, SetObj
<1> QED
  BY <1>4, <1>5, <1>6, <1>7 DEF Got

\* LinkFat keeps the invariant.
LEMMA StepLinkFat ==
    ASSUME NEW o, NEW r, IInv(o, r), LagInv, LinkFat PROVE Kept1(o, r)
<1>1. PICK s, q, b, f, c : s = call.s /\ q = o[s] /\ b = obj[s] /\ f = file[s] /\ c = call.ncl
  OBVIOUS
<1>2. /\ call.pc = "link" /\ ~ExFat /\ UNCHANGED <<fs_type, bitmap, entry, pulls>>
      /\ call.pc \in {"link", "fill_link"} /\ GotCluster(O)
  BY DEF LinkFat, bounds
<1>3. /\ s \in Slots /\ q \in Seq(Clusters) /\ Alone(q) /\ b \in ObjSet /\ f \in FileSet
      /\ O = b /\ F = f /\ Types /\ ChainsOK(o, r) /\ fat \in [Clusters -> Link]
      /\ Held(fat, b, f, q) /\ (q = <<>> <=> f.clust = 0)
      /\ q # <<>> => f.clust = q[Len(q)] /\ f.clust \in Clusters
      /\ c \in Clusters /\ fat[c] = EOC /\ c \notin Elems(q)
      /\ b.stat = 0 /\ b.n_frag = 0
  BY <1>1, <1>2, LinkHas
<1>4. PICK b2 \in ObjSet, g \in FileSet : Got(q, s, c, b, b2, g)
  BY <1>1, <1>2, <1>3, GotHas
<1>5. Stretch(b, f, q, c, b2, g) /\ b2.stat = 0 /\ b2.n_frag = 0 /\ b2.n_cont = b.n_cont /\ Plain(b2)
  BY <1>1, <1>3, <1>4 DEF Got, Plain
<1>6. DiskMoves
  <2>1. \/ UNCHANGED disk
        \/ \E R, sect : Modify(R, sect)
    BY DEF LinkFat
  <2> QED
    BY <1>3, <2>1, StaysMoves, ModifyMoves
<1>7. /\ fat' \in [Clusters -> Link] /\ SameUse /\ (\A t \in Slots \ {s} : Agree(fat, fat', o[t]))
      /\ Held(fat', b2, g, Append(q, c))
  <2>1. CASE q = <<>>
    <3>1. fat' = fat
      BY <1>1, <1>3, <2>1 DEF LinkFat
    <3>2. Held(fat, b2, g, Append(q, c))
      BY <1>3, <1>4, <1>5, <2>1, FirstGiven
    <3> QED
      BY <1>2, <1>3, <3>1, <3>2, SameUseBy DEF Agree
  <2>2. CASE q # <<>>
    <3>1. f.clust \in Clusters /\ f.clust = q[Len(q)] /\ fat' = [fat EXCEPT ![f.clust] = c]
      BY <1>1, <1>3, <2>2 DEF LinkFat
    <3>2. c \in Link /\ c # 0 /\ EOC # 0
      BY <1>3, Nums DEF Link
    <3>3. /\ fat' \in [Clusters -> Link] /\ fat'[f.clust] = c /\ (\A d \in Clusters : d # f.clust => fat'[d] = fat[d])
      BY <1>3, <3>1, <3>2
    <3>4. f.clust \in Elems(q) /\ f.clust # c
      <4>1. Len(q) \in DOMAIN q
        BY <1>3, <2>2
      <4> QED
        BY <1>3, <3>1, <4>1 DEF Elems
    <3>5. \A t \in Slots \ {s} : Agree(fat, fat', o[t])
      BY <1>1, <1>3, <3>3, <3>4, AgreeApart, ZenonT(40)
    <3>6. SameUse
      <4>1. fat[f.clust] # 0
        BY <1>1, <1>2, <1>3, <3>4 DEF ChainsOK, InUse
      <4> QED
        BY <1>2, <3>2, <3>3, <4>1 DEF SameUse, InUse, ExFat
    <3>7. Joined(fat, b, q, c, fat', b2)
      BY <1>3, <1>5, <3>1, <3>3, <3>4 DEF Joined
    <3>8. Held(fat', b2, g, Append(q, c))
      BY <1>3, <1>4, <1>5, <2>2, <3>7, MoreGiven
    <3> QED
      BY <3>3, <3>5, <3>6, <3>8
  <2> QED
    BY <2>1, <2>2
<1>8. Giving(o, s, c, b2, g)
  BY <1>1, <1>2, <1>4, <1>5, <1>6, <1>7 DEF Giving, Got
<1> QED
  BY <1>4, <1>8, GiveStep

\* On exFAT the last fragment, not yet on the FAT, is told from what follows it.
Broken(b, f, q, b2) ==
    /\ q # <<>> /\ f.fptr = Len(q) /\ f.clust = q[Len(q)]
    /\ b2 = IF b.stat = 2 THEN [b EXCEPT !.n_cont = f.clust - b.sclust, !.stat = 3, !.n_frag = 1]
            ELSE [b EXCEPT !.n_frag = IF b.n_frag = 0 THEN 1 ELSE b.n_frag]

\* The chain is the same.
LEMMA BrokenHeld ==
    ASSUME NEW m, NEW b \in ObjSet, NEW f \in FileSet, NEW q \in Seq(Clusters), Held(m, b, f, q),
           NEW b2, Broken(b, f, q, b2)
    PROVE  /\ Held(m, b2, f, q) /\ b2 \in ObjSet /\ b2.n_frag > 0 /\ b2.stat # 2
           /\ b2.sclust = b.sclust /\ b2.objsize = b.objsize
           /\ b.n_frag > 0 \/ b2.n_frag = 1
<1>1. PICK n, a, k, x : n = Len(q) /\ a = b.sclust /\ k = b.n_frag /\ x = b.n_cont
  OBVIOUS
<1> q # <<>> /\ f.fptr = Len(q) /\ f.clust = q[Len(q)]
  BY DEF Broken
<1>2. /\ n \in Nat /\ n >= 1 /\ n \in 1 .. n /\ k \in Nat /\ k <= n /\ x \in Nat
      /\ b.objsize \in Nat /\ b.objsize <= n /\ a \in Nat /\ a # 0 /\ b.stat \in {0, 2, 3}
  <2>1. n \in Nat /\ n >= 1
    BY <1>1
  <2> QED
    BY <1>1, <2>1, Nums DEF Held, ObjSet
<1>3. CASE b.stat = 2
  <2>1. k = 0 /\ q = Contig(a, n)
    BY <1>1, <1>2, <1>3 DEF Held, BoundedMax
  <2>2. \A i \in 1 .. n : q[i] = a + i - 1
    BY <1>2, <2>1, ContigSeq
  <2>3. q[n] = a + n - 1
    BY <1>2, <2>2
  <2>4. f.clust - a = n - 1 /\ n - 1 \in Nat
    BY <1>1, <1>2, <2>3
  <2>5. b2 = [b EXCEPT !.n_cont = n - 1, !.stat = 3, !.n_frag = 1]
    BY <1>1, <1>3, <2>4 DEF Broken
  <2>6. /\ b2 \in ObjSet /\ b2.sclust = a /\ b2.objsize = b.objsize /\ b2.stat = 3 /\ b2.n_cont = n - 1 /\ b2.n_frag = 1
    BY <1>1, <2>4, <2>5 DEF ObjSet
  <2>7. Followed(m, b2, q)
    <3>1. FirstRun(b2) = n - 1
      BY <2>6 DEF FirstRun
    <3>2. \A i \in 1 .. Len(q) - 1 : ~(i > n - 1)
      BY <1>1, <1>2
    <3> QED
      BY <1>1, <1>2, <2>2, <2>6, <3>1, <3>2 DEF Followed
  <2>8. \A i \in 1 .. n : i > n - 1 => q[i] = q[n] - (n - i)
    <3> SUFFICES ASSUME NEW i \in 1 .. n, i > n - 1 PROVE q[i] = q[n] - (n - i)
      OBVIOUS
    <3>1. i = n
      BY <1>2
    <3> QED
      BY <1>2, <2>3, <3>1
  <2>9. q[1] = b2.sclust /\ b2.sclust # 0 /\ b2.objsize <= n /\ b2.n_frag <= n /\ b2.n_cont < n /\ b2.n_cont + b2.n_frag <= n
    BY <1>1, <1>2, <2>6 DEF Held
  <2>10. Held(m, b2, f, q)
    BY <1>1, <2>6, <2>7, <2>8, <2>9 DEF Held
  <2> QED
    BY <1>1, <2>6, <2>10
<1>4. CASE b.stat # 2
  <2>1. PICK k2 : k2 = IF k = 0 THEN 1 ELSE k
    OBVIOUS
  <2>2. k2 \in Nat /\ k2 > 0 /\ k2 <= n /\ k2 >= k /\ (k > 0 \/ k2 = 1) /\ (k2 # k => k = 0 /\ k2 = 1)
    BY <1>2, <2>1
  <2>3. b2 = [b EXCEPT !.n_frag = k2]
    BY <1>1, <1>4, <2>1 DEF Broken
  <2>4. /\ b2 \in ObjSet /\ b2.sclust = a /\ b2.objsize = b.objsize /\ b2.stat = b.stat /\ b2.n_cont = x /\ b2.n_frag = k2
    BY <1>1, <2>2, <2>3 DEF ObjSet
  <2>5. b.stat = 3 => x < n /\ x + k <= n /\ x + k2 <= n
    <3>1. b.stat = 3 => x < n /\ x + k <= n
      BY <1>1 DEF Held
    <3> QED
      BY <1>2, <2>2, <3>1
  <2>6. Followed(m, b2, q)
    <3>1. FirstRun(b2) = FirstRun(b)
      BY <1>1, <2>4 DEF FirstRun
    <3>2. /\ \A i \in 1 .. n : i <= FirstRun(b) + 1 => q[i] = a + i - 1
          /\ \A i \in 1 .. n - 1 : i > FirstRun(b) /\ i <= n - k => m[q[i]] = q[i + 1]
      BY <1>1, <1>4 DEF Held, Followed
    <3>3. \A i \in 1 .. n - 1 : i > FirstRun(b) /\ i <= n - k2 => m[q[i]] = q[i + 1]
      <4> SUFFICES ASSUME NEW i \in 1 .. n - 1, i > FirstRun(b), i <= n - k2 PROVE m[q[i]] = q[i + 1]
        OBVIOUS
      <4>1. i <= n - k
        BY <1>2, <2>2
      <4> QED
        BY <3>2, <4>1
    <3> QED
      BY <1>1, <2>4, <3>1, <3>2, <3>3 DEF Followed
  <2>7. \A i \in 1 .. n : i > n - k2 => q[i] = q[n] - (n - i)
    <3>1. CASE k2 = k
      BY <1>1, <1>4, <3>1 DEF Held
    <3>2. CASE k2 # k
      <4> SUFFICES ASSUME NEW i \in 1 .. n, i > n - k2 PROVE q[i] = q[n] - (n - i)
        OBVIOUS
      <4>1. i = n /\ q[n] \in Nat
        <5>1. q[n] \in Clusters
          BY <1>1, <1>2
        <5> QED
          BY <1>2, <2>2, <3>2, <5>1, Nums
      <4> QED
        BY <1>2, <4>1
    <3> QED
      BY <3>1, <3>2
  <2>8. q[1] = b2.sclust
    BY <1>1, <2>4 DEF Held
  <2>9. Held(m, b2, f, q)
    BY <1>1, <1>2, <1>4, <2>2, <2>4, <2>5, <2>6, <2>7, <2>8 DEF Held
  <2> QED
    BY <1>1, <1>4, <2>2, <2>4, <2>9
<1> QED
  BY <1>3, <1>4

\* A cluster given on exFAT without a write to the FAT.
LEMMA GiveExFat ==
    ASSUME NEW o, NEW r, IInv(o, r), LagInv, call.pc = "link", ExFat, NEW s, s = call.s, NEW c, c = call.ncl,
           UNCHANGED <<fs_type, volume, disk, pulls>>,
           NEW b, NEW b2 \in ObjSet, NEW g \in FileSet, Got(o[s], s, c, b, b2, g), Held(fat, b2, g, Append(o[s], c))
    PROVE  Kept1(o, r)
<1>1. Types /\ fat \in [Clusters -> Link] /\ call.pc \in {"link", "fill_link"}
  BY LinkHas
<1>2. UNCHANGED <<fat, bitmap, entry>>
  BY DEF volume
<1>3. DiskMoves /\ SameUse
  BY <1>1, <1>2, StaysMoves, SameUseBy
<1>4. Plain(b2)
  BY DEF Plain
<1>5. Giving(o, s, c, b2, g)
  BY <1>1, <1>2, <1>3, <1>4 DEF Giving, Got, Agree
<1> QED
  BY <1>5, GiveStep

\* LinkExFat keeps the invariant.
LEMMA StepLinkExFat ==
    ASSUME NEW o, NEW r, IInv(o, r), LagInv, LinkExFat PROVE Kept1(o, r)
<1>1. PICK s, q, b, f, c : s = call.s /\ q = o[s] /\ b = obj[s] /\ f = file[s] /\ c = call.ncl
  OBVIOUS
<1>2. /\ call.pc = "link" /\ ExFat /\ UNCHANGED <<fs_type, volume, win, disk, pulls>>
      /\ call.pc \in {"link", "fill_link"}
  BY DEF LinkExFat, bounds, volume
<1>3. /\ s \in Slots /\ q \in Seq(Clusters) /\ Alone(q) /\ b \in ObjSet /\ f \in FileSet
      /\ O = b /\ F = f /\ Types /\ call \in CallSet /\ obj \in [Slots -> ObjSet] /\ file \in [Slots -> FileSet]
      /\ Held(fat, b, f, q) /\ (q = <<>> <=> f.clust = 0) /\ (q = <<>> <=> b.sclust = 0)
      /\ q # <<>> => f.clust = q[Len(q)] /\ f.clust \in Clusters
      /\ c \in Clusters /\ f.open /\ f.fptr = Len(q) /\ f.fptr <= b.objsize /\ r = <<>>
      /\ b.n_frag > 0 => f.modified
      /\ call.op \in {"seek", "create"} /\ call.to \in Nat /\ f.fptr < call.to
      /\ call.op = "create" => f.modified
  <2>1. f.fptr <= b.objsize /\ f.fptr \in Nat /\ b.objsize \in Nat
    BY <1>1, <1>2, LinkHas DEF ObjSet, FileSet
  <2>2. b.n_frag > 0 => f.modified
    BY <1>1, <1>2, <2>1, LinkHas
  <2> QED
    BY <1>1, <1>2, <2>1, <2>2, LinkHas
<1>4. Fragmented(b) = IF b.stat = 2 /\ c # f.clust + 1 THEN [b EXCEPT !.n_cont = f.clust - b.sclust, !.stat = 3] ELSE b
  BY <1>1, <1>3 DEF Fragmented
<1>5. CASE f.clust = 0
  <2>1. PICK b1 : b1 = [Fragmented(b) EXCEPT !.stat = 2]
    OBVIOUS
  <2>2. q = <<>> /\ b.sclust = 0 /\ b.n_frag = 0 /\ f.clust - b.sclust = 0
    <3>1. q = <<>> /\ b.sclust = 0
      BY <1>3, <1>5
    <3>2. b.n_frag = 0
      BY <1>3, <3>1 DEF Held, ObjSet
    <3> QED
      BY <1>5, <3>1, <3>2
  <2>3. b1 \in ObjSet /\ b1.stat = 2 /\ b1.n_frag = 0 /\ b1.sclust = b.sclust /\ b1.objsize = b.objsize
    <3>1. b1 = [b EXCEPT !.n_cont = 0, !.stat = 2] \/ b1 = [b EXCEPT !.stat = 2]
      <4>1. Fragmented(b) = [b EXCEPT !.n_cont = 0, !.stat = 3] \/ Fragmented(b) = b
        BY <1>4, <2>2
      <4> QED
        BY <1>3, <2>1, <4>1 DEF ObjSet
    <3> QED
      BY <1>3, <2>2, <3>1 DEF ObjSet
  <2>4. GotCluster(b1)
    BY <1>3, <1>5, <2>1 DEF LinkExFat
  <2>5. PICK b2 \in ObjSet, g \in FileSet : Got(q, s, c, b1, b2, g)
    BY <1>1, <1>2, <2>3, <2>4, GotHas
  <2>6. Stretch(b, f, q, c, b2, g) /\ b2.n_frag = 0 /\ b2.stat = 2
    BY <1>1, <2>3, <2>5 DEF Got
  <2>7. Held(fat, b2, g, Append(q, c))
    BY <1>3, <2>2, <2>5, <2>6, FirstGiven
  <2> QED
    BY <1>1, <1>2, <2>5, <2>7, GiveExFat
<1>6. CASE f.clust # 0 /\ Fragmented(b).stat = 2
  <2>1. Fragmented(b) = b /\ b.stat = 2 /\ c = f.clust + 1
    <3>1. CASE b.stat = 2 /\ c # f.clust + 1
      BY <1>3, <1>4, <1>6, <3>1 DEF ObjSet
    <3>2. CASE ~(b.stat = 2 /\ c # f.clust + 1)
      BY <1>4, <1>6, <3>2
    <3> QED
      BY <3>1, <3>2
  <2>2. GotCluster(b)
    BY <1>3, <1>6, <2>1 DEF LinkExFat
  <2>3. PICK b2 \in ObjSet, g \in FileSet : Got(q, s, c, b, b2, g)
    BY <1>1, <1>2, <1>3, <2>2, GotHas
  <2>4. Stretch(b, f, q, c, b2, g) /\ b2.n_frag = 0 /\ b2.stat = 2
    BY <1>1, <1>3, <2>1, <2>3 DEF Got, Held
  <2>5. Held(fat, b2, g, Append(q, c))
    BY <1>3, <1>6, <2>1, <2>3, <2>4, NextGiven
  <2> QED
    BY <1>1, <1>2, <2>3, <2>5, GiveExFat
<1>7. CASE f.clust # 0 /\ Fragmented(b).stat # 2 /\ c = f.clust + 1
  <2>1. Fragmented(b) = b /\ b.stat # 2
    BY <1>4, <1>7
  <2>2. PICK b1 : b1 = [b EXCEPT !.n_frag = IF b.n_frag = 0 THEN 2 ELSE b.n_frag + 1]
    OBVIOUS
  <2>3. /\ b1 \in ObjSet /\ b1.sclust = b.sclust /\ b1.objsize = b.objsize /\ b1.stat = b.stat /\ b1.n_cont = b.n_cont
        /\ b1.n_frag = IF b.n_frag = 0 THEN 2 ELSE b.n_frag + 1
    <3>1. PICK k : k = IF b.n_frag = 0 THEN 2 ELSE b.n_frag + 1
      OBVIOUS
    <3>2. k \in Nat
      BY <1>3, <3>1 DEF ObjSet
    <3> QED
      BY <1>3, <2>2, <3>1, <3>2 DEF ObjSet
  <2>4. GotCluster(b1)
    BY <1>1, <1>3, <1>7, <2>1, <2>2 DEF LinkExFat
  <2>5. PICK b2 \in ObjSet, g \in FileSet : Got(q, s, c, b1, b2, g)
    BY <1>1, <1>2, <2>3, <2>4, GotHas
  <2>6. Stretch(b, f, q, c, b2, g) /\ b2.stat = b.stat /\ b2.n_cont = b.n_cont
        /\ b2.n_frag = IF b.n_frag = 0 THEN 2 ELSE b.n_frag + 1
    BY <1>1, <2>3, <2>5 DEF Got
  <2>7. q # <<>> /\ c = q[Len(q)] + 1
    BY <1>3, <1>7
  <2>8. Joined(fat, b, q, c, fat, b2)
    BY <2>6, <2>7 DEF Joined
  <2>9. Held(fat, b2, g, Append(q, c))
    BY <1>3, <2>1, <2>5, <2>6, <2>7, <2>8, MoreGiven
  <2> QED
    BY <1>1, <1>2, <2>5, <2>9, GiveExFat
<1>8. CASE f.clust # 0 /\ Fragmented(b).stat # 2 /\ c # f.clust + 1
  <2>1. PICK b2 : b2 = [Fragmented(b) EXCEPT !.n_frag = IF Fragmented(b).n_frag = 0 THEN 1 ELSE Fragmented(b).n_frag]
    OBVIOUS
  <2>2. /\ obj' = [obj EXCEPT ![s] = b2] /\ call' = [call EXCEPT !.pc = "fill_link"]
        /\ UNCHANGED <<free_clst, last_clst, fsi_flag, file>>
    BY <1>1, <1>3, <1>8, <2>1 DEF LinkExFat, SetObj, Goto, counts
  <2>3. Broken(b, f, q, b2)
    <3>1. CASE b.stat = 2
      <4>1. Fragmented(b) = [b EXCEPT !.n_cont = f.clust - b.sclust, !.stat = 3]
        BY <1>4, <1>8, <3>1
      <4>2. b.n_frag = 0
        BY <1>3, <3>1 DEF Held
      <4> QED
        BY <1>3, <1>8, <2>1, <3>1, <4>1, <4>2 DEF Broken, ObjSet
    <3>2. CASE b.stat # 2
      BY <1>3, <1>4, <1>8, <2>1, <3>2 DEF Broken
    <3> QED
      BY <3>1, <3>2
  <2>4. q # <<>> /\ f.clust = q[Len(q)]
    BY <1>3, <1>8
  <2>5. /\ Held(fat, b2, f, q) /\ b2 \in ObjSet /\ b2.n_frag > 0 /\ b2.stat # 2
        /\ b2.sclust = b.sclust /\ b2.objsize = b.objsize
        /\ b.n_frag > 0 \/ b2.n_frag = 1
    BY <1>3, <2>3, BrokenHeld
  <2>6. /\ call' \in CallSet /\ call'.pc = "fill_link" /\ call'.op = call.op /\ call'.s = s /\ call'.to = call.to
        /\ call'.ncl = c
    <3>1. "fill_link" \in Pcs
      BY DEF Pcs, Next1
    <3> QED
      BY <1>1, <1>3, <2>2, <3>1, CallGoes
  <2>7. DiskMoves /\ DiskStays /\ SameUse /\ UNCHANGED <<fat, bitmap, entry>>
    <3>1. UNCHANGED <<fat, bitmap, entry, disk>>
      BY <1>2 DEF volume
    <3> QED
      BY <1>2, <1>3, <3>1, StaysMoves, SameUseBy DEF DiskStays
  <2>8. obj' \in [Slots -> ObjSet] /\ obj'[s] = b2 /\ file'[s] = f /\ \A t \in Slots : t # s => obj'[t] = obj[t]
    BY <1>1, <1>3, <2>2, <2>5
  <2>9. /\ SlotInv(s, q) /\ entry[s].used /\ call.op # "rename" /\ call.pc # "erase"
        /\ b.sclust # 0 => b.objsize > 0 \/ f.fptr > 0
        /\ f.cut => f.modified
    <3>1. call.pc # "idle" /\ call.pc \in Seeking \union {"first"}
      BY <1>2 DEF Seeking, Next1
    <3> QED
      BY <1>1, <3>1, CallHas, OpenHas
  <2>10. SlotInv(s, q)'
    <3>1. SlotOK(s, q)'
      <4>1. ~Removing(s)' /\ Plain(b2) /\ entry'[s].used /\ fs_type' = fs_type /\ fat' = fat
        BY <1>2, <2>6, <2>7, <2>9 DEF Removing, Plain
      <4>2. b2.sclust # 0 => b2.objsize > 0 \/ f.fptr > 0
        BY <2>5, <2>9
      <4>3. f.fptr <= b2.objsize
        BY <1>3, <2>5
      <4>4. b2.n_frag > 0 => f.modified \/ f.fptr > b2.objsize \/ (call'.s = s /\ call'.pc = "fill_link" /\ b2.n_frag = 1)
        BY <1>3, <2>5, <2>6
      <4> QED
        BY <1>3, <2>5, <2>8, <2>9, <4>1, <4>2, <4>3, <4>4, OpenSlot
    <3>2. (Settled(s)' => Settled(s)) /\ (Quiet(s)' => Quiet(s)) /\ obj'[s].sclust = obj[s].sclust
      BY <1>1, <1>2, <2>2, <2>5, <2>6, <2>7, <2>8, <2>9 DEF Settled, Quiet, ExFat
    <3>3. Kept(s, q)' /\ OnDisk(s, q)'
      BY <1>1, <1>3, <2>7, <2>9, <3>2, OwnSame
    <3> QED
      BY <3>1, <3>3 DEF SlotInv
  <2>11. \A t \in Slots : SlotInv(t, o[t])'
    <3>1. \A t \in Slots \ {s} : Agree(fat, fat', o[t])
      BY <2>7, AgreeSame
    <3>2. call'.op # "rename" /\ call'.pc # "erase" /\ call.s = s /\ call'.s = s /\ fs_type' = fs_type
      BY <1>1, <1>2, <2>6, <2>9
    <3> QED
      BY <1>1, <1>3, <2>2, <2>7, <2>8, <2>9, <2>10, <3>1, <3>2, SlotsStep
  <2>12. Types'
    BY <1>2, <1>3, <2>2, <2>6, <2>7, <2>8, TypesStep DEF Types
  <2>13. CallOK(o, r)'
    <3>1. F' = f /\ O' = b2 /\ (ExFat' <=> ExFat)
      BY <1>1, <1>2, <2>2, <2>6, <2>8 DEF F, O, ExFat
    <3>2. SeekOK(q)'
      BY <1>2, <1>3, <1>8, <2>4, <2>5, <2>6, <3>1 DEF SeekOK, Seeking, Next1
    <3>3. LinkOK(o)'
      <4>1. LinkOK(o)
        BY DEF IInv, CallOK
      <4>2. InUse(c)' <=> InUse(c)
        BY <1>3, <2>7 DEF SameUse
      <4> QED
        BY <1>1, <1>2, <2>2, <2>6, <2>7, <3>1, <4>1, <4>2 DEF LinkOK
    <3>4. RemoveOK(o, r)' /\ SyncOK'
      BY <2>6, <2>9 DEF RemoveOK, SyncOK
    <3> QED
      BY <1>1, <1>3, <2>6, <3>2, <3>3, <3>4 DEF CallOK
  <2>14. Limbo(r) \subseteq Limbo(r)' /\ Pending' = Pending
    BY <1>1, <1>2, <2>6 DEF Limbo, Pending
  <2>15. Torn => Torn'
    BY <1>2, <2>2, <2>6 DEF Torn, ExFat
  <2> QED
    BY <1>2, <2>2, <2>7, <2>11, <2>12, <2>13, <2>14, <2>15, UseStep
<1> QED
  BY <1>5, <1>6, <1>7, <1>8

\* FillAndLink keeps the invariant.
LEMMA StepFillAndLink ==
    ASSUME NEW o, NEW r, IInv(o, r), LagInv, FillAndLink PROVE Kept1(o, r)
<1>1. PICK s, q, b, f, c, e, x : /\ s = call.s /\ q = o[s] /\ b = obj[s] /\ f = file[s] /\ c = call.ncl
                                 /\ e = f.clust - b.n_frag + 1 /\ x = IF b.n_frag > 1 THEN e + 1 ELSE c
  OBVIOUS
<1>2. /\ call.pc = "fill_link" /\ UNCHANGED <<fs_type, bitmap, entry, pulls>>
      /\ call.pc \in {"link", "fill_link"} /\ \E R, sect : Modify(R, sect)
  BY DEF FillAndLink, FillLast, bounds
<1>3. /\ s \in Slots /\ q \in Seq(Clusters) /\ Alone(q) /\ b \in ObjSet /\ f \in FileSet
      /\ O = b /\ F = f /\ Types /\ call \in CallSet /\ ChainsOK(o, r) /\ fat \in [Clusters -> Link]
      /\ obj \in [Slots -> ObjSet] /\ file \in [Slots -> FileSet]
      /\ Held(fat, b, f, q) /\ q # <<>>
      /\ f.clust = q[Len(q)] /\ f.clust \in Clusters
      /\ c \in Clusters /\ f.open /\ f.fptr = Len(q) /\ r = <<>>
      /\ ExFat /\ b.n_frag > 0 /\ b.stat # 2 /\ b.n_frag \in Nat /\ f.fptr <= b.objsize
      /\ c \notin Elems(q) /\ c # f.clust + 1
      /\ call.op \in {"seek", "create"} /\ call.to \in Nat /\ f.fptr < call.to
      /\ call.op = "create" => f.modified
      /\ b.n_frag > 1 => f.modified
  <2>1. /\ f.fptr <= b.objsize /\ f.fptr \in Nat /\ b.objsize \in Nat /\ b.n_frag \in Nat
    BY <1>1, <1>2, LinkHas DEF ObjSet, FileSet
  <2>2. b.n_frag > 1 => f.modified
    BY <1>1, <1>2, <2>1, LinkHas
  <2> QED
    BY <1>1, <1>2, <2>1, <2>2, LinkHas
<1>4. fat' = [fat EXCEPT ![e] = x]
  BY <1>1, <1>3 DEF FillAndLink, FillLast
<1>5. CASE b.n_frag > 1
  <2>1. PICK b2 : b2 = [b EXCEPT !.n_frag = b.n_frag - 1]
    OBVIOUS
  <2>2. /\ obj' = [obj EXCEPT ![s] = b2] /\ UNCHANGED <<free_clst, last_clst, fsi_flag, file, call>>
    BY <1>1, <1>3, <1>5, <2>1 DEF FillAndLink, SetObj, counts
  <2>3. Filling(fat, b, f, e, x, fat', b2)
    BY <1>1, <1>3, <1>4, <1>5, <2>1 DEF Filling
  <2>4. /\ Held(fat', b2, f, q) /\ e \in Elems(q) /\ x \in Link /\ b2 \in ObjSet
        /\ b2.sclust = b.sclust /\ b2.objsize = b.objsize /\ b2.stat = b.stat /\ b2.n_frag = b.n_frag - 1
    BY <1>3, <2>3, FillHeld
  <2>5. b2.n_frag > 0
    BY <1>3, <1>5, <2>4
  <2>6. FillsOwn(o, s, e, x, b2)
    BY <1>1, <1>2, <1>3, <1>4, <1>5, <2>2, <2>4 DEF FillsOwn
  <2>7. CallOK(o, r)'
    <3>1. F' = f /\ O' = b2 /\ (ExFat' <=> ExFat) /\ call' = call
      BY <1>1, <1>2, <1>3, <2>2, <2>4 DEF F, O, ExFat
    <3>2. SeekOK(q)'
      BY <1>1, <1>2, <1>3, <2>4, <2>5, <3>1 DEF SeekOK, Seeking, Next1
    <3>3. LinkOK(o)'
      <4>1. LinkOK(o)
        BY DEF IInv, CallOK
      <4>2. InUse(c)' <=> InUse(c)
        BY <1>2, <1>3, <3>1 DEF InUse
      <4> QED
        BY <1>1, <1>2, <1>3, <2>2, <3>1, <4>1, <4>2 DEF LinkOK
    <3>4. RemoveOK(o, r)' /\ SyncOK'
      BY <1>2, <1>3, <3>1 DEF RemoveOK, SyncOK
    <3> QED
      BY <1>1, <1>2, <1>3, <3>1, <3>2, <3>3, <3>4 DEF CallOK
  <2> QED
    BY <1>1, <2>4, <2>6, <2>7, FillOwn
<1>6. CASE ~(b.n_frag > 1)
  <2>1. b.n_frag = 1 /\ e = f.clust /\ x = c
    <3>1. b.n_frag = 1
      BY <1>3, <1>6
    <3>2. f.clust \in Nat
      BY <1>3, Nums
    <3> QED
      BY <1>1, <1>6, <3>1, <3>2
  <2>2. GotCluster(b)
    <3>1. GotCluster([b EXCEPT !.n_frag = 1])
      BY <1>3, <1>6 DEF FillAndLink
    <3>2. [b EXCEPT !.n_frag = 1] = b
      BY <1>3, <2>1 DEF ObjSet
    <3> QED
      BY <3>1, <3>2
  <2>3. PICK b2 \in ObjSet, g \in FileSet : Got(q, s, c, b, b2, g)
    BY <1>1, <1>2, <1>3, <2>2, GotHas
  <2>4. Stretch(b, f, q, c, b2, g) /\ b2.stat = b.stat /\ b2.n_cont = b.n_cont /\ b2.n_frag = 1
    BY <1>1, <2>1, <2>3 DEF Got
  <2>5. c \in Link
    BY <1>3 DEF Link
  <2>6. /\ fat' \in [Clusters -> Link] /\ fat'[f.clust] = c /\ (\A d \in Clusters : d # f.clust => fat'[d] = fat[d])
    BY <1>3, <1>4, <2>1, <2>5
  <2>7. f.clust \in Elems(q)
    <3>1. Len(q) \in DOMAIN q
      BY <1>3
    <3> QED
      BY <1>3, <3>1 DEF Elems
  <2>8. \A t \in Slots \ {s} : Agree(fat, fat', o[t])
    <3>1. PICK y : y = f.clust
      OBVIOUS
    <3>2. y \in Elems(o[s]) /\ \A d \in Clusters : d # y => fat'[d] = fat[d]
      BY <1>1, <2>6, <2>7, <3>1
    <3> QED
      BY <1>3, <3>2, AgreeApart
  <2>9. SameUse
    BY <1>2, <1>3 DEF SameUse, InUse, ExFat
  <2>10. Joined(fat, b, q, c, fat', b2)
    BY <1>3, <2>1, <2>4, <2>6 DEF Joined
  <2>11. Held(fat', b2, g, Append(q, c))
    BY <1>3, <2>3, <2>4, <2>10, MoreGiven
  <2>12. DiskMoves /\ Plain(b2)
    BY <1>2, <1>3, ModifyMoves DEF Plain
  <2>13. Giving(o, s, c, b2, g)
    BY <1>1, <1>2, <2>3, <2>4, <2>6, <2>8, <2>9, <2>11, <2>12 DEF Giving, Got
  <2> QED
    BY <2>3, <2>13, GiveStep
<1> QED
  BY <1>5, <1>6

\* A chain is cut after its n-th cluster; r is what comes off.
CutAt(o, s, n, p, r) ==
    /\ n \in 0 .. Len(o[s])
    /\ p = [o EXCEPT ![s] = SubSeq(o[s], 1, n)]
    /\ r = SubSeq(o[s], n + 1, Len(o[s]))
CutInto(q, n, z, r) ==
    /\ z \in Seq(Clusters) /\ Len(z) = n /\ \A i \in 1 .. n : z[i] = q[i]
    /\ r \in Seq(Clusters) /\ Len(r) = Len(q) - n /\ \A i \in 1 .. Len(r) : n + i \in 1 .. Len(q) /\ r[i] = q[n + i]
    /\ Alone(z) /\ Alone(r)
    /\ Elems(q) = Elems(z) \union Elems(r)
    /\ \A c \in Elems(z) : c \notin Elems(r)

\* The two parts share nothing and leave nothing out.
LEMMA CutApart ==
    ASSUME NEW q \in Seq(Clusters), Alone(q), NEW n \in 0 .. Len(q), NEW z, z = SubSeq(q, 1, n),
           NEW r, r = SubSeq(q, n + 1, Len(q))
    PROVE  CutInto(q, n, z, r)
<1>1. PICK l : l = Len(q) /\ l \in Nat /\ n \in Nat /\ n <= l
  OBVIOUS
<1>2. z \in Seq(Clusters) /\ Len(z) = n /\ \A i \in 1 .. n : z[i] = q[i]
  BY <1>1
<1>3. r \in Seq(Clusters) /\ Len(r) = l - n
  BY <1>1
<1>4. \A i \in 1 .. l - n : n + i \in 1 .. l /\ r[i] = q[n + i]
  <2> TAKE i \in 1 .. l - n
  <2>1. n + i \in 1 .. l /\ n + 1 \in 1 .. l
    BY <1>1
  <2>2. r[i] = q[n + 1 + i - 1]
    BY <1>1, <2>1
  <2>3. n + 1 + i - 1 = n + i
    BY <1>1
  <2> QED
    BY <2>1, <2>2, <2>3
<1>5. DOMAIN q = 1 .. l /\ DOMAIN z = 1 .. n /\ DOMAIN r = 1 .. l - n
  BY <1>1, <1>2, <1>3
<1>6. Alone(z)
  BY <1>1, <1>2, <1>5 DEF Alone
<1>7. Alone(r)
  <2> SUFFICES ASSUME NEW i \in 1 .. l - n, NEW j \in 1 .. l - n, r[i] = r[j] PROVE i = j
    BY <1>5 DEF Alone
  <2>1. n + i \in DOMAIN q /\ n + j \in DOMAIN q /\ q[n + i] = q[n + j]
    BY <1>4, <1>5
  <2>2. n + i = n + j
    BY <2>1 DEF Alone
  <2> QED
    BY <1>1, <2>2
<1>8. ASSUME NEW i \in 1 .. n, NEW j \in 1 .. l - n PROVE z[i] # r[j]
  <2>1. i \in DOMAIN q /\ n + j \in DOMAIN q /\ i # n + j
    BY <1>1, <1>4, <1>5
  <2>2. q[i] # q[n + j]
    BY <2>1 DEF Alone
  <2> QED
    BY <1>2, <1>4, <2>2
<1>9. \A c \in Elems(z) : c \notin Elems(r)
  BY <1>5, <1>8 DEF Elems
<1>10. Elems(q) = Elems(z) \union Elems(r)
  <2>1. ASSUME NEW i \in 1 .. l PROVE q[i] \in Elems(z) \union Elems(r)
    <3>1. CASE i <= n
      <4>1. i \in 1 .. n
        BY <1>1, <3>1
      <4> QED
        BY <1>2, <1>5, <4>1 DEF Elems
    <3>2. CASE ~(i <= n)
      <4>1. i - n \in 1 .. l - n /\ n + (i - n) = i
        BY <1>1, <3>2
      <4>2. r[i - n] = q[i]
        BY <1>4, <4>1
      <4> QED
        BY <1>5, <4>1, <4>2 DEF Elems
    <3> QED
      BY <3>1, <3>2
  <2>2. \A i \in 1 .. n : z[i] \in Elems(q)
    BY <1>1, <1>2, <1>5, SMTT(40) DEF Elems
  <2>3. \A i \in 1 .. l - n : r[i] \in Elems(q)
    BY <1>4, <1>5 DEF Elems
  <2> QED
    BY <1>5, <2>1, <2>2, <2>3, ZenonT(40) DEF Elems
<1> QED
  BY <1>1, <1>2, <1>3, <1>4, <1>6, <1>7, <1>9, <1>10 DEF CutInto

\* It is a Cut of ClusterOwners.
LEMMA CutChains ==
    ASSUME NEW o, NEW r, ChainsOK(o, r), r = <<>>, NEW s \in Slots, NEW n, NEW p, NEW r2, CutAt(o, s, n, p, r2)
    PROVE  /\ ChainsOK(p, r2) /\ Owners!Cut(s, o, p) /\ CutInto(o[s], n, p[s], r2)
           /\ \A t \in Slots : t # s => p[t] = o[t]
<1>1. PICK q : q = o[s] /\ q \in Seq(Clusters) /\ Alone(q)
  BY ChainsAlone
<1>2. n \in 0 .. Len(q) /\ p = [o EXCEPT ![s] = SubSeq(q, 1, n)] /\ r2 = SubSeq(q, n + 1, Len(q))
  BY <1>1 DEF CutAt
<1>3. o \in [Slots -> Seq(Clusters)] /\ Owners!Apart(o) /\ \A t \in Slots : \A c \in Elems(o[t]) : InUse(c)
  BY DEF ChainsOK
<1>4. p[s] = SubSeq(q, 1, n) /\ \A t \in Slots : t # s => p[t] = o[t]
  BY <1>2, <1>3
<1>5. CutInto(q, n, p[s], r2)
  BY <1>1, <1>2, <1>4, CutApart
<1>6. p \in [Slots -> Seq(Clusters)] /\ r2 \in Seq(Clusters) /\ Alone(r2) /\ Alone(p[s])
  BY <1>2, <1>3, <1>4, <1>5 DEF CutInto
<1>7. Elems(q) = Elems(p[s]) \union Elems(r2) /\ \A c \in Elems(p[s]) : c \notin Elems(r2)
  BY <1>5 DEF CutInto
<1>8. \A t \in Slots : t # s => \A c \in Elems(o[t]) : c \notin Elems(q)
  BY <1>1, <1>3 DEF Owners!Apart, Elems
<1>9. Owners!Apart(p)
  <2>1. ASSUME NEW t \in Slots, NEW i \in DOMAIN p[t], NEW j \in DOMAIN p[t], p[t][i] = p[t][j] PROVE i = j
    <3>1. CASE t = s
      BY <1>6, <2>1, <3>1 DEF Alone
    <3>2. CASE t # s
      BY <1>3, <1>4, <2>1, <3>2 DEF Owners!Apart
    <3> QED
      BY <3>1, <3>2
  <2>2. ASSUME NEW t \in Slots, NEW u \in Slots, t # u, NEW i \in DOMAIN p[t], NEW j \in DOMAIN p[u] PROVE p[t][i] # p[u][j]
    <3>1. p[t][i] \in Elems(p[t]) /\ p[u][j] \in Elems(p[u])
      BY <2>2 DEF Elems
    <3>2. Elems(p[t]) \subseteq Elems(o[t]) /\ Elems(p[u]) \subseteq Elems(o[u])
      BY <1>1, <1>4, <1>7
    <3>3. \A x \in Elems(o[t]) : x \notin Elems(o[u])
      BY <1>3, <2>2 DEF Owners!Apart, Elems
    <3> QED
      BY <3>1, <3>2, <3>3
  <2> QED
    BY <2>1, <2>2 DEF Owners!Apart
<1>10. \A t \in Slots : \A c \in Elems(p[t]) : InUse(c) /\ c \notin Elems(r2)
  <2> TAKE t \in Slots
  <2>1. CASE t = s
    BY <1>1, <1>3, <1>7, <2>1
  <2>2. CASE t # s
    BY <1>3, <1>4, <1>7, <1>8, <2>2
  <2> QED
    BY <2>1, <2>2
<1>11. \A c \in Elems(r2) : InUse(c)
  BY <1>1, <1>3, <1>7
<1>12. Owners!Cut(s, o, p)
  <2>1. Len(p[s]) = n /\ n <= Len(q)
    BY <1>1, <1>2, <1>5 DEF CutInto
  <2> QED
    BY <1>1, <1>4, <2>1 DEF Owners!Cut
<1> QED
  BY <1>1, <1>4, <1>5, <1>6, <1>9, <1>10, <1>11, <1>12 DEF ChainsOK

\* What is left of a file's chain when it is about to be removed from n on.
Shortened(b, f, n, c) ==
    /\ b.n_frag = 0 /\ n = f.fptr /\ n < b.objsize
    /\ c.pclst = IF n = 0 THEN 0 ELSE f.clust
    /\ n > 0 /\ b.stat # 2 => c.pc = "cut"

\* What is left is what the file is asked to shrink to.
LEMMA ShrinkHeld ==
    ASSUME NEW m, NEW b \in ObjSet, NEW f \in FileSet, NEW q \in Seq(Clusters), Held(m, b, f, q), NEW n,
           NEW z, NEW r, CutInto(q, n, z, r), NEW c, Shortened(b, f, n, c)
    PROVE  Shrinking(m, b, f, c, z)
<1>1. /\ b.n_frag = 0 /\ n = f.fptr /\ n < b.objsize /\ c.pclst = IF n = 0 THEN 0 ELSE f.clust
      /\ n > 0 /\ b.stat # 2 => c.pc = "cut"
  BY DEF Shortened
<1>2. z \in Seq(Clusters) /\ Len(z) = n /\ \A i \in 1 .. n : z[i] = q[i]
  BY DEF CutInto
<1>3. /\ n \in Nat /\ n < Len(q) /\ Len(q) \in Nat /\ b.sclust \in Nat /\ b.objsize \in Nat /\ b.objsize <= Len(q)
  <2>1. n \in Nat /\ Len(q) \in Nat /\ b.sclust \in Nat /\ b.objsize \in Nat /\ b.objsize <= Len(q)
    BY <1>1, Nums DEF FileSet, ObjSet, Held
  <2> QED
    BY <1>1, <2>1
<1>4. n = 0 <=> z = <<>>
  BY <1>2, <1>3
<1>5. CASE n = 0
  BY <1>1, <1>2, <1>4, <1>5 DEF Shrinking
<1>6. CASE n # 0
  <2>1. n > 0 /\ n \in 1 .. n /\ 1 \in 1 .. n /\ n \in 1 .. Len(q) /\ q # <<>>
    BY <1>3, <1>6
  <2>2. f.clust = q[n] /\ q[1] = b.sclust
    BY <1>1, <2>1 DEF Held
  <2>3. z[1] = b.sclust /\ z[n] = f.clust /\ f.clust # 0
    <3>1. q[n] \in Clusters
      BY <2>1
    <3> QED
      BY <1>2, <2>1, <2>2, <3>1, Nums
  <2>4. b.stat = 2 => z = Contig(b.sclust, n)
    <3> SUFFICES ASSUME b.stat = 2 PROVE z = Contig(b.sclust, n)
      OBVIOUS
    <3>1. PICK k : k = BoundedMax(b.objsize, f.fptr)
      OBVIOUS
    <3>2. k \in Nat /\ n <= k
      BY <1>1, <1>3, <3>1 DEF BoundedMax
    <3>3. q = Contig(b.sclust, k)
      BY <3>1 DEF Held
    <3>4. /\ Len(Contig(b.sclust, n)) = n /\ \A i \in 1 .. n : Contig(b.sclust, n)[i] = b.sclust + i - 1
      BY <1>3, ContigSeq
    <3>5. \A i \in 1 .. k : q[i] = b.sclust + i - 1
      BY <1>3, <3>2, <3>3, ContigSeq
    <3>6. \A i \in 1 .. n : i \in 1 .. k
      BY <1>3, <3>2
    <3>7. \A i \in 1 .. n : z[i] = Contig(b.sclust, n)[i]
      BY <1>2, <3>4, <3>5, <3>6
    <3>8. Contig(b.sclust, n) \in Seq(Nat)
      BY <1>3 DEF Contig
    <3> QED
      BY <1>2, <3>4, <3>7, <3>8
  <2>5. b.stat # 2 => Followed(m, b, z)
    <3> SUFFICES ASSUME b.stat # 2 PROVE Followed(m, b, z)
      OBVIOUS
    <3>1. /\ \A i \in 1 .. Len(q) : i <= FirstRun(b) + 1 => q[i] = b.sclust + i - 1
          /\ \A i \in 1 .. Len(q) - 1 : i > FirstRun(b) /\ i <= Len(q) - b.n_frag => m[q[i]] = q[i + 1]
      BY DEF Held, Followed
    <3>2. \A i \in 1 .. n : i \in 1 .. Len(q)
      BY <1>3
    <3>3. \A i \in 1 .. n - 1 : i \in 1 .. Len(q) - 1 /\ i <= Len(q) - b.n_frag /\ i \in 1 .. n /\ i + 1 \in 1 .. n
      BY <1>1, <1>3
    <3> QED
      BY <1>2, <3>1, <3>2, <3>3 DEF Followed
  <2> QED
    BY <1>1, <1>2, <1>4, <1>6, <2>1, <2>3, <2>4, <2>5 DEF Shrinking
<1> QED
  BY <1>5, <1>6

\* get_fat leads along what is to be removed.
LEMMA RestGet ==
    ASSUME Types, NEW b \in ObjSet, NEW f \in FileSet, NEW q \in Seq(Clusters), Alone(q), Held(fat, b, f, q), Plain(b),
           NEW n, NEW z, NEW r, CutInto(q, n, z, r), b.n_frag = 0, b.objsize > 0, f.fptr <= b.objsize
    PROVE  \A i \in 1 .. Len(r) : r[i] \in Clusters /\ GetFat(b, r[i]) = IF i < Len(r) THEN r[i + 1] ELSE EOC
<1> TAKE i \in 1 .. Len(r)
<1>1. /\ Len(r) = Len(q) - n /\ Len(z) = n /\ n + i \in 1 .. Len(q) /\ r[i] = q[n + i]
      /\ i < Len(r) => i + 1 \in 1 .. Len(r) /\ r[i + 1] = q[n + (i + 1)]
      /\ n \in Nat /\ Len(q) \in Nat
  <2>1. /\ z \in Seq(Clusters) /\ Len(z) = n /\ Len(r) = Len(q) - n /\ r \in Seq(Clusters)
        /\ \A k \in 1 .. Len(r) : n + k \in 1 .. Len(q) /\ r[k] = q[n + k]
    BY DEF CutInto
  <2>2. i < Len(r) => i + 1 \in 1 .. Len(r)
    BY <2>1
  <2> QED
    BY <2>1, <2>2
<1>2. PICK k : k = n + i
  OBVIOUS
<1>3. k \in 1 .. Len(q) /\ q[k] = r[i] /\ q[k] \in Clusters
  BY <1>1, <1>2
<1>4. GetFat(b, q[k]) = IF k < Len(q) THEN q[k + 1] ELSE EOC
  BY <1>3, HeldGet
<1>5. (k < Len(q) <=> i < Len(r)) /\ k + 1 = n + (i + 1)
  BY <1>1, <1>2
<1> QED
  BY <1>1, <1>3, <1>4, <1>5

\* What the step hands over to remove_chain.
Removes(s, q, b, f, n, c) ==
    /\ obj'[s] = b /\ file' = [file EXCEPT ![s] = [f EXCEPT !.cut = TRUE]]
    /\ LET d == IF n = 0 THEN 0 ELSE f.clust IN
       call' = [call EXCEPT !.pc = IF d # 0 /\ ~(ExFat /\ b.stat = 2) THEN "cut" ELSE "free",
                            !.clst = c, !.pclst = d, !.scl = c, !.ecl = c]

\* SeekedCut keeps the invariant.
LEMMA StepSeekedCut ==
    ASSUME NEW o, NEW r, IInv(o, r), LagInv, Seeked, call.op \notin {"seek", "create"} PROVE Kept1(o, r)
<1>1. PICK s, q, b, f, n : s = call.s /\ q = o[s] /\ b = obj[s] /\ f = file[s] /\ n = f.fptr
  OBVIOUS
<1>2. /\ call.pc = "seeked" /\ call.pc # "idle" /\ call.pc \in Seeking \union {"first"}
      /\ UNCHANGED <<fs_type, fat, bitmap, entry, free_clst, last_clst, fsi_flag, pulls>>
      /\ call.pc \notin Handing
  BY DEF Seeked, volume, counts, bounds, Seeking, Next1, Handing
<1>3. /\ s \in Slots /\ q \in Seq(Clusters) /\ Alone(q) /\ SlotInv(s, q) /\ b \in ObjSet /\ f \in FileSet /\ Types /\ call \in CallSet
      /\ O = b /\ F = f /\ SeekOK(q) /\ call.ncl = 0
      /\ obj \in [Slots -> ObjSet] /\ file \in [Slots -> FileSet] /\ ChainsOK(o, r)
  BY <1>1, <1>2, CallHas DEF IInv
<1>4. /\ f.open /\ entry[s].used /\ Plain(b) /\ Held(fat, b, f, q) /\ r = <<>> /\ call.op # "rename" /\ call.pc # "erase"
      /\ ~ExFat => b.stat = 0
  BY <1>1, <1>2, OpenHas
<1>5. call.op = "truncate" /\ n < b.objsize /\ b.n_frag = 0
  BY <1>1, <1>2, <1>3 DEF SeekOK, Seeking, Next1
<1>6. /\ n \in Nat /\ b.objsize \in Nat /\ Len(q) \in Nat /\ n < Len(q) /\ n <= b.objsize /\ b.objsize > 0 /\ q # <<>>
      /\ n + 1 \in 1 .. Len(q)
  <2>1. n \in Nat /\ b.objsize \in Nat /\ Len(q) \in Nat /\ b.objsize <= Len(q)
    BY <1>1, <1>3, <1>4 DEF FileSet, ObjSet, Held
  <2>2. n < Len(q) /\ n <= b.objsize /\ b.objsize > 0 /\ n + 1 \in 1 .. Len(q)
    BY <1>5, <2>1
  <2> QED
    BY <2>1, <2>2
<1>7. PICK z, r2, p, d : /\ z = SubSeq(q, 1, n) /\ r2 = SubSeq(q, n + 1, Len(q)) /\ p = [o EXCEPT ![s] = z]
                         /\ d = q[n + 1]
  OBVIOUS
<1>8. /\ ChainsOK(p, r2) /\ Owners!Cut(s, o, p) /\ CutInto(q, n, z, r2) /\ p[s] = z
      /\ \A t \in Slots : t # s => p[t] = o[t]
  <2>1. CutAt(o, s, n, p, r2)
    BY <1>1, <1>6, <1>7 DEF CutAt
  <2>2. p[s] = z
    BY <1>3, <1>7 DEF ChainsOK
  <2> QED
    BY <1>1, <1>3, <1>4, <2>1, <2>2, CutChains
<1>9. /\ z \in Seq(Clusters) /\ Len(z) = n /\ r2 \in Seq(Clusters) /\ Len(r2) = Len(q) - n /\ Len(r2) \in Nat /\ Len(r2) > 0 /\ r2 # <<>>
      /\ d \in Clusters /\ r2[1] = d /\ Elems(q) = Elems(z) \union Elems(r2)
  <2>1. /\ z \in Seq(Clusters) /\ Len(z) = n /\ r2 \in Seq(Clusters) /\ Len(r2) = Len(q) - n
        /\ \A i \in 1 .. Len(r2) : n + i \in 1 .. Len(q) /\ r2[i] = q[n + i]
        /\ Elems(q) = Elems(z) \union Elems(r2)
    BY <1>8 DEF CutInto
  <2>2. Len(r2) \in Nat /\ Len(r2) > 0 /\ 1 \in 1 .. Len(r2) /\ r2 # <<>>
    BY <1>6, <2>1
  <2>3. r2[1] = d /\ d \in Clusters
    BY <1>3, <1>6, <1>7, <2>1, <2>2
  <2> QED
    BY <2>1, <2>2, <2>3
<1>10. n > 0 => f.clust = q[n] /\ f.clust \in Clusters /\ f.clust # 0
  <2> SUFFICES ASSUME n > 0 PROVE f.clust = q[n] /\ f.clust \in Clusters /\ f.clust # 0
    OBVIOUS
  <2>1. n \in 1 .. Len(q)
    BY <1>6
  <2>2. f.clust = q[n] /\ q[n] \in Clusters
    BY <1>1, <1>3, <1>4, <2>1 DEF Held
  <2> QED
    BY <2>2, Nums
<1>11. /\ Removes(s, q, b, f, n, d) /\ obj' = obj
       /\ UNCHANGED disk \/ \E R : Read(R)
  <2>1. CASE n = 0
    <3>1. /\ call' = [call EXCEPT !.pc = "free", !.clst = O.sclust, !.pclst = 0, !.scl = O.sclust, !.ecl = O.sclust]
          /\ file' = [file EXCEPT ![call.s] = [F EXCEPT !.cut = TRUE]] /\ UNCHANGED <<disk, obj>>
      BY <1>1, <1>3, <1>5, <2>1 DEF Seeked, Remove, SetFile
    <3>2. O.sclust = d
      BY <1>3, <1>4, <1>6, <1>7, <2>1 DEF Held
    <3> QED
      BY <1>1, <1>3, <2>1, <3>1, <3>2 DEF Removes
  <2>2. CASE n # 0
    <3>1. n > 0 /\ n \in 1 .. Len(q)
      BY <1>6, <2>2
    <3>2. GetFat(b, q[n]) = d
      <4>1. GetFat(b, q[n]) = IF n < Len(q) THEN q[n + 1] ELSE EOC
        <5>1. Types /\ Alone(q) /\ Held(fat, b, f, q) /\ Plain(b) /\ f.fptr <= b.objsize /\ b.objsize > 0
              /\ ~(b.n_frag > 0) /\ n \in 1 .. Len(q)
          BY <1>1, <1>3, <1>4, <1>5, <1>6, <3>1
        <5>2. b \in ObjSet /\ f \in FileSet /\ q \in Seq(Clusters)
          BY <1>3
        <5> QED
          BY <5>1, <5>2, HeldGet
      <4> QED
        BY <1>6, <1>7, <4>1
    <3>3. GetFat(O, F.clust) = d
      BY <1>3, <1>10, <3>1, <3>2
    <3>4. /\ \E R : Read(R)
          /\ Remove(d, F.clust) /\ file' = [file EXCEPT ![call.s] = [F EXCEPT !.cut = TRUE]] /\ UNCHANGED obj
      BY <1>1, <1>3, <1>5, <1>9, <2>2, <3>3 DEF Seeked, SetFile
    <3>5. call' = [call EXCEPT !.pc = IF f.clust # 0 /\ ~(ExFat /\ b.stat = 2) THEN "cut" ELSE "free",
                         !.clst = d, !.pclst = f.clust, !.scl = d, !.ecl = d]
      BY <1>3, <3>4 DEF Remove
    <3> QED
      BY <1>1, <1>3, <2>2, <3>4, <3>5 DEF Removes
  <2> QED
    BY <2>1, <2>2
<1>12. PICK pcl, pc2 : pcl = (IF n = 0 THEN 0 ELSE f.clust) /\ pc2 = IF pcl # 0 /\ ~(ExFat /\ b.stat = 2) THEN "cut" ELSE "free"
  OBVIOUS
<1>13. pcl \in Cluster0 /\ pc2 \in {"cut", "free"} /\ pc2 \in Pcs
  BY <1>3, <1>12 DEF FileSet, Cluster0, Pcs
<1>14. /\ call' \in CallSet /\ call'.pc = pc2 /\ call'.op = "truncate" /\ call'.s = s /\ call'.ncl = 0
       /\ call'.clst = d /\ call'.pclst = pcl /\ call'.scl = d /\ call'.ecl = d
  <2>1. call' = [call EXCEPT !.pc = pc2, !.clst = d, !.pclst = pcl, !.scl = d, !.ecl = d]
    BY <1>11, <1>12 DEF Removes
  <2>2. d \in Nat
    BY <1>9, Nums
  <2> QED
    BY <1>1, <1>3, <1>5, <1>13, <2>1, <2>2 DEF CallSet
<1>15. PICK g : g = [f EXCEPT !.cut = TRUE]
  OBVIOUS
<1>16. /\ g \in FileSet /\ g.open /\ g.cut /\ g.fptr = n /\ g.clust = f.clust /\ g.modified = f.modified
       /\ file' = [file EXCEPT ![s] = g] /\ file'[s] = g /\ file' \in [Slots -> FileSet] /\ obj'[s] = b
       /\ \A t \in Slots : t # s => file'[t] = file[t]
  <2>1. g \in FileSet /\ g.open /\ g.cut /\ g.fptr = n /\ g.clust = f.clust /\ g.modified = f.modified
    BY <1>1, <1>3, <1>4, <1>15 DEF FileSet
  <2>2. file' = [file EXCEPT ![s] = g]
    BY <1>11, <1>15 DEF Removes
  <2> QED
    BY <1>1, <1>3, <1>11, <2>1, <2>2
<1>17. DiskMoves
  BY <1>3, <1>11, StaysMoves, ReadMoves
<1>18. SlotInv(s, z)'
  <2>1. Removing(s)'
    BY <1>13, <1>14 DEF Removing
  <2>2. Shrinking(fat, b, g, call', z)
    <3>1. Shortened(b, g, n, call')
      <4>1. n > 0 /\ b.stat # 2 => call'.pc = "cut"
        BY <1>4, <1>6, <1>10, <1>12, <1>14
      <4> QED
        BY <1>5, <1>12, <1>14, <1>16, <4>1 DEF Shortened
    <3>2. Held(fat, b, g, q)
      <4>1. Held(fat, b, g, q) <=> Held(fat, b, f, q)
        BY <1>1, <1>16 DEF Held
      <4> QED
        BY <1>4, <4>1
    <3> QED
      BY <1>3, <1>8, <1>16, <3>1, <3>2, ShrinkHeld
  <2>3. ~ExFat => b.stat = 0 /\ b.n_frag = 0
    BY <1>4, <1>5
  <2>4. SlotOK(s, z)'
    <3>1. fat' = fat /\ entry'[s].used /\ (ExFat' <=> ExFat)
      BY <1>2, <1>4 DEF ExFat
    <3>2. Shrinking(fat', obj'[s], file'[s], call', z)
      BY <1>16, <2>2, <3>1
    <3> QED
      BY <1>16, <2>1, <2>3, <3>1, <3>2 DEF SlotOK, OpenOK
  <2>5. ~Settled(s)' /\ ~Quiet(s)'
    BY <1>16 DEF Settled, Quiet
  <2> QED
    BY <2>4, <2>5 DEF SlotInv, Kept, OnDisk
<1>19. \A t \in Slots : SlotInv(t, p[t])'
  <2>1. \A t \in Slots \ {s} :
               p[t] = o[t] /\ obj'[t] = obj[t] /\ file'[t] = file[t] /\ entry'[t] = entry[t] /\ Agree(fat, fat', o[t])
    BY <1>2, <1>8, <1>11, <1>16 DEF Agree
  <2>2. call'.pc # "erase" /\ call'.op # "rename" /\ call.s = s /\ call'.s = s /\ fs_type' = fs_type
    BY <1>1, <1>2, <1>4, <1>13, <1>14
  <2>3. SlotInv(s, p[s])'
    BY <1>8, <1>18
  <2> QED
    BY <1>3, <1>4, <1>17, <2>1, <2>2, <2>3, SlotsStep
<1>20. Types'
  <2>1. obj' \in [Slots -> ObjSet]
    BY <1>3, <1>11
  <2> QED
    BY <1>2, <1>3, <1>14, <1>16, <1>17, <2>1, TypesStep DEF Types
<1>21. CallOK(p, r2)'
  <2>1. F' = g /\ O' = b /\ (ExFat' <=> ExFat)
    BY <1>2, <1>14, <1>16 DEF F, O, ExFat
  <2>2. SeekOK(z)'
    BY <1>13, <1>14 DEF SeekOK, Seeking, Next1
  <2>3. LinkOK(p)' /\ SyncOK'
    BY <1>13, <1>14 DEF LinkOK, SyncOK
  <2>4. Remaining(r2)'
    <3>1. \A i \in 1 .. Len(r2) : r2[i] \in Clusters /\ GetFat(b, r2[i]) = IF i < Len(r2) THEN r2[i + 1] ELSE EOC
      BY <1>1, <1>3, <1>4, <1>5, <1>6, <1>8, RestGet
    <3>2. \A c \in Clusters : GetFat(O, c)' = GetFat(b, c)
      <4> TAKE c \in Clusters
      <4>1. GetFat(b, c)' = GetFat(b, c)
        BY <1>2, GetSame
      <4> QED
        BY <2>1, <4>1 DEF GetFat
    <3> QED
      BY <3>1, <3>2 DEF Remaining
  <2>5. RemoveOK(p, r2)'
    <3>1. call'.scl .. call'.clst - 1 = {}
      <4>1. d \in Nat
        BY <1>9, Nums
      <4> QED
        BY <1>14, <4>1
    <3>2. call'.pc = "cut" => call'.pclst # 0 /\ ~(ExFat' /\ b.stat = 2)
      BY <1>12, <1>14, <2>1
    <3>3. d <= d
      BY <1>9, Nums
    <3> QED
      BY <1>5, <1>9, <1>13, <1>14, <1>16, <2>1, <2>4, <3>1, <3>2, <3>3 DEF RemoveOK
  <2> QED
    BY <1>3, <1>8, <1>13, <1>14, <2>2, <2>3, <2>5 DEF CallOK
<1>22. SameUse
  BY <1>2, SameUseBy
<1>23. ChainsOK(p, r2)'
  BY <1>8, <1>22, ChainsStay DEF SameUse
<1>24. Marks(p, r2)'
  <2>1. Limbo(r) = {} /\ Elems(r2) \subseteq Limbo(r2)'
    BY <1>2, <1>13, <1>14 DEF Limbo
  <2> SUFFICES ASSUME pulls' = 0, NEW c \in Clusters, InUse(c)', c \notin Limbo(r2)' PROVE \E t \in Slots : c \in Elems(p[t])
    BY DEF Marks
  <2>2. PICK t \in Slots : c \in Elems(o[t])
    BY <1>2, <1>22, <2>1 DEF Marks, IInv, SameUse
  <2>3. CASE t = s
    <3>1. c \in Elems(z)
      BY <1>1, <1>9, <2>1, <2>2, <2>3
    <3> QED
      BY <1>3, <1>8, <3>1
  <2>4. CASE t # s
    BY <1>8, <2>2, <2>4
  <2> QED
    BY <2>3, <2>4
<1>25. Count'
  <2>1. Pending = 0 /\ Pending' = 0
    <3>1. d - d = 0
      BY <1>9, Nums
    <3> QED
      BY <1>2, <1>13, <1>14, <3>1 DEF Pending
  <2> QED
    BY <1>2, <1>22, <2>1, CountStays DEF IInv
<1>26. DiskSound'
  BY <1>3, <1>16 DEF DiskSound, Torn
<1>27. IInv(p, r2)'
  BY <1>19, <1>20, <1>21, <1>23, <1>24, <1>25, <1>26 DEF IInv, SlotInv
<1> QED
  BY <1>2, <1>3, <1>8, <1>27 DEF Kept1, Moves

(***************************************************************************)
(* Steps of remove_chain                                                   *)
(***************************************************************************)

\* What is known while remove_chain is at work.
LEMMA RemoveHas ==
    ASSUME NEW o, NEW r, IInv(o, r), call.pc \in {"cut", "free", "freed"}, NEW s, s = call.s
    PROVE  /\ s \in Slots /\ o[s] \in Seq(Clusters) /\ Alone(o[s]) /\ SlotInv(s, o[s]) /\ obj[s] \in ObjSet /\ file[s] \in FileSet
           /\ O = obj[s] /\ F = file[s] /\ Types /\ call \in CallSet /\ ChainsOK(o, r)
           /\ obj \in [Slots -> ObjSet] /\ file \in [Slots -> FileSet] /\ fat \in [Clusters -> Link]
           /\ call.ncl = 0 /\ call.op \in {"truncate", "unlink"} /\ obj[s].n_frag = 0
           /\ call.op = "truncate" => file[s].open /\ file[s].cut
           /\ call.op = "unlink" => ~file[s].open /\ call.pclst = 0 /\ entry[s] = NoEntry
           /\ call.op # "rename" /\ call.pc # "erase" /\ Removing(s)
           /\ file[s].open => /\ entry[s].used /\ Shrinking(fat, obj[s], file[s], call, o[s]) /\ Plain(obj[s])
                              /\ ~ExFat => obj[s].stat = 0
<1>1. call.pc # "idle"
  OBVIOUS
<1>2. /\ s \in Slots /\ o[s] \in Seq(Clusters) /\ Alone(o[s]) /\ SlotInv(s, o[s]) /\ obj[s] \in ObjSet /\ file[s] \in FileSet
      /\ O = obj[s] /\ F = file[s] /\ Types /\ call \in CallSet
      /\ obj \in [Slots -> ObjSet] /\ file \in [Slots -> FileSet] /\ RemoveOK(o, r)
      /\ call.ncl = 0
  BY <1>1, CallHas
<1>3. /\ call.op \in {"truncate", "unlink"} /\ obj[s].n_frag = 0
      /\ call.op = "truncate" => file[s].open /\ file[s].cut
      /\ call.op = "unlink" => ~file[s].open /\ call.pclst = 0 /\ entry[s] = NoEntry
  BY <1>2 DEF RemoveOK
<1>4. Removing(s)
  BY DEF Removing
<1>5. file[s].open => entry[s].used /\ Shrinking(fat, obj[s], file[s], call, o[s]) /\ Plain(obj[s]) /\ (~ExFat => obj[s].stat = 0)
  BY <1>2, <1>4 DEF SlotInv, SlotOK, OpenOK, Plain
<1>6. ChainsOK(o, r) /\ fat \in [Clusters -> Link]
  BY DEF IInv, Types
<1> QED
  BY <1>2, <1>3, <1>4, <1>5, <1>6

\* A cut file's own slot is only asked to shrink.
LEMMA CutSlot ==
    ASSUME NEW s, NEW q, Removing(s)', file'[s].open, file'[s].cut, entry'[s].used,
           Shrinking(fat', obj'[s], file'[s], call', q), ~ExFat' => obj'[s].stat = 0 /\ obj'[s].n_frag = 0
    PROVE  SlotInv(s, q)'
<1>1. SlotOK(s, q)'
  BY DEF SlotOK, OpenOK
<1>2. ~Settled(s)' /\ ~Quiet(s)'
  BY DEF Settled, Quiet
<1> QED
  BY <1>1, <1>2 DEF SlotInv, Kept, OnDisk

\* The FAT may change where nothing is followed.
LEMMA ShrinkSame ==
    ASSUME NEW m, NEW m2, NEW b, NEW f, NEW c, NEW c2, NEW q \in Seq(Clusters), Shrinking(m, b, f, c, q), c2.pclst = c.pclst,
           \A i \in 1 .. Len(q) - 1 : m2[q[i]] = m[q[i]],
           q # <<>> /\ b.stat # 2 => m2[c.pclst] = EOC
    PROVE  Shrinking(m2, b, f, c2, q)
<1>1. b.stat # 2 /\ q # <<>> => Followed(m2, b, q)
  BY DEF Shrinking, Followed
<1> QED
  BY <1>1 DEF Shrinking

\* Cut keeps the invariant.
LEMMA StepCut ==
    ASSUME NEW o, NEW r, IInv(o, r), LagInv, Cut PROVE Kept1(o, r)
<1>1. PICK s, q, b, f, c : s = call.s /\ q = o[s] /\ b = obj[s] /\ f = file[s] /\ c = call.pclst
  OBVIOUS
<1>2. /\ call.pc = "cut" /\ call.pc \in {"cut", "free", "freed"} /\ "free" \in Pcs
      /\ UNCHANGED <<fs_type, bitmap, entry, free_clst, last_clst, fsi_flag, obj, file, pulls>>
      /\ \E R, sect : Modify(R, sect)
      /\ call' = [call EXCEPT !.pc = "free"] /\ fat' = [fat EXCEPT ![c] = EOC]
  BY <1>1 DEF Cut, Goto, counts, bounds, Pcs
<1>3. /\ s \in Slots /\ q \in Seq(Clusters) /\ Alone(q) /\ SlotInv(s, q) /\ b \in ObjSet /\ f \in FileSet
      /\ O = b /\ F = f /\ Types /\ call \in CallSet /\ ChainsOK(o, r)
      /\ obj \in [Slots -> ObjSet] /\ file \in [Slots -> FileSet] /\ fat \in [Clusters -> Link]
      /\ call.ncl = 0 /\ call.op \in {"truncate", "unlink"} /\ b.n_frag = 0
      /\ call.op = "truncate" => f.open /\ f.cut
      /\ call.op = "unlink" => ~f.open /\ c = 0
      /\ call.op # "rename" /\ call.pc # "erase"
      /\ f.open => entry[s].used /\ Shrinking(fat, b, f, call, q) /\ (~ExFat => b.stat = 0)
  BY <1>1, <1>2, RemoveHas
<1>4. RemoveOK(o, r)
  BY DEF IInv, CallOK
<1>5. c # 0 /\ ~(ExFat /\ b.stat = 2) /\ call.scl = call.clst
  BY <1>1, <1>2, <1>3, <1>4 DEF RemoveOK
<1>6. call.op = "truncate" /\ f.open /\ f.cut /\ entry[s].used /\ Shrinking(fat, b, f, call, q) /\ b.stat # 2
  BY <1>3, <1>5
<1>7. q # <<>> /\ Len(q) \in 1 .. Len(q) /\ c = q[Len(q)] /\ c \in Clusters /\ c \in Elems(q)
  <2>1. q # <<>> /\ c = q[Len(q)]
    BY <1>1, <1>5, <1>6 DEF Shrinking
  <2>2. Len(q) \in 1 .. Len(q)
    BY <1>3, <2>1
  <2> QED
    BY <1>3, <2>1, <2>2 DEF Elems
<1>8. fat' \in [Clusters -> Link] /\ fat'[c] = EOC /\ \A d \in Clusters : d # c => fat'[d] = fat[d]
  <2>1. EOC \in Link
    BY DEF Link
  <2> QED
    BY <1>2, <1>3, <1>7, <2>1
<1>9. \A t \in Slots \ {s} : Agree(fat, fat', o[t])
  BY <1>1, <1>3, <1>7, <1>8, AgreeApart
<1>10. SameUse
  <2>1. CASE ExFat
    BY <1>2, <2>1 DEF SameUse, InUse, ExFat
  <2>2. CASE ~ExFat
    <3>1. fat[c] # 0 /\ EOC # 0
      BY <1>1, <1>3, <1>7, <2>2, Nums DEF ChainsOK, InUse
    <3> QED
      BY <1>2, <1>8, <2>2, <3>1 DEF SameUse, InUse, ExFat
  <2> QED
    BY <2>1, <2>2
<1>11. /\ call' \in CallSet /\ call'.pc = "free" /\ call'.op = call.op /\ call'.s = s /\ call'.ncl = 0
       /\ call'.clst = call.clst /\ call'.pclst = c /\ call'.scl = call.scl /\ call'.ecl = call.ecl
  BY <1>1, <1>2, <1>3, CallGoes
<1>12. DiskMoves
  BY <1>2, <1>3, ModifyMoves
<1>13. SlotInv(s, q)'
  <2>1. \A i \in 1 .. Len(q) - 1 : fat'[q[i]] = fat[q[i]]
    <3> TAKE i \in 1 .. Len(q) - 1
    <3>1. i \in DOMAIN q /\ Len(q) \in DOMAIN q /\ i # Len(q) /\ q[i] \in Clusters
      BY <1>3
    <3> QED
      BY <1>3, <1>7, <1>8, <3>1 DEF Alone
  <2>2. Shrinking(fat', b, f, call', q)
    BY <1>1, <1>3, <1>6, <1>8, <1>11, <2>1, ShrinkSame
  <2>3. Removing(s)'
    BY <1>11 DEF Removing
  <2> QED
    BY <1>1, <1>2, <1>3, <1>6, <2>2, <2>3, CutSlot DEF ExFat
<1>14. \A t \in Slots : SlotInv(t, o[t])'
  <2>1. call'.pc # "erase" /\ call'.op # "rename" /\ call.s = s /\ call'.s = s /\ fs_type' = fs_type
    BY <1>1, <1>2, <1>3, <1>11
  <2> QED
    BY <1>1, <1>2, <1>3, <1>9, <1>12, <1>13, <2>1, SlotsStep
<1>15. Types'
  BY <1>2, <1>3, <1>8, <1>11, <1>12, TypesStep DEF Types
<1>16. CallOK(o, r)'
  <2>1. F' = f /\ O' = b /\ (ExFat' <=> ExFat)
    BY <1>1, <1>2, <1>11 DEF F, O, ExFat
  <2>2. SeekOK(q)' /\ LinkOK(o)' /\ SyncOK'
    BY <1>3, <1>11 DEF SeekOK, Seeking, Next1, LinkOK, SyncOK
  <2>3. Remaining(r)'
    <3>1. Remaining(r) /\ r \in Seq(Clusters) /\ c \notin Elems(r)
      BY <1>1, <1>2, <1>3, <1>4, <1>7 DEF RemoveOK, ChainsOK
    <3>2. \A i \in 1 .. Len(r) : GetFat(O, r[i])' = GetFat(O, r[i])
      <4> TAKE i \in 1 .. Len(r)
      <4>1. r[i] \in Clusters /\ r[i] # c
        BY <3>1 DEF Elems
      <4>2. GetFat(b, r[i])' = GetFat(b, r[i])
        BY <1>2, <1>8, <4>1, GetSame
      <4> QED
        BY <1>3, <2>1, <4>2 DEF GetFat
    <3> QED
      BY <3>1, <3>2 DEF Remaining
  <2>4. RemoveOK(o, r)'
    BY <1>2, <1>3, <1>4, <1>6, <1>11, <2>1, <2>3 DEF RemoveOK
  <2> QED
    BY <1>1, <1>3, <1>11, <2>2, <2>4 DEF CallOK
<1>17. Limbo(r) \subseteq Limbo(r)' /\ Pending' = Pending
  <2>1. call.clst \in Nat
    BY <1>3 DEF CallSet
  <2>2. ExFat' <=> ExFat
    BY <1>2 DEF ExFat
  <2>3. call.clst - call.scl = 0
    BY <1>5, <2>1
  <2>4. Limbo(r) = Elems(r) \union (IF ExFat THEN call.scl .. call.clst - 1 ELSE {})
    BY <1>2 DEF Limbo
  <2>5. Limbo(r)' = Elems(r) \union (IF ExFat THEN call.scl .. call.clst - 1 ELSE {})
    BY <1>11, <2>2 DEF Limbo
  <2> QED
    BY <1>2, <1>11, <2>3, <2>4, <2>5 DEF Pending
<1>18. Torn'
  BY <1>1, <1>2, <1>3, <1>6 DEF Torn
<1> QED
  BY <1>2, <1>10, <1>12, <1>14, <1>15, <1>16, <1>17, <1>18, UseStep

\* A block of clusters in use leaves room for itself, and gives it back as a whole.
LEMMA BlockUsed ==
    ASSUME NEW a \in Clusters, NEW c \in Clusters, a <= c, \A d \in a .. c : InUse(d)
    PROVE  a .. c \in SUBSET Clusters /\ NFree + (c - a + 1) <= NClusters
<1>1. PICK A, B : A = {d \in Clusters : ~InUse(d)} /\ B = a .. c
  OBVIOUS
<1>2. IsFiniteSet(Clusters) /\ Cardinality(Clusters) = NClusters /\ NClusters \in Nat
  BY Nums, FS_Interval
<1>3. IsFiniteSet(A) /\ NFree = Cardinality(A) /\ Cardinality(A) \in Nat
  <2>1. IsFiniteSet(A) /\ NFree = Cardinality(A)
    BY <1>1, FreeFinite DEF NFree
  <2> QED
    BY <2>1, FS_CardinalityType
<1>4. a \in Int /\ c \in Int /\ a \in Nat /\ c \in Nat
  BY Nums
<1>5. IsFiniteSet(B) /\ Cardinality(B) = c - a + 1
  <2>1. IsFiniteSet(a .. c) /\ Cardinality(a .. c) = IF a > c THEN 0 ELSE c - a + 1
    BY <1>4, FS_Interval
  <2> QED
    BY <1>1, <1>4, <2>1
<1>6. B \in SUBSET Clusters
  BY <1>1, <1>4, Nums
<1>7. A \cap B = {}
  BY <1>1
<1>8. Cardinality(A \union B) = Cardinality(A) + (c - a + 1)
  <2>1. Cardinality(A \union B) = Cardinality(A) + Cardinality(B) - Cardinality({})
    BY <1>3, <1>5, <1>7, FS_Union
  <2>2. Cardinality({}) = 0
    BY FS_EmptySet
  <2> QED
    BY <1>3, <1>4, <1>5, <2>1, <2>2
<1>9. A \union B \in SUBSET Clusters
  BY <1>1, <1>6
<1>10. Cardinality(A \union B) <= NClusters
  BY <1>2, <1>9, FS_Subset
<1> QED
  BY <1>1, <1>3, <1>6, <1>8, <1>10

\* And when the block is unmarked, as a whole, its clusters are counted.
LEMMA BlockFreed ==
    ASSUME NEW a \in Clusters, NEW c \in Clusters, a <= c, \A d \in a .. c : InUse(d),
           \A d \in Clusters : InUse(d)' <=> InUse(d) /\ d \notin a .. c
    PROVE  NFree' = NFree + (c - a + 1)
<1>1. PICK A, B, D : A = {d \in Clusters : ~InUse(d)} /\ B = a .. c /\ D = {d \in Clusters : ~InUse(d)'}
  OBVIOUS
<1>2. a \in Int /\ c \in Int /\ a \in Nat /\ c \in Nat
  BY Nums
<1>3. B \in SUBSET Clusters
  BY <1>1, BlockUsed
<1>4. D = A \union B /\ A \cap B = {}
  BY <1>1, <1>3
<1>5. IsFiniteSet(A) /\ NFree = Cardinality(A) /\ Cardinality(A) \in Nat
  <2>1. IsFiniteSet(A) /\ NFree = Cardinality(A)
    BY <1>1, FreeFinite DEF NFree
  <2> QED
    BY <2>1, FS_CardinalityType
<1>6. IsFiniteSet(B) /\ Cardinality(B) = c - a + 1
  <2>1. IsFiniteSet(a .. c) /\ Cardinality(a .. c) = IF a > c THEN 0 ELSE c - a + 1
    BY <1>2, FS_Interval
  <2> QED
    BY <1>1, <1>2, <2>1
<1>7. Cardinality(D) = Cardinality(A) + Cardinality(B) - Cardinality({})
  BY <1>4, <1>5, <1>6, FS_Union
<1>8. Cardinality({}) = 0
  BY FS_EmptySet
<1>9. NFree' = Cardinality(D)
  <2>1. NFree' = Cardinality({d \in Clusters : ~InUse(d)'})
    BY DEF NFree, Clusters, n_fatent
  <2> QED
    BY <1>1, <2>1
<1> QED
  BY <1>2, <1>5, <1>6, <1>7, <1>8, <1>9

\* The rest of a chain.
RestOf(r, r2) ==
    /\ r2 \in Seq(Clusters) /\ Alone(r2) /\ Len(r2) = Len(r) - 1
    /\ \A i \in 1 .. Len(r2) : i + 1 \in 1 .. Len(r) /\ r2[i] = r[i + 1]
    /\ Elems(r) = {r[1]} \union Elems(r2) /\ r[1] \notin Elems(r2)
    /\ r[1] \in Clusters

\* It has lost its first cluster only.
LEMMA RestIs ==
    \A r, r2 : r \in Seq(Clusters) /\ Alone(r) /\ r # <<>> /\ r2 = SubSeq(r, 2, Len(r)) => RestOf(r, r2)
<1> SUFFICES ASSUME NEW r, NEW r2, r \in Seq(Clusters), Alone(r), r # <<>>, r2 = SubSeq(r, 2, Len(r)) PROVE RestOf(r, r2)
  OBVIOUS
<1>1. PICK z : z = SubSeq(r, 1, 1)
  OBVIOUS
<1>2. Len(r) \in Nat /\ 1 \in 0 .. Len(r) /\ 1 \in 1 .. Len(r)
  OBVIOUS
<1>3. CutInto(r, 1, z, r2)
  <2>1. PICK n : n = 1 /\ n + 1 = 2
    OBVIOUS
  <2>2. n \in 0 .. Len(r) /\ z = SubSeq(r, 1, n) /\ r2 = SubSeq(r, n + 1, Len(r))
    BY <1>1, <1>2, <2>1
  <2>3. CutInto(r, n, z, r2)
    BY <2>2, CutApart
  <2> QED
    BY <2>1, <2>3
<1>4. /\ z \in Seq(Clusters) /\ Len(z) = 1 /\ (\A i \in 1 .. 1 : z[i] = r[i])
      /\ r2 \in Seq(Clusters) /\ Len(r2) = Len(r) - 1 /\ \A i \in 1 .. Len(r2) : 1 + i \in 1 .. Len(r) /\ r2[i] = r[1 + i]
      /\ Alone(r2)
      /\ Elems(r) = Elems(z) \union Elems(r2)
      /\ \A c \in Elems(z) : c \notin Elems(r2)
  BY <1>3 DEF CutInto
<1>5. Elems(z) = {r[1]}
  BY <1>4 DEF Elems
<1>6. \A i \in 1 .. Len(r2) : i + 1 \in 1 .. Len(r) /\ r2[i] = r[i + 1]
  <2> TAKE i \in 1 .. Len(r2)
  <2>1. 1 + i = i + 1
    BY <1>4
  <2> QED
    BY <1>4, <2>1
<1> QED
  BY <1>2, <1>4, <1>5, <1>6 DEF RestOf

\* remove_chain goes on.
LEMMA FreeGoes ==
    ASSUME call \in CallSet, NEW pc \in Pcs, NEW n \in Nat, NEW x \in Nat, NEW f, f = FALSE,
           call' = [call EXCEPT !.pc = pc, !.clst = n, !.scl = x, !.ecl = n, !.failed = f]
    PROVE  /\ call' \in CallSet /\ call'.pc = pc /\ call'.op = call.op /\ call'.s = call.s /\ call'.to = call.to
           /\ call'.clst = n /\ call'.pclst = call.pclst /\ call'.ncl = call.ncl
           /\ call'.scl = x /\ call'.ecl = n
  BY DEF CallSet

\* Free keeps the invariant.
LEMMA StepFree ==
    ASSUME NEW o, NEW r, IInv(o, r), LagInv, Free PROVE Kept1(o, r)
<1>1. PICK s, q, b, f, c, a, nxt, r2 : /\ s = call.s /\ q = o[s] /\ b = obj[s] /\ f = file[s] /\ c = call.clst /\ a = call.scl
                                       /\ nxt = GetFat(O, c) /\ r2 = SubSeq(r, 2, Len(r))
  OBVIOUS
<1>2. /\ call.pc = "free" /\ call.pc \in {"cut", "free", "freed"}
      /\ UNCHANGED <<fs_type, entry, last_clst, obj, file, pulls>>
      /\ free_clst' = OneMore(free_clst) /\ fsi_flag' = IF free_clst < NClusters THEN TRUE ELSE fsi_flag
  BY DEF Free, bounds
<1>3. /\ s \in Slots /\ q \in Seq(Clusters) /\ Alone(q) /\ SlotInv(s, q) /\ b \in ObjSet /\ f \in FileSet
      /\ O = b /\ F = f /\ Types /\ call \in CallSet /\ ChainsOK(o, r)
      /\ obj \in [Slots -> ObjSet] /\ file \in [Slots -> FileSet] /\ fat \in [Clusters -> Link]
      /\ call.ncl = 0 /\ call.op \in {"truncate", "unlink"} /\ b.n_frag = 0
      /\ call.op = "truncate" => f.open /\ f.cut
      /\ call.op = "unlink" => ~f.open /\ call.pclst = 0 /\ entry[s] = NoEntry
      /\ call.op # "rename" /\ call.pc # "erase" /\ Removing(s)
      /\ f.open => entry[s].used /\ Shrinking(fat, b, f, call, q) /\ (~ExFat => b.stat = 0)
  BY <1>1, <1>2, RemoveHas
<1>4. /\ r # <<>> /\ c = r[1] /\ call.ecl = c /\ a \in Clusters /\ a <= c /\ Remaining(r)
      /\ ExFat => \A d \in a .. c - 1 : bitmap[d] /\ d \notin Elems(r) /\ \A t \in Slots : d \notin Elems(o[t])
  <2>1. RemoveOK(o, r)
    BY DEF IInv, CallOK
  <2> QED
    BY <1>1, <1>2, <2>1 DEF RemoveOK
<1>5. /\ r \in Seq(Clusters) /\ Alone(r) /\ (\A d \in Elems(r) : InUse(d)) /\ o \in [Slots -> Seq(Clusters)]
      /\ \A t \in Slots : \A d \in Elems(o[t]) : InUse(d) /\ d \notin Elems(r)
      /\ Owners!Apart(o)
  BY <1>3 DEF ChainsOK
<1>6. /\ r2 \in Seq(Clusters) /\ Alone(r2) /\ Len(r2) = Len(r) - 1 /\ Len(r) \in Nat /\ Len(r2) \in Nat
      /\ \A i \in 1 .. Len(r2) : i + 1 \in 1 .. Len(r) /\ r2[i] = r[i + 1]
      /\ Elems(r) = {c} \union Elems(r2) /\ c \notin Elems(r2) /\ c \in Clusters
  <2>1. /\ r2 \in Seq(Clusters) /\ Alone(r2) /\ Len(r2) = Len(r) - 1
        /\ \A i \in 1 .. Len(r2) : i + 1 \in 1 .. Len(r) /\ r2[i] = r[i + 1]
        /\ Elems(r) = {r[1]} \union Elems(r2) /\ r[1] \notin Elems(r2)
        /\ r[1] \in Clusters
    <3>1. r2 = SubSeq(r, 2, Len(r))
      BY <1>1
    <3>2. r \in Seq(Clusters)
      BY <1>5
    <3>3. Alone(r)
      BY <1>5
    <3>4. r # <<>>
      BY <1>4
    <3> QED
      <4>1. RestOf(r, r2)
        BY <3>1, <3>2, <3>3, <3>4, RestIs, Zenon
      <4> QED
        BY <4>1 DEF RestOf
  <2>2. Len(r) \in Nat /\ Len(r2) \in Nat
    BY <1>5, <2>1
  <2> QED
    BY <1>4, <2>1, <2>2
<1>7. nxt = IF r2 = <<>> THEN EOC ELSE r2[1]
  <2>1. 1 \in 1 .. Len(r) /\ GetFat(O, r[1]) = IF 1 < Len(r) THEN r[1 + 1] ELSE EOC
    <3>1. 1 \in 1 .. Len(r)
      BY <1>4, <1>5
    <3> QED
      BY <1>4, <3>1 DEF Remaining
  <2>2. CASE r2 = <<>>
    <3>1. ~(1 < Len(r))
      <4>1. PICK k, l : k = Len(r2) /\ l = Len(r)
        OBVIOUS
      <4>2. k = 0 /\ k \in Nat /\ l \in Nat
        BY <1>6, <2>2, <4>1
      <4>3. k = l - 1
        BY <1>6, <4>1
      <4>4. ~(1 < l)
        BY <4>2, <4>3
      <4> QED
        BY <4>1, <4>4
    <3> QED
      BY <1>1, <1>4, <2>1, <2>2, <3>1
  <2>3. CASE r2 # <<>>
    <3>1. 1 < Len(r) /\ 1 \in 1 .. Len(r2)
      BY <1>6, <2>3
    <3> QED
      BY <1>1, <1>4, <1>6, <2>1, <2>3, <3>1
  <2> QED
    BY <2>2, <2>3
<1>8. /\ nxt \in Nat /\ nxt >= 2 /\ (nxt \in Clusters <=> r2 # <<>>) /\ (r2 # <<>> => nxt = r2[1] /\ nxt \in Elems(r2))
      /\ r2 = <<>> => nxt = EOC /\ nxt # c + 1
  <2>1. r2 # <<>> => 1 \in DOMAIN r2 /\ r2[1] \in Clusters
    BY <1>6
  <2>2. r2 = <<>> => nxt = EOC /\ nxt # c + 1
    BY <1>6, <1>7, Nums
  <2> QED
    BY <1>7, <2>1, <2>2, Nums DEF Elems
<1>9. a \in Nat /\ c \in Nat
  BY <1>4, <1>6, Nums
<1>10. \A d \in a .. c : ExFat => bitmap[d] /\ d \in Clusters
  <2> SUFFICES ASSUME NEW d \in a .. c, ExFat PROVE bitmap[d] /\ d \in Clusters
    OBVIOUS
  <2>1. d \in Clusters
    BY <1>4, <1>6, <1>9, Nums
  <2>2. CASE d = c
    <3>1. InUse(c)
      BY <1>5, <1>6
    <3> QED
      BY <2>1, <2>2, <3>1 DEF InUse
  <2>3. CASE d # c
    <3>1. d \in a .. c - 1
      BY <1>9, <2>3
    <3> QED
      BY <1>4, <2>1, <3>1
  <2> QED
    BY <2>2, <2>3
<1>11. PICK pc2, x : /\ pc2 = (IF nxt \in Clusters THEN "free" ELSE "freed")
                     /\ x = IF nxt # c + 1 THEN nxt ELSE a
  OBVIOUS
<1>12. /\ pc2 \in Pcs /\ x \in Nat
       /\ x <= nxt
  BY <1>8, <1>9, <1>11, <1>4 DEF Pcs
<1>13. /\ call' \in CallSet /\ call'.pc = pc2 /\ call'.op = call.op /\ call'.s = s
       /\ call'.clst = nxt /\ call'.pclst = call.pclst /\ call'.ncl = 0
       /\ call'.scl = x /\ call'.ecl = nxt
  <2>1. PICK fl : fl = (call.failed \/ nxt < 2 \/ (ExFat /\ nxt # c + 1 /\ \E d \in a .. c : ~bitmap[d]))
    OBVIOUS
  <2>2. fl = FALSE
    <3>1. call.failed = FALSE
      BY <1>3 DEF CallSet
    <3>2. ~(nxt < 2)
      BY <1>8
    <3> QED
      BY <1>10, <2>1, <3>1, <3>2
  <2>3. call' = [call EXCEPT !.pc = pc2, !.clst = nxt, !.scl = x, !.ecl = nxt, !.failed = fl]
    BY <1>1, <1>4, <1>11, <2>1 DEF Free
  <2> QED
    <3>1. call \in CallSet /\ nxt \in Nat /\ pc2 \in Pcs /\ x \in Nat
      BY <1>3, <1>8, <1>12
    <3>2. /\ call' \in CallSet /\ call'.pc = pc2 /\ call'.op = call.op /\ call'.s = call.s
          /\ call'.clst = nxt /\ call'.pclst = call.pclst /\ call'.ncl = call.ncl
          /\ call'.scl = x /\ call'.ecl = nxt
      BY <2>2, <2>3, <3>1, FreeGoes
    <3> QED
      BY <1>1, <1>3, <3>2
\* What is unmarked: the cluster, a block, or nothing yet.
<1>14. /\ fat' \in [Clusters -> Link] /\ bitmap' \in [Clusters -> BOOLEAN] /\ DiskMoves
       /\ \A d \in Clusters : d # c => fat'[d] = fat[d]
       /\ ~ExFat => bitmap' = bitmap /\ fat'[c] = 0
       /\ ExFat => fat' = fat
       /\ ExFat /\ nxt # c + 1 => \A d \in Clusters : bitmap'[d] <=> bitmap[d] /\ d \notin a .. c
       /\ ExFat /\ nxt = c + 1 => bitmap' = bitmap
  <2>1. CASE ~ExFat
    <3>1. fat' = [fat EXCEPT ![c] = 0] /\ bitmap' = bitmap /\ \E R, sect : Modify(R, sect)
      BY <1>1, <2>1 DEF Free
    <3>2. 0 \in Link
      BY DEF Link
    <3> QED
      BY <1>3, <1>6, <2>1, <3>1, <3>2, ModifyMoves DEF Types
  <2>2. CASE ExFat /\ nxt # c + 1
    <3>1. /\ fat' = fat /\ bitmap' = [d \in Clusters |-> bitmap[d] /\ d \notin a .. c]
          /\ \E R, sect : Modify(R, sect)
      BY <1>1, <1>4, <2>2 DEF Free, Block
    <3> QED
      BY <1>3, <2>2, <3>1, ModifyMoves DEF Types
  <2>3. CASE ExFat /\ nxt = c + 1
    <3>1. fat' = fat /\ bitmap' = bitmap /\ \E R : Read(R)
      BY <1>1, <1>4, <2>3 DEF Free
    <3> QED
      BY <1>3, <2>3, <3>1, ReadMoves DEF Types
  <2> QED
    BY <2>1, <2>2, <2>3
<1>15. \A d \in Clusters : InUse(d)' => InUse(d) /\ (d = c => ExFat /\ nxt = c + 1)
                                        /\ (ExFat /\ d \in a .. c => nxt = c + 1)
  <2> TAKE d \in Clusters
  <2>1. CASE ~ExFat
    BY <1>2, <1>14, <2>1 DEF InUse, ExFat
  <2>2. CASE ExFat
    <3>1. c \in a .. c
      BY <1>4, <1>9
    <3> QED
      BY <1>2, <1>14, <2>2, <3>1 DEF InUse, ExFat
  <2> QED
    BY <2>1, <2>2
<1>16. \A d \in Clusters : InUse(d) /\ d # c /\ (ExFat => d \notin a .. c - 1) => InUse(d)'
  <2> SUFFICES ASSUME NEW d \in Clusters, InUse(d), d # c, ExFat => d \notin a .. c - 1 PROVE InUse(d)'
    OBVIOUS
  <2>1. CASE ~ExFat
    BY <1>2, <1>14, <2>1 DEF InUse, ExFat
  <2>2. CASE ExFat
    <3>1. d \notin a .. c
      BY <1>9, <2>2, Nums
    <3> QED
      BY <1>2, <1>14, <2>2, <3>1 DEF InUse, ExFat
  <2> QED
    BY <2>1, <2>2
<1>17. /\ \A t \in Slots : \A d \in Elems(o[t]) : InUse(d)' /\ d \notin Elems(r2) /\ d # c /\ d \in Clusters
       /\ \A d \in Elems(r2) : InUse(d)' /\ d \in Clusters /\ d # c
  <2>1. \A t \in Slots : \A d \in Elems(o[t]) : d \in Clusters /\ d # c /\ (ExFat => d \notin a .. c - 1) /\ InUse(d) /\ d \notin Elems(r2)
    <3> TAKE t \in Slots
    <3> TAKE d \in Elems(o[t])
    <3>1. d \in Clusters
      BY <1>5 DEF Elems
    <3>2. InUse(d) /\ d \notin Elems(r)
      BY <1>5
    <3>3. d # c /\ d \notin Elems(r2)
      BY <1>6, <3>2
    <3>4. ExFat => d \notin a .. c - 1
      BY <1>4
    <3> QED
      BY <3>1, <3>2, <3>3, <3>4
  <2>2. \A d \in Elems(r2) : d \in Clusters /\ d # c /\ (ExFat => d \notin a .. c - 1) /\ InUse(d)
    <3>1. \A d \in Elems(r2) : d \in Clusters
      BY <1>6 DEF Elems
    <3> QED
      BY <1>4, <1>5, <1>6, <3>1
  <2> QED
    BY <1>16, <2>1, <2>2
<1>18. \A t \in Slots : Agree(fat, fat', o[t])
  <2>1. \A t \in Slots : \A i \in 1 .. Len(o[t]) : o[t][i] \in Elems(o[t])
    BY <1>5 DEF Elems
  <2> QED
    BY <1>14, <1>17, <2>1 DEF Agree
<1>19. SlotInv(s, q)'
  <2>1. CASE f.open
    <3>1. call.op = "truncate" /\ f.cut /\ entry[s].used /\ Shrinking(fat, b, f, call, q) /\ (~ExFat => b.stat = 0)
      BY <1>3, <2>1
    <3>2. Removing(s)'
      BY <1>11, <1>13 DEF Removing
    <3>3. Shrinking(fat', b, f, call', q)
      <4>1. \A i \in 1 .. Len(q) - 1 : fat'[q[i]] = fat[q[i]]
        <5>1. Agree(fat, fat', q)
          BY <1>1, <1>3, <1>18
        <5>2. \A i \in 1 .. Len(q) - 1 : i \in 1 .. Len(q)
          BY <1>3
        <5> QED
          BY <5>1, <5>2 DEF Agree
      <4>2. q # <<>> /\ b.stat # 2 => fat'[call.pclst] = EOC
        <5> SUFFICES ASSUME q # <<>>, b.stat # 2 PROVE fat'[call.pclst] = EOC
          OBVIOUS
        <5>1. fat[call.pclst] = EOC /\ q[Len(q)] = call.pclst
          BY <1>2, <3>1 DEF Shrinking
        <5>2. Len(q) \in 1 .. Len(q)
          BY <1>3
        <5> QED
          BY <1>1, <1>3, <1>18, <5>1, <5>2 DEF Agree
      <4> QED
        BY <1>3, <1>13, <3>1, <4>1, <4>2, ShrinkSame
    <3> QED
      BY <1>1, <1>2, <1>3, <2>1, <3>1, <3>2, <3>3, CutSlot DEF ExFat
  <2>2. CASE ~f.open
    <3>1. file[s] = NoFile /\ Laid(fat, entry[s], q)
      BY <1>1, <1>3, <2>2 DEF SlotInv, SlotOK
    <3>2. Laid(fat', entry[s], q)
      BY <1>1, <1>3, <1>18, <3>1, LaidSame
    <3>3. call'.pc # "erase" /\ call'.op # "rename"
      BY <1>3, <1>11, <1>13
    <3>4. SlotOK(s, q)'
      BY <1>1, <1>2, <2>2, <3>1, <3>2, <3>3 DEF SlotOK
    <3>5. (Settled(s)' => Settled(s)) /\ (Quiet(s)' => Quiet(s)) /\ ~file'[s].open
      BY <1>1, <1>2, <1>3, <2>2, <3>3 DEF Settled, Quiet
    <3>6. Kept(s, q)' /\ OnDisk(s, q)'
      BY <1>1, <1>2, <1>3, <1>14, <1>18, <3>5, KeptStep, OnDiskStep DEF SlotInv
    <3> QED
      BY <3>4, <3>6 DEF SlotInv
  <2> QED
    BY <2>1, <2>2
<1>20. \A t \in Slots : SlotInv(t, o[t])'
  <2>1. call'.pc # "erase" /\ call'.op # "rename" /\ call.s = s /\ call'.s = s /\ fs_type' = fs_type
    BY <1>1, <1>2, <1>3, <1>11, <1>13
  <2> QED
    BY <1>1, <1>2, <1>3, <1>14, <1>18, <1>19, <2>1, SlotsStep
<1>21. free_clst \in 0 .. NClusters \union {Unknown} /\ Unknown > NClusters /\ NClusters \in Nat /\ Unknown \in Nat
  BY <1>3, Nums DEF Types
<1>22. Types'
  <2>1. free_clst' \in 0 .. NClusters \union {Unknown}
    BY <1>2, <1>21 DEF OneMore
  <2> QED
    BY <1>2, <1>3, <1>13, <1>14, <2>1, TypesStep DEF Types
<1>23. CallOK(o, r2)'
  <2>1. F' = f /\ O' = b /\ (ExFat' <=> ExFat)
    BY <1>1, <1>2, <1>13 DEF F, O, ExFat
  <2>2. SeekOK(q)' /\ LinkOK(o)' /\ SyncOK'
    BY <1>3, <1>11, <1>13 DEF SeekOK, Seeking, Next1, LinkOK, SyncOK
  <2>3. Remaining(r2)'
    <3>1. \A i \in 1 .. Len(r2) : GetFat(O, r2[i]) = IF i < Len(r2) THEN r2[i + 1] ELSE EOC
      <4> TAKE i \in 1 .. Len(r2)
      <4>1. i + 1 \in 1 .. Len(r) /\ r2[i] = r[i + 1] /\ (i < Len(r2) <=> i + 1 < Len(r))
        BY <1>6
      <4>2. i < Len(r2) => i + 1 \in 1 .. Len(r2) /\ r2[i + 1] = r[(i + 1) + 1]
        BY <1>6
      <4> QED
        BY <1>4, <4>1, <4>2 DEF Remaining
    <3>2. \A i \in 1 .. Len(r2) : GetFat(O, r2[i])' = GetFat(O, r2[i])
      <4> TAKE i \in 1 .. Len(r2)
      <4>1. r2[i] \in Clusters /\ r2[i] # c
        BY <1>6 DEF Elems
      <4>2. GetFat(b, r2[i])' = GetFat(b, r2[i])
        BY <1>2, <1>14, <4>1, GetSame
      <4> QED
        BY <1>3, <2>1, <4>2 DEF GetFat
    <3> QED
      BY <3>1, <3>2 DEF Remaining
  <2>4. r2 # <<>> => x \in Clusters /\ x <= nxt
    BY <1>4, <1>8, <1>11, <1>12
  <2>5. ExFat => \A d \in x .. nxt - 1 : bitmap'[d] /\ d \notin Elems(r2) /\ \A t \in Slots : d \notin Elems(o[t])
    <3> SUFFICES ASSUME ExFat, NEW d \in x .. nxt - 1
                 PROVE  bitmap'[d] /\ d \notin Elems(r2) /\ \A t \in Slots : d \notin Elems(o[t])
      OBVIOUS
    <3>1. nxt = c + 1 /\ x = a
      <4>1. CASE nxt # c + 1
        BY <1>8, <1>11, <4>1
      <4> QED
        BY <1>11, <4>1
    <3>2. d \in a .. c
      BY <1>9, <3>1
    <3>3. bitmap'[d]
      BY <1>10, <1>14, <3>1, <3>2
    <3>4. CASE d = c
      BY <1>6, <1>17, <3>3, <3>4
    <3>5. CASE d # c
      <4>1. d \in a .. c - 1
        BY <1>9, <3>2, <3>5
      <4> QED
        BY <1>4, <1>6, <3>3, <4>1
    <3> QED
      BY <3>4, <3>5
  <2>6. RemoveOK(o, r2)'
    BY <1>1, <1>2, <1>3, <1>8, <1>11, <1>13, <2>1, <2>3, <2>4, <2>5 DEF RemoveOK
  <2>7. call'.pc \notin {"cut", "free"} => r2 = <<>>
    BY <1>8, <1>11, <1>13
  <2> QED
    BY <1>1, <1>3, <1>11, <1>13, <2>2, <2>6, <2>7 DEF CallOK
<1>24. ChainsOK(o, r2)'
  BY <1>5, <1>6, <1>17 DEF ChainsOK
<1>25. Marks(o, r2)'
  <2> SUFFICES ASSUME pulls' = 0, NEW d \in Clusters, InUse(d)', \A t \in Slots : d \notin Elems(o[t]) PROVE d \in Limbo(r2)'
    BY DEF Marks
  <2>1. InUse(d) /\ (d = c => ExFat /\ nxt = c + 1) /\ (ExFat /\ d \in a .. c => nxt = c + 1)
    BY <1>15
  <2>2. d \in Elems(r) \/ (ExFat /\ d \in a .. c - 1)
    <3>1. d \in Limbo(r)
      BY <1>2, <2>1 DEF Marks, IInv
    <3> QED
      BY <1>1, <1>2, <3>1 DEF Limbo
  <2>3. d \in Elems(r2) \/ (ExFat /\ d \in a .. c)
    <3>1. c \in a .. c /\ (d \in a .. c - 1 => d \in a .. c)
      BY <1>4, <1>9
    <3> QED
      BY <1>6, <2>1, <2>2, <3>1
  <2>4. ExFat' <=> ExFat
    BY <1>2 DEF ExFat
  <2>5. CASE d \in Elems(r2)
    <3>1. r2 # <<>>
      BY <2>5 DEF Elems
    <3> QED
      BY <1>8, <1>11, <1>13, <2>5, <3>1 DEF Limbo
  <2>6. CASE ExFat /\ d \in a .. c
    <3>1. nxt = c + 1 /\ x = a /\ r2 # <<>>
      BY <1>8, <1>11, <2>1, <2>6
    <3>2. d \in x .. nxt - 1
      BY <1>9, <2>6, <3>1
    <3> QED
      BY <1>8, <1>11, <1>13, <2>4, <2>6, <3>1, <3>2 DEF Limbo
  <2> QED
    BY <2>3, <2>5, <2>6
<1>26. NFree + Pending + 1 = NFree' + Pending' /\ NFree + Pending + 1 <= NClusters /\ Pending \in Nat /\ Pending' \in Nat
  <2>0. NFree \in 0 .. NClusters /\ (ExFat' <=> ExFat)
    BY <1>2, FreeTyped DEF ExFat
  <2>1. CASE ~ExFat
    <3>1. Pending = 0 /\ Pending' = 0
      BY <1>2, <1>11, <1>13, <2>0, <2>1 DEF Pending
    <3>2. NFree' = NFree + 1
      <4>1. InUse(c) /\ ~InUse(c)'
        BY <1>5, <1>6, <1>15, <2>1
      <4>2. Others(c)
        BY <1>2, <1>14, <2>1 DEF Others, InUse, ExFat
      <4> QED
        BY <1>6, <4>1, <4>2, UnmarkOne
    <3>3. NFree + 1 <= NClusters
      <4>1. InUse(c) /\ c .. c = {c} /\ c <= c /\ c - c + 1 = 1
        BY <1>5, <1>6, <1>9
      <4>2. \A d \in c .. c : InUse(d)
        BY <4>1
      <4> QED
        BY <1>6, <4>1, <4>2, BlockUsed
    <3> QED
      BY <2>0, <3>1, <3>2, <3>3, <1>21
  <2>2. CASE ExFat
    <3>1. Pending = c - a
      BY <1>1, <1>2, <2>2 DEF Pending
    <3>2. \A d \in a .. c : InUse(d)
      BY <1>10, <2>2 DEF InUse
    <3>3. NFree + (c - a + 1) <= NClusters
      BY <1>4, <1>6, <3>2, BlockUsed
    <3>4. CASE nxt # c + 1
      <4>1. Pending' = 0
        <5>1. nxt - nxt = 0
          BY <1>8
        <5> QED
          BY <1>11, <1>13, <2>2, <3>4, <5>1 DEF Pending
      <4>2. \A d \in Clusters : InUse(d)' <=> InUse(d) /\ d \notin a .. c
        BY <1>14, <2>0, <2>2, <3>4 DEF InUse
      <4>3. NFree' = NFree + (c - a + 1)
        BY <1>4, <1>6, <3>2, <4>2, BlockFreed
      <4> QED
        BY <1>4, <1>9, <2>0, <3>1, <3>3, <4>1, <4>3, SMTT(40)
    <3>5. CASE nxt = c + 1
      <4>1. r2 # <<>>
        BY <1>8, <3>5
      <4>2. Pending' = (c + 1) - a
        BY <1>8, <1>11, <1>13, <2>0, <2>2, <3>5, <4>1 DEF Pending
      <4>3. NFree' = NFree
        <5>1. SameUse
          BY <1>14, <2>0, <2>2, <3>5 DEF SameUse, InUse
        <5> QED
          BY <5>1, FreeStays
      <4>4. PICK m, k : m = NFree /\ k = c - a
        OBVIOUS
      <4>5. m \in Nat /\ k \in Nat /\ (c + 1) - a = k + 1
        BY <1>4, <1>9, <2>0, <4>4
      <4>6. Pending = k /\ Pending' = k + 1 /\ NFree' = m /\ m + (k + 1) <= NClusters
        BY <3>1, <3>3, <4>2, <4>3, <4>4, <4>5
      <4>7. m + k + 1 = m + (k + 1) /\ k + 1 \in Nat
        BY <4>5
      <4> QED
        BY <4>4, <4>5, <4>6, <4>7
    <3> QED
      BY <3>4, <3>5
  <2> QED
    BY <2>1, <2>2
<1>27. Count'
  <2> SUFFICES ASSUME pulls' = 0, free_clst' <= NClusters PROVE free_clst' = NFree' + Pending'
    BY DEF Count
  <2>1. PICK u, v : u = free_clst /\ v = NFree + Pending
    OBVIOUS
  <2>2. v + 1 <= NClusters /\ v \in Nat /\ v + 1 = NFree' + Pending'
    <3>1. NFree \in 0 .. NClusters
      BY FreeTyped
    <3> QED
      BY <1>21, <1>26, <2>1, <3>1
  <2>3. u <= NClusters => u = v
    BY <1>2, <2>1 DEF Count, IInv
  <2>4. free_clst' = IF u < NClusters THEN u + 1 ELSE u
    BY <1>2, <2>1 DEF OneMore
  <2>5. u \in Nat
    BY <1>21, <2>1
  <2> QED
    BY <1>21, <2>2, <2>3, <2>4, <2>5
<1>28. DiskSound'
  <2>1. CASE f.open
    BY <1>1, <1>2, <1>3, <2>1 DEF DiskSound, Torn
  <2>2. CASE ~f.open
    <3>1. Unstretched
      BY <1>2, OthersUnstretched DEF Next1
    <3>2. Torn => Torn'
      BY <1>2, <1>13 DEF Torn, ExFat
    <3> QED
      BY <1>2, <1>14, <3>1, <3>2, DiskStep
  <2> QED
    BY <2>1, <2>2
<1>29. IInv(o, r2)'
  BY <1>20, <1>22, <1>23, <1>24, <1>25, <1>27, <1>28 DEF IInv, SlotInv
<1> QED
  BY <1>2, <1>29 DEF Kept1, Moves

\* Clusters that begin in a row and end within it are in a row.
LEMMA RunIs ==
    ASSUME NEW q \in Seq(Clusters), Alone(q), q # <<>>, NEW a \in Nat, NEW k \in Nat, q[Len(q)] = a + k,
           \A i \in 1 .. Len(q) : i <= k + 1 => q[i] = a + i - 1
    PROVE  q = Contig(a, Len(q))
<1>1. PICK n : n = Len(q)
  OBVIOUS
<1>2. n \in Nat /\ n \in 1 .. n /\ DOMAIN q = 1 .. n /\ n \in DOMAIN q
  BY <1>1
<1>3. n <= k + 1
  <2> SUFFICES ASSUME ~(n <= k + 1) PROVE FALSE
    OBVIOUS
  <2>1. k + 1 \in 1 .. n /\ k + 1 <= k + 1 /\ a + (k + 1) - 1 = a + k
    BY <1>2
  <2>2. q[k + 1] = a + (k + 1) - 1
    BY <1>1, <2>1
  <2>3. q[k + 1] = q[n] /\ k + 1 \in DOMAIN q
    BY <1>1, <1>2, <2>1, <2>2
  <2>4. k + 1 = n
    BY <1>2, <2>3, Zenon DEF Alone
  <2> QED
    BY <1>2, <2>4
<1>4. \A i \in 1 .. n : q[i] = a + i - 1
  BY <1>1, <1>2, <1>3
<1>5. q = [i \in 1 .. n |-> q[i]]
  BY <1>1
<1>6. Contig(a, n) = [i \in 1 .. n |-> a + i - 1]
  BY DEF Contig
<1> QED
  BY <1>1, <1>4, <1>5, <1>6

LinkedRun(m, a, q) ==
    /\ q # <<>> /\ q[1] = a /\ q[Len(q)] >= a
    /\ \A i \in 1 .. Len(q) - 1 : m[q[i]] = q[i + 1]
    /\ \A c \in a .. q[Len(q)] - 1 : m[c] = c + 1

\* A chain that the FAT leads along one by one is contiguous.
LEMMA LinkedRunIs ==
    ASSUME NEW m, NEW a \in Nat, NEW q \in Seq(Clusters), Alone(q), LinkedRun(m, a, q)
    PROVE  q = Contig(a, Len(q))
<1>1. PICK n, p : n = Len(q) /\ p = q[Len(q)]
  OBVIOUS
<1>2. n \in Nat /\ n \in 1 .. n /\ 1 \in 1 .. n /\ DOMAIN q = 1 .. n /\ p \in Nat /\ p >= a /\ q[1] = a
  <2>1. n \in Nat /\ n \in 1 .. n /\ 1 \in 1 .. n /\ DOMAIN q = 1 .. n
    BY <1>1 DEF LinkedRun
  <2>2. p \in Clusters
    BY <1>1, <2>1
  <2> QED
    BY <1>1, <2>1, <2>2, Nums DEF LinkedRun
<1>3. PICK k \in Nat : p = a + k
  <2>1. p - a \in Nat /\ p = a + (p - a)
    BY <1>2
  <2> QED
    BY <2>1
<1>4. \A i \in 1 .. n - 1 : m[q[i]] = q[i + 1]
  BY <1>1 DEF LinkedRun
<1>5. \A c \in a .. p - 1 : m[c] = c + 1
  BY <1>1 DEF LinkedRun
<1>6. \A i \in 1 .. n : i <= k + 1 => q[i] = a + i - 1
  <2> SUFFICES ASSUME NEW j \in 1 .. n, j <= k + 1, q[j] # a + j - 1 PROVE FALSE
    OBVIOUS
  <2>1. PICK S : S = {i \in 1 .. n : i <= k + 1 /\ q[i] # a + i - 1}
    OBVIOUS
  <2>2. S \in SUBSET (1 .. n) /\ S # {}
    BY <2>1
  <2>3. PICK i \in S : \A l \in S : i <= l
    BY <1>2, <2>2, LeastOf
  <2>4. i \in 1 .. n /\ i <= k + 1 /\ q[i] # a + i - 1
    BY <2>1, <2>3
  <2>5. i # 1
    BY <1>2, <2>4
  <2>6. PICK h : h = i - 1
    OBVIOUS
  <2>7. h \in 1 .. n - 1 /\ h \in 1 .. n /\ h <= k + 1 /\ h + 1 = i /\ h \in Nat /\ ~(i <= h) /\ h <= k
    BY <1>2, <2>4, <2>5, <2>6
  <2>8. h \notin S
    BY <2>3, <2>7
  <2>9. q[h] = a + h - 1
    BY <2>1, <2>7, <2>8
  <2>10. a + h - 1 \in a .. p - 1 /\ (a + h - 1) + 1 = a + i - 1
    BY <1>2, <1>3, <2>7
  <2>11. m[a + h - 1] = (a + h - 1) + 1
    BY <1>5, <2>10
  <2>12. m[q[h]] = q[h + 1]
    BY <1>4, <2>7
  <2> QED
    BY <2>4, <2>7, <2>9, <2>10, <2>11, <2>12
<1>7. q[Len(q)] = a + k /\ \A i \in 1 .. Len(q) : i <= k + 1 => q[i] = a + i - 1
  BY <1>1, <1>3, <1>6
<1>8. q # <<>>
  BY DEF LinkedRun
<1> QED
  BY <1>7, <1>8, RunIs

\* What is left of a file that was cut.
Left(b, x, n) == [b EXCEPT !.stat = x, !.objsize = n, !.sclust = IF n = 0 THEN 0 ELSE b.sclust]
StatusLeft(b, q, x) ==
    \/ x = b.stat
    \/ x = 2 /\ b.stat # 2 /\ q = Contig(b.sclust, Len(q))
    \/ x = 0 /\ q = <<>>
Leaving(m, b, f, q, c, x, g, b2) ==
    /\ Shrinking(m, b, f, c, q) /\ c.pc # "cut"
    /\ x \in {0, 2, 3} /\ StatusLeft(b, q, x) /\ (x = 3 => q # <<>> /\ b.n_cont < Len(q))
    /\ g.fptr = f.fptr /\ g.clust = f.clust /\ b2 = Left(b, x, Len(q))

\* The file holds it.
LEMMA LeftHeld ==
    ASSUME NEW m, NEW b \in ObjSet, NEW f \in FileSet, NEW q \in Seq(Clusters), Alone(q), NEW c, NEW x, NEW g, NEW b2,
           Leaving(m, b, f, q, c, x, g, b2)
    PROVE  /\ Held(m, b2, g, q) /\ b2 \in ObjSet
           /\ b2.stat = x /\ b2.objsize = Len(q) /\ b2.n_frag = 0 /\ (b2.sclust # 0 => Len(q) > 0)
<1> /\ Shrinking(m, b, f, c, q) /\ c.pc # "cut"
    /\ x \in {0, 2, 3} /\ StatusLeft(b, q, x) /\ (x = 3 => q # <<>> /\ b.n_cont < Len(q))
    /\ g.fptr = f.fptr /\ g.clust = f.clust /\ b2 = Left(b, x, Len(q))
  BY DEF Leaving
<1>1. PICK n, a, k : n = Len(q) /\ a = b.sclust /\ k = b.n_cont
  OBVIOUS
<1>2. n \in Nat /\ DOMAIN q = 1 .. n /\ a \in Cluster0 /\ a \in Nat /\ k \in Nat /\ b.n_frag = 0 /\ f.fptr = n
      /\ b.stat \in {0, 2, 3} /\ (q = <<>> <=> n = 0)
  BY <1>1, Nums DEF ObjSet, Shrinking
<1>3. PICK z : z = IF n = 0 THEN 0 ELSE a
  OBVIOUS
<1>4. z \in Cluster0
  BY <1>2, <1>3 DEF Cluster0
<1>5. b2 \in ObjSet /\ b2.stat = x /\ b2.objsize = n /\ b2.sclust = z /\ b2.n_cont = k /\ b2.n_frag = 0
  <2>1. b2 = [b EXCEPT !.stat = x, !.objsize = n, !.sclust = z]
    BY <1>1, <1>3 DEF Left
  <2> QED
    BY <1>1, <1>2, <1>4, <2>1 DEF ObjSet
<1>6. q # <<>> => /\ q[1] = a /\ a \in Clusters /\ z = a /\ 1 \in 1 .. n /\ n \in 1 .. n /\ a # 0
                  /\ f.clust = q[n]
  <2> SUFFICES ASSUME q # <<>>
               PROVE  /\ q[1] = a /\ a \in Clusters /\ z = a /\ 1 \in 1 .. n /\ n \in 1 .. n /\ a # 0
                      /\ f.clust = q[n]
    OBVIOUS
  <2>1. 1 \in 1 .. n /\ n \in 1 .. n /\ n # 0
    BY <1>1, <1>2
  <2>2. q[1] = a /\ f.clust = q[n]
    BY <1>1 DEF Shrinking
  <2>3. q[1] \in Clusters
    BY <1>2, <2>1
  <2> QED
    BY <1>3, <2>1, <2>2, <2>3, Nums
<1>7. q = <<>> => z = 0
  BY <1>2, <1>3
<1>8. x = 2 => q = Contig(z, BoundedMax(n, n))
  <2> SUFFICES ASSUME x = 2 PROVE q = Contig(z, BoundedMax(n, n))
    OBVIOUS
  <2>1. BoundedMax(n, n) = n
    BY <1>2 DEF BoundedMax
  <2>2. CASE q = <<>>
    <3>1. Contig(z, 0) = <<>>
      <4>1. Contig(z, 0) = [i \in 1 .. 0 |-> z + i - 1]
        BY DEF Contig
      <4> QED
        BY <4>1
    <3> QED
      BY <1>2, <2>1, <2>2, <3>1
  <2>3. CASE q # <<>>
    <3>1. q = Contig(a, n)
      BY <1>1, <2>3 DEF Shrinking, StatusLeft
    <3> QED
      BY <1>6, <2>1, <2>3, <3>1
  <2> QED
    BY <2>2, <2>3
<1>9. x # 2 => Followed(m, b2, q) /\ (q # <<>> => m[q[n]] = EOC)
  <2> SUFFICES ASSUME x # 2 PROVE Followed(m, b2, q) /\ (q # <<>> => m[q[n]] = EOC)
    OBVIOUS
  <2>1. CASE q = <<>>
    <3>1. Len(q) = 0
      BY <2>1
    <3>2. 1 .. 0 = {} /\ 1 .. 0 - 1 = {}
      OBVIOUS
    <3> QED
      BY <2>1, <3>1, <3>2 DEF Followed
  <2>2. CASE q # <<>>
    <3>1. x = b.stat
      BY <2>2 DEF StatusLeft
    <3>2. Followed(m, b, q) /\ m[q[n]] = EOC
      BY <1>1, <2>2, <3>1 DEF Shrinking
    <3>3. FirstRun(b2) = FirstRun(b) /\ b2.sclust = b.sclust /\ b2.n_frag = b.n_frag
      BY <1>1, <1>2, <1>5, <1>6, <2>2, <3>1 DEF FirstRun
    <3>4. Followed(m, b2, q)
      BY <3>2, <3>3 DEF Followed
    <3> QED
      BY <3>2, <3>4
  <2> QED
    BY <2>1, <2>2
<1>10. \A i \in 1 .. Len(q) : ~(i > Len(q) - 0)
  BY <1>1, <1>2
<1>11. x = 3 => k < n /\ k + 0 <= n
  BY <1>1, <1>2
<1>12. Held(m, b2, g, q)
  BY <1>1, <1>2, <1>5, <1>6, <1>7, <1>8, <1>9, <1>10, <1>11 DEF Held
<1> QED
  BY <1>1, <1>2, <1>5, <1>6, <1>7, <1>12

\* The status after the cut is one that fits.
LEMMA StatusFits ==
    ASSUME Types, NEW b \in ObjSet, NEW f \in FileSet, NEW q \in Seq(Clusters), Alone(q), Shrinking(fat, b, f, call, q),
           call.pc # "cut", NEW x, x = IF ExFat THEN StatusAfter(b, call.pclst) ELSE b.stat, ~ExFat => b.stat = 0
    PROVE  x \in {0, 2, 3} /\ StatusLeft(b, q, x) /\ (x = 3 => q # <<>> /\ b.n_cont < Len(q))
<1>1. PICK n, a, k, p : n = Len(q) /\ a = b.sclust /\ k = b.n_cont /\ p = call.pclst
  OBVIOUS
<1>2. n \in Nat /\ DOMAIN q = 1 .. n /\ a \in Nat /\ k \in Nat /\ b.stat \in {0, 2, 3} /\ b.n_frag = 0
      /\ (q = <<>> <=> p = 0)
  BY <1>1, Nums DEF ObjSet, Shrinking
<1>3. CASE ~ExFat
  BY <1>2, <1>3 DEF StatusLeft
<1>4. CASE ExFat /\ p = 0
  <2>1. x = 0 /\ q = <<>>
    BY <1>1, <1>2, <1>4 DEF StatusAfter
  <2> QED
    BY <2>1 DEF StatusLeft
<1>5. CASE ExFat /\ p # 0
  <2>1. q # <<>> /\ q[1] = a /\ q[n] = p /\ n \in 1 .. n /\ n # 0 /\ p \in Clusters /\ p \in Nat
        /\ (b.stat # 2 => Followed(fat, b, q))
    <3>1. q # <<>> /\ q[1] = a /\ q[n] = p /\ (b.stat # 2 => Followed(fat, b, q))
      BY <1>1, <1>2, <1>5 DEF Shrinking
    <3>2. n \in 1 .. n /\ n # 0
      BY <1>1, <1>2, <3>1
    <3>3. p \in Clusters
      BY <1>2, <3>1, <3>2
    <3> QED
      BY <3>1, <3>2, <3>3, Nums
  <2>2. CASE b.stat = 2
    <3>1. x = 2
      BY <1>1, <1>5, <2>2 DEF StatusAfter
    <3> QED
      BY <2>2, <3>1 DEF StatusLeft
  <2>3. CASE b.stat = 0
    <3>1. CASE ~Contiguous(b, p)
      <4>1. x = 0
        BY <1>1, <1>5, <2>3, <3>1 DEF StatusAfter
      <4> QED
        BY <2>3, <4>1 DEF StatusLeft
    <3>2. CASE Contiguous(b, p)
      <4>1. x = 2
        BY <1>1, <1>5, <2>3, <3>2 DEF StatusAfter
      <4>2. p >= a /\ \A c \in a .. p - 1 : GetFat(b, c) = c + 1
        BY <1>1, <3>2 DEF Contiguous
      <4>3. a \in Clusters
        <5>1. 1 \in 1 .. n
          BY <2>1
        <5> QED
          BY <1>2, <2>1, <5>1
      <4>4. \A c \in a .. p - 1 : fat[c] = c + 1
        <5> TAKE c \in a .. p - 1
        <5>1. c \in Clusters
          BY <1>2, <2>1, <4>3, Nums
        <5>2. GetFat(b, c) = fat[c]
          BY <1>2, <1>5, <2>3, <5>1, GetIs
        <5> QED
          BY <4>2, <5>2
      <4>5. \A i \in 1 .. n - 1 : fat[q[i]] = q[i + 1]
        <5> TAKE i \in 1 .. n - 1
        <5>1. i > 0 /\ i <= n - 0
          BY <1>2
        <5>2. FirstRun(b) = 0
          BY <2>3 DEF FirstRun
        <5> QED
          BY <1>1, <1>2, <2>1, <2>3, <5>1, <5>2 DEF Followed
      <4>6. LinkedRun(fat, a, q)
        BY <1>1, <2>1, <4>2, <4>4, <4>5 DEF LinkedRun
      <4>7. q = Contig(a, n)
        BY <1>1, <1>2, <4>6, LinkedRunIs
      <4> QED
        BY <1>1, <2>3, <4>1, <4>7 DEF StatusLeft
    <3> QED
      BY <3>1, <3>2
  <2>4. CASE b.stat = 3
    <3>1. \A i \in 1 .. n : i <= k + 1 => q[i] = a + i - 1
      <4>1. FirstRun(b) = k
        BY <1>1, <2>4 DEF FirstRun
      <4> QED
        BY <1>1, <2>1, <2>4, <4>1 DEF Followed
    <3>2. CASE p \in a .. a + k
      <4>1. x = 2
        BY <1>1, <1>5, <2>4, <3>2 DEF StatusAfter
      <4>2. PICK h : h = p - a
        OBVIOUS
      <4>3. h \in Nat /\ p = a + h /\ h <= k
        BY <1>2, <3>2, <4>2
      <4>4. \A i \in 1 .. n : i <= h + 1 => q[i] = a + i - 1
        BY <1>2, <3>1, <4>3
      <4>5. q[Len(q)] = a + h /\ \A i \in 1 .. Len(q) : i <= h + 1 => q[i] = a + i - 1
        BY <1>1, <2>1, <4>3, <4>4
      <4>6. q = Contig(a, Len(q))
        BY <1>2, <2>1, <4>3, <4>5, RunIs
      <4> QED
        BY <1>1, <2>4, <4>1, <4>6 DEF StatusLeft
    <3>3. CASE p \notin a .. a + k
      <4>1. x = 3
        BY <1>1, <1>5, <2>4, <3>3 DEF StatusAfter
      <4>2. k < n
        <5> SUFFICES ASSUME ~(k < n) PROVE FALSE
          OBVIOUS
        <5>1. n <= k + 1
          BY <1>2
        <5>2. q[n] = a + n - 1
          BY <2>1, <3>1, <5>1
        <5>3. a + n - 1 \in a .. a + k
          BY <1>2, <2>1
        <5> QED
          BY <2>1, <3>3, <5>2, <5>3
      <4> QED
        BY <1>1, <2>1, <2>4, <4>1, <4>2 DEF StatusLeft
    <3> QED
      BY <3>2, <3>3
  <2> QED
    BY <1>2, <2>2, <2>3, <2>4
<1> QED
  BY <1>3, <1>4, <1>5

\* FreedUnlink keeps the invariant.
LEMMA StepFreedUnlink ==
    ASSUME NEW o, NEW r, IInv(o, r), LagInv, Freed, call.op = "unlink" PROVE Kept1(o, r)
<1>1. PICK s, q, b, f : s = call.s /\ q = o[s] /\ b = obj[s] /\ f = file[s]
  OBVIOUS
<1>2. /\ call.pc = "freed" /\ call.pc \in {"cut", "free", "freed"} /\ "sync" \in Pcs
      /\ UNCHANGED <<fs_type, fat, bitmap, entry, free_clst, last_clst, fsi_flag, file, pulls>>
      /\ \E R : Read(R)
      /\ call' = [call EXCEPT !.pc = "sync"] /\ obj' = [obj EXCEPT ![s] = NoObj]
  BY <1>1 DEF Freed, SetObj, Goto, volume, counts, bounds, Pcs
<1>3. /\ s \in Slots /\ q \in Seq(Clusters) /\ Alone(q) /\ SlotInv(s, q)
      /\ O = b /\ F = f /\ Types /\ call \in CallSet /\ ChainsOK(o, r)
      /\ obj \in [Slots -> ObjSet] /\ file \in [Slots -> FileSet] /\ fat \in [Clusters -> Link]
      /\ call.ncl = 0 /\ ~f.open /\ call.pclst = 0 /\ entry[s] = NoEntry
      /\ call.op # "rename" /\ call.pc # "erase"
  BY <1>1, <1>2, RemoveHas
<1>4. r = <<>>
  BY <1>2 DEF IInv, CallOK
<1>5. /\ call' \in CallSet /\ call'.pc = "sync" /\ call'.op = call.op /\ call'.s = s /\ call'.ncl = 0
  BY <1>1, <1>2, <1>3, CallGoes
<1>6. DiskMoves
  BY <1>2, <1>3, ReadMoves
<1>7. obj' \in [Slots -> ObjSet] /\ obj'[s] = NoObj /\ \A t \in Slots : t # s => obj'[t] = obj[t]
  <2>1. NoObj \in ObjSet
    BY DEF NoObj, ObjSet, Cluster0
  <2> QED
    BY <1>2, <1>3, <2>1
<1>8. SlotInv(s, q)'
  <2>1. file[s] = NoFile /\ Laid(fat, entry[s], q)
    BY <1>1, <1>3 DEF SlotInv, SlotOK
  <2>2. SlotOK(s, q)'
    BY <1>1, <1>2, <1>3, <1>5, <2>1 DEF SlotOK
  <2>3. Agree(fat, fat', q)
    BY <1>2, AgreeSame
  <2>4. (Settled(s)' => Settled(s)) /\ (Quiet(s)' => Quiet(s)) /\ ~file'[s].open
    BY <1>1, <1>2, <1>3, <1>5 DEF Settled, Quiet
  <2>5. Kept(s, q)' /\ OnDisk(s, q)'
    BY <1>1, <1>2, <1>3, <1>6, <2>3, <2>4, KeptStep, OnDiskStep DEF SlotInv
  <2> QED
    BY <2>2, <2>5 DEF SlotInv
<1>9. \A t \in Slots : SlotInv(t, o[t])'
  <2>1. \A t \in Slots \ {s} : obj'[t] = obj[t] /\ file'[t] = file[t] /\ entry'[t] = entry[t] /\ Agree(fat, fat', o[t])
    BY <1>2, <1>7, AgreeSame
  <2> QED
    BY <1>1, <1>2, <1>3, <1>5, <1>6, <1>8, <2>1, SlotsStep
<1>10. Types'
  BY <1>2, <1>3, <1>5, <1>6, <1>7, TypesStep DEF Types
<1>11. CallOK(o, r)'
  <2>1. SeekOK(q)' /\ LinkOK(o)' /\ RemoveOK(o, r)'
    BY <1>5 DEF SeekOK, LinkOK, RemoveOK, Seeking, Next1
  <2>2. call'.op = "unlink"
    BY <1>5
  <2>3. SyncOK'
    BY <1>5, <2>2 DEF SyncOK
  <2> QED
    BY <1>1, <1>3, <1>4, <1>5, <2>1, <2>3 DEF CallOK
<1>12. Torn => Torn'
  BY <1>2, <1>5 DEF Torn, ExFat
<1>13. Unstretched
  BY <1>2, OthersUnstretched DEF Next1
<1>14. call.pc \notin Handing /\ call'.pc \notin Handing
  BY <1>2, <1>5 DEF Handing
<1> QED
  BY <1>2, <1>6, <1>9, <1>10, <1>11, <1>12, <1>13, <1>14, CalmStep

\* FreedTruncate keeps the invariant.
LEMMA StepFreedTruncate ==
    ASSUME NEW o, NEW r, IInv(o, r), LagInv, Freed, call.op # "unlink" PROVE Kept1(o, r)
<1>1. PICK s, q, b, f, x, b2, g :
        /\ s = call.s /\ q = o[s] /\ b = obj[s] /\ f = file[s]
        /\ x = IF ExFat THEN StatusAfter(b, call.pclst) ELSE b.stat
        /\ b2 = Left(b, x, Len(q)) /\ g = [f EXCEPT !.modified = TRUE]
  OBVIOUS
<1>2. call.pc = "freed" /\ call.pc \in {"cut", "free", "freed"} /\ call.pc # "cut"
  BY DEF Freed
<1>3. /\ s \in Slots /\ q \in Seq(Clusters) /\ Alone(q) /\ SlotInv(s, q) /\ b \in ObjSet /\ f \in FileSet
      /\ O = b /\ F = f /\ Types /\ call \in CallSet /\ ChainsOK(o, r)
      /\ obj \in [Slots -> ObjSet] /\ file \in [Slots -> FileSet] /\ fat \in [Clusters -> Link]
      /\ call.op = "truncate" /\ b.n_frag = 0 /\ f.open /\ f.cut
      /\ call.op # "rename" /\ call.pc # "erase"
      /\ entry[s].used /\ Shrinking(fat, b, f, call, q) /\ (~ExFat => b.stat = 0)
  BY <1>1, <1>2, RemoveHas
<1>4. r = <<>> /\ call.failed = FALSE
  BY <1>2, <1>3 DEF IInv, CallOK, CallSet
<1>5. f.fptr = Len(q)
  BY <1>3 DEF Shrinking
<1>6. /\ UNCHANGED <<fs_type, fat, bitmap, entry, free_clst, last_clst, fsi_flag, pulls>>
      /\ \E R : Read(R)
      /\ call' = [Idle EXCEPT !.failed = call.failed] /\ obj' = [obj EXCEPT ![s] = b2] /\ file' = [file EXCEPT ![s] = g]
  <2>1. Truncated([b EXCEPT !.stat = x], f.fptr) = b2
    <3>1. PICK n, y : n = Len(q) /\ y = IF n = 0 THEN 0 ELSE b.sclust
      OBVIOUS
    <3>2. b2 = [b EXCEPT !.stat = x, !.objsize = n, !.sclust = y]
      BY <1>1, <3>1 DEF Left
    <3>3. PICK e : e = [b EXCEPT !.stat = x]
      OBVIOUS
    <3>4. e.sclust = b.sclust /\ [e EXCEPT !.objsize = n, !.sclust = y] = [b EXCEPT !.stat = x, !.objsize = n, !.sclust = y]
      BY <1>3, <3>3 DEF ObjSet
    <3>5. Truncated(e, n) = [e EXCEPT !.objsize = n, !.sclust = y]
      BY <3>1, <3>4 DEF Truncated
    <3> QED
      BY <1>5, <3>1, <3>2, <3>3, <3>4, <3>5
  <2>2. [O EXCEPT !.stat = IF ExFat THEN StatusAfter(O, call.pclst) ELSE @] = [b EXCEPT !.stat = x]
    BY <1>1, <1>3
  <2>3. /\ obj' = [obj EXCEPT ![call.s] = Truncated([O EXCEPT !.stat = IF ExFat THEN StatusAfter(O, call.pclst) ELSE @], F.fptr)]
        /\ file' = [file EXCEPT ![call.s] = [F EXCEPT !.modified = TRUE]]
        /\ call' = [Idle EXCEPT !.failed = call.failed]
    BY <1>3 DEF Freed, SetObj, SetFile
  <2>4. UNCHANGED <<fs_type, fat, bitmap, entry, free_clst, last_clst, fsi_flag, pulls>> /\ \E R : Read(R)
    BY DEF Freed, volume, counts, bounds
  <2> QED
    BY <1>1, <1>3, <2>1, <2>2, <2>3, <2>4
<1>7. call' = Idle
  BY <1>4, <1>6 DEF Idle
<1>8. x \in {0, 2, 3} /\ StatusLeft(b, q, x) /\ (x = 3 => q # <<>> /\ b.n_cont < Len(q))
  BY <1>1, <1>2, <1>3, StatusFits
<1>9. g \in FileSet /\ g.open /\ g.cut /\ g.modified /\ g.fptr = f.fptr /\ g.clust = f.clust
  BY <1>1, <1>3 DEF FileSet
<1>10. /\ Held(fat, b2, g, q) /\ b2 \in ObjSet
       /\ b2.stat = x /\ b2.objsize = Len(q) /\ b2.n_frag = 0 /\ (b2.sclust # 0 => Len(q) > 0)
  <2>1. Leaving(fat, b, f, q, call, x, g, b2)
    BY <1>1, <1>2, <1>3, <1>8, <1>9 DEF Leaving
  <2>2. b \in ObjSet /\ f \in FileSet /\ q \in Seq(Clusters) /\ Alone(q)
    BY <1>3
  <2> QED
    BY <2>1, <2>2, LeftHeld
<1>11. DiskMoves
  BY <1>3, <1>6, ReadMoves
<1>12. /\ obj' \in [Slots -> ObjSet] /\ obj'[s] = b2 /\ \A t \in Slots : t # s => obj'[t] = obj[t]
       /\ file' \in [Slots -> FileSet] /\ file'[s] = g /\ \A t \in Slots : t # s => file'[t] = file[t]
  BY <1>3, <1>6, <1>9, <1>10
<1>13. call'.pc = "idle" /\ call'.op = "none" /\ call' \in CallSet
  BY <1>7 DEF Idle, CallSet, Ops, Pcs, Cluster0
<1>14. SlotInv(s, q)'
  <2>1. ~Removing(s)'
    BY <1>13 DEF Removing
  <2>2. ~ExFat' => b2.stat = 0
    BY <1>1, <1>3, <1>6, <1>10 DEF ExFat
  <2>3. Len(q) \in Nat /\ g.fptr = Len(q)
    BY <1>3, <1>5, <1>9
  <2>4. OpenOK(s, q)'
    BY <1>3, <1>6, <1>9, <1>10, <1>12, <2>1, <2>2, <2>3 DEF OpenOK
  <2>5. SlotOK(s, q)'
    BY <1>9, <1>12, <2>4 DEF SlotOK
  <2>6. ~Settled(s)' /\ ~Quiet(s)'
    BY <1>9, <1>12 DEF Settled, Quiet
  <2>7. Kept(s, q)' /\ OnDisk(s, q)'
    BY <2>6 DEF Kept, OnDisk
  <2> QED
    BY <2>5, <2>7 DEF SlotInv
<1>15. \A t \in Slots : SlotInv(t, o[t])'
  <2>1. \A t \in Slots \ {s} : obj'[t] = obj[t] /\ file'[t] = file[t] /\ entry'[t] = entry[t] /\ Agree(fat, fat', o[t])
    BY <1>6, <1>12, AgreeSame
  <2> QED
    BY <1>1, <1>2, <1>3, <1>6, <1>11, <1>13, <1>14, <2>1, SlotsStep
<1>16. Types'
  BY <1>3, <1>6, <1>11, <1>12, <1>13, TypesStep DEF Types
<1>17. CallOK(o, r)'
  BY <1>4, <1>7, IdleCall
<1>18. Torn'
  BY <1>3, <1>9, <1>12 DEF Torn
<1>19. call.pc \notin Handing /\ call'.pc \notin Handing
  BY <1>2, <1>13 DEF Handing
<1> QED
  BY <1>6, <1>11, <1>15, <1>16, <1>17, <1>18, <1>19, CalmStep

\* Freed keeps the invariant.
LEMMA StepFreed ==
    ASSUME NEW o, NEW r, IInv(o, r), LagInv, Freed PROVE Kept1(o, r)
  BY StepFreedUnlink, StepFreedTruncate

\* f_unlink begins to remove, as the fields of its call.
LEMMA UnlinkCall ==
    ASSUME NEW pc, NEW s, NEW c, NEW p,
           p = [Idle EXCEPT !.op = "unlink", !.pc = pc, !.s = s, !.clst = c, !.scl = c, !.ecl = c]
    PROVE  p = CallRec("unlink", pc, s, 0, c, 0, 0, c, c, FALSE)
  BY DEF Idle, CallRec

\* Unlink keeps the invariant.
LEMMA StepUnlink ==
    ASSUME NEW o, NEW r, IInv(o, r), LagInv, NEW s \in Slots, Unlink(s) PROVE Kept1(o, r)
<1>1. PICK q, e, b, f, d, pc2 : /\ q = o[s] /\ e = entry[s] /\ b = obj'[s] /\ f = file[s] /\ d = e.sclust
                                /\ pc2 = IF d = 0 THEN "sync" ELSE "free"
  OBVIOUS
<1>2. /\ call.pc = "idle" /\ e.used /\ ~f.open
      /\ UNCHANGED <<fs_type, fat, bitmap, free_clst, last_clst, fsi_flag, file, pulls>>
      /\ \E R, sect : Modify(R, sect)
      /\ entry' = [entry EXCEPT ![s] = NoEntry]
      /\ call' = [Idle EXCEPT !.op = "unlink", !.pc = pc2, !.s = s, !.clst = d, !.scl = d, !.ecl = d]
  BY <1>1 DEF Unlink, counts
<1>3. /\ call = Idle /\ r = <<>> /\ call.op = "none" /\ call.pc \notin Handing /\ call.pc # "erase" /\ call.op # "rename"
  BY <1>2, IdleIs
<1>4. /\ q \in Seq(Clusters) /\ Alone(q) /\ SlotInv(s, q) /\ e \in EntrySet /\ f \in FileSet
  BY <1>1, SlotHas
<1>5. Types /\ ChainsOK(o, r) /\ DiskMoves
  BY <1>2, ModifyMoves DEF IInv
<1>6. /\ obj \in [Slots -> ObjSet] /\ file \in [Slots -> FileSet] /\ entry \in [Slots -> EntrySet]
      /\ fat \in [Clusters -> Link]
  BY <1>5 DEF Types
<1>7. /\ \A t \in Slots : t # s => obj'[t] = obj[t] /\ entry'[t] = entry[t]
      /\ obj' = [obj EXCEPT ![s] = b] /\ entry'[s] = NoEntry
      /\ b = [NoObj EXCEPT !.sclust = d, !.objsize = e.size, !.stat = e.stat]
  BY <1>1, <1>2, <1>6 DEF Unlink
<1>8. /\ b.sclust = d /\ b.objsize = e.size /\ b.stat = e.stat /\ b.n_cont = 0 /\ b.n_frag = 0 /\ b \in ObjSet
      /\ d \in Cluster0 /\ d \in Nat /\ (e.size = 0 <=> d = 0)
  <2>1. /\ b.sclust = d /\ b.objsize = e.size /\ b.stat = e.stat /\ b.n_cont = 0 /\ b.n_frag = 0
    BY <1>7 DEF NoObj
  <2>2. b \in ObjSet
    <3>1. PICK x, y : x = e.size /\ y = e.stat
      OBVIOUS
    <3>2. x \in Nat /\ y \in {0, 2, 3} /\ d \in Cluster0
      BY <1>1, <1>4, <3>1 DEF EntrySet
    <3>3. b = [NoObj EXCEPT !.sclust = d, !.objsize = x, !.stat = y]
      BY <1>7, <3>1
    <3> QED
      BY <3>2, <3>3 DEF ObjSet, NoObj
  <2>3. d \in Cluster0 /\ (e.size = 0 <=> d = 0)
    BY <1>1, <1>4 DEF EntrySet
  <2> QED
    BY <2>1, <2>2, <2>3, Nums
<1>9. Laid(fat, e, q) /\ f = NoFile
  BY <1>1, <1>2, <1>3, <1>4 DEF SlotInv, SlotOK
<1>11. Held(fat, b, f, q) /\ Plain(b)
  <2>1. f.fptr = 0
    BY <1>9 DEF NoFile
  <2> QED
    BY <1>1, <1>4, <1>8, <1>9, <2>1, LaidHeld
<1>12. PICK n, z, r2, p : /\ n = 0 /\ z = SubSeq(q, 1, n) /\ r2 = SubSeq(q, n + 1, Len(q)) /\ p = [o EXCEPT ![s] = z]
  OBVIOUS
<1>13. /\ ChainsOK(p, r2) /\ Owners!Cut(s, o, p) /\ CutInto(q, n, z, r2) /\ p[s] = z
       /\ \A t \in Slots : t # s => p[t] = o[t]
  <2>1. n \in 0 .. Len(q)
    BY <1>4, <1>12
  <2>2. CutAt(o, s, n, p, r2)
    BY <1>1, <1>12, <2>1 DEF CutAt
  <2>3. p[s] = z
    BY <1>5, <1>12 DEF ChainsOK
  <2> QED
    BY <1>1, <1>3, <1>5, <2>2, <2>3, CutChains
<1>14. /\ z = <<>> /\ Elems(z) = {} /\ r2 \in Seq(Clusters) /\ Elems(q) = Elems(r2)
       /\ (r2 = <<>> <=> d = 0) /\ (r2 # <<>> => r2[1] = d /\ d \in Clusters)
  <2>1. /\ z \in Seq(Clusters) /\ Len(z) = n /\ r2 \in Seq(Clusters) /\ Len(r2) = Len(q) - n
        /\ \A i \in 1 .. Len(r2) : n + i \in 1 .. Len(q) /\ r2[i] = q[n + i]
        /\ Elems(q) = Elems(z) \union Elems(r2)
    BY <1>13 DEF CutInto
  <2>2. z = <<>>
    BY <1>12, <2>1
  <2>3. Elems(z) = {}
    BY <2>2 DEF Elems
  <2>4. Len(r2) = Len(q)
    BY <1>4, <1>12, <2>1
  <2>5. r2 = <<>> <=> q = <<>>
    BY <1>4, <2>1, <2>4
  <2>6. ASSUME r2 # <<>> PROVE r2[1] = d /\ d \in Clusters
    <3>1. q # <<>> /\ q[1] = d
      BY <1>1, <1>9, <2>5, <2>6 DEF Laid
    <3>2. 1 \in 1 .. Len(r2) /\ 1 \in 1 .. Len(q) /\ n + 1 = 1
      BY <1>4, <1>12, <2>4, <3>1
    <3>3. r2[1] = q[n + 1]
      BY <2>1, <3>2
    <3>4. q[1] \in Clusters
      BY <1>4, <3>2
    <3> QED
      BY <3>1, <3>2, <3>3, <3>4
  <2>7. d = 0 <=> q = <<>>
    BY <1>1, <1>9 DEF Laid
  <2> QED
    BY <2>1, <2>2, <2>3, <2>5, <2>6, <2>7
<1>15. /\ call' \in CallSet /\ call'.pc = pc2 /\ call'.op = "unlink" /\ call'.s = s /\ call'.ncl = 0
       /\ call'.clst = d /\ call'.pclst = 0 /\ call'.scl = d /\ call'.ecl = d
  <2>1. call' = CallRec("unlink", pc2, s, 0, d, 0, 0, d, d, FALSE)
    BY <1>2, UnlinkCall
  <2>2. pc2 \in Pcs /\ 0 \in Cluster0 /\ "unlink" \in Ops
    BY <1>1 DEF Pcs, Cluster0, Ops
  <2> QED
    BY <1>8, <2>1, <2>2 DEF CallSet, CallRec
<1>16. pc2 \in {"sync", "free"} /\ (pc2 = "free" <=> d # 0) /\ (pc2 = "free" <=> r2 # <<>>)
  BY <1>1, <1>14
<1>17. obj' \in [Slots -> ObjSet] /\ entry' \in [Slots -> EntrySet] /\ NoEntry \in EntrySet
  <2>1. NoEntry \in EntrySet
    BY DEF NoEntry, EntrySet, Cluster0
  <2> QED
    BY <1>2, <1>6, <1>7, <1>8, <2>1
<1>18. SlotInv(s, z)'
  <2>1. Laid(fat', NoEntry, z)
    BY <1>14 DEF Laid, NoEntry
  <2>2. file'[s] = NoFile /\ ~file'[s].open
    BY <1>1, <1>2, <1>9
  <2>3. SlotOK(s, z)'
    BY <1>7, <1>15, <1>16, <2>1, <2>2 DEF SlotOK
  <2>4. Kept(s, z)'
    BY <1>7, <1>14, <2>1 DEF Kept
  <2>5. ~NoEntry.used
    BY DEF NoEntry
  <2>6. OnDisk(s, z)'
    BY <1>7, <2>5 DEF OnDisk, Quiet
  <2> QED
    BY <2>3, <2>4, <2>6 DEF SlotInv
<1>19. \A t \in Slots : SlotInv(t, p[t])'
  <2>1. \A t \in Slots \ {s} :
               p[t] = o[t] /\ obj'[t] = obj[t] /\ file'[t] = file[t] /\ entry'[t] = entry[t] /\ Agree(fat, fat', o[t])
    BY <1>2, <1>7, <1>13 DEF Agree
  <2>2. call'.pc # "erase" /\ call'.op # "rename" /\ call'.s = s /\ fs_type' = fs_type
    BY <1>2, <1>15, <1>16
  <2>3. SlotInv(s, p[s])'
    BY <1>13, <1>18
  <2> QED
    BY <1>2, <1>3, <1>5, <2>1, <2>2, <2>3, SlotsStep
<1>20. Types'
  BY <1>2, <1>5, <1>6, <1>15, <1>17, TypesStep DEF Types
<1>21. CallOK(p, r2)'
  <2>1. F' = f /\ O' = b /\ (ExFat' <=> ExFat)
    BY <1>1, <1>2, <1>15 DEF F, O, ExFat
  <2>2. SeekOK(z)' /\ LinkOK(p)' /\ SyncOK'
    BY <1>15, <1>16 DEF SeekOK, Seeking, Next1, LinkOK, SyncOK
  <2>3. pc2 = "free" => Remaining(r2)'
    <3> SUFFICES ASSUME pc2 = "free" PROVE Remaining(r2)'
      OBVIOUS
    <3>1. \A i \in 1 .. Len(r2) : r2[i] \in Clusters /\ GetFat(b, r2[i]) = IF i < Len(r2) THEN r2[i + 1] ELSE EOC
      <4>1. e.size \in Nat /\ e.size # 0
        BY <1>4, <1>8, <1>16 DEF EntrySet
      <4>2. b.objsize > 0 /\ f.fptr = 0 /\ 0 <= b.objsize
        BY <1>8, <1>9, <4>1 DEF NoFile
      <4> QED
        BY <1>4, <1>5, <1>8, <1>11, <1>13, <4>2, RestGet
    <3>2. \A c \in Clusters : GetFat(O, c)' = GetFat(b, c)
      <4> TAKE c \in Clusters
      <4>1. GetFat(b, c)' = GetFat(b, c)
        BY <1>2, GetSame
      <4> QED
        BY <2>1, <4>1 DEF GetFat
    <3> QED
      BY <3>1, <3>2 DEF Remaining
  <2>4. RemoveOK(p, r2)'
    <3>1. call'.scl .. call'.clst - 1 = {}
      BY <1>8, <1>15
    <3>2. d <= d
      BY <1>8
    <3>3. entry'[call'.s] = NoEntry /\ ~F'.open /\ O'.n_frag = 0
      BY <1>2, <1>7, <1>8, <1>15, <2>1
    <3> QED
      BY <1>14, <1>15, <1>16, <2>3, <3>1, <3>2, <3>3 DEF RemoveOK
  <2> QED
    BY <1>13, <1>15, <1>16, <2>2, <2>4 DEF CallOK
<1>22. SameUse
  BY <1>2, SameUseBy
<1>23. ChainsOK(p, r2)'
  BY <1>13, <1>22, ChainsStay DEF SameUse
<1>24. Marks(p, r2)'
  <2> SUFFICES ASSUME pulls' = 0, NEW c \in Clusters, InUse(c)', c \notin Limbo(r2)' PROVE \E t \in Slots : c \in Elems(p[t])
    BY DEF Marks
  <2>1. Limbo(r) = {}
    BY <1>2 DEF Limbo
  <2>2. PICK t \in Slots : c \in Elems(o[t])
    BY <1>2, <1>22, <2>1 DEF Marks, IInv, SameUse
  <2>3. CASE t = s
    <3>1. c \in Elems(r2)
      BY <1>1, <1>14, <2>2, <2>3
    <3>2. r2 # <<>>
      BY <3>1 DEF Elems
    <3> QED
      BY <1>15, <1>16, <3>1, <3>2 DEF Limbo
  <2>4. CASE t # s
    BY <1>13, <2>2, <2>4
  <2> QED
    BY <2>3, <2>4
<1>25. Count'
  <2>1. Pending = 0 /\ Pending' = 0
    <3>1. d - d = 0
      BY <1>8
    <3> QED
      BY <1>2, <1>15, <1>16, <3>1 DEF Pending
  <2> QED
    BY <1>2, <1>22, <2>1, CountStays DEF IInv
<1>26. DiskSound'
  <2>1. Unstretched
    BY <1>2, OthersUnstretched DEF Next1
  <2>2. Torn => Torn'
    BY <1>2, <1>3 DEF Torn, ExFat
  <2> QED
    BY <1>2, <1>5, <2>1, <2>2, DiskStep
<1>27. IInv(p, r2)'
  BY <1>19, <1>20, <1>21, <1>23, <1>24, <1>25, <1>26 DEF IInv, SlotInv
<1> QED
  BY <1>2, <1>13, <1>27 DEF Kept1, Moves

\* A slot that is not in use has no chain and no open file.
LEMMA Unused ==
    ASSUME NEW o, NEW r, IInv(o, r), call.pc = "idle", NEW s \in Slots, ~entry[s].used
    PROVE  /\ o[s] = <<>> /\ ~file[s].open /\ file[s] = NoFile /\ entry[s] = NoEntry
           /\ \A m : Laid(m, entry[s], o[s])
<1>1. SlotInv(s, o[s]) /\ entry[s] \in EntrySet
  BY SlotHas
<1>2. ~file[s].open
  BY <1>1 DEF SlotInv, SlotOK, OpenOK
<1>3. file[s] = NoFile /\ Laid(fat, entry[s], o[s])
  BY <1>1, <1>2 DEF SlotInv, SlotOK
<1>4. entry[s] = NoEntry
  BY <1>1 DEF EntrySet
<1>5. entry[s].sclust = 0
  BY <1>4 DEF NoEntry
<1>6. o[s] = <<>>
  BY <1>3, <1>5 DEF Laid
<1> QED
  BY <1>2, <1>3, <1>4, <1>5, <1>6 DEF Laid

\* Rename keeps the invariant.
LEMMA StepRename ==
    ASSUME NEW o, NEW r, IInv(o, r), LagInv, NEW s \in Slots, NEW t \in Slots, Rename(s, t) PROVE Kept1(o, r)
<1>1. /\ call.pc = "idle" /\ entry[s].used /\ ~file[s].open /\ ~entry[t].used
      /\ UNCHANGED <<fs_type, fat, bitmap, free_clst, last_clst, fsi_flag, obj, file, pulls>>
      /\ \E R, sect : Modify(R, sect)
      /\ entry' = [entry EXCEPT ![t] = entry[s]]
      /\ call' = [Idle EXCEPT !.op = "rename", !.pc = "erase", !.s = s, !.to = t]
  BY DEF Rename, Begin, counts
<1>2. /\ call = Idle /\ r = <<>> /\ call.op = "none" /\ call.pc \notin Handing /\ call.pc # "erase" /\ call.op # "rename"
  BY <1>1, IdleIs
<1>3. /\ o[t] = <<>> /\ ~file[t].open /\ file[t] = NoFile /\ s # t
  BY <1>1, Unused
<1>4. Types /\ DiskMoves
  BY <1>1, ModifyMoves DEF IInv
<1>5. entry \in [Slots -> EntrySet]
  BY <1>4 DEF Types
<1>6. /\ call' \in CallSet /\ call'.pc = "erase" /\ call'.op = "rename" /\ call'.s = s /\ call'.to = t /\ call'.ncl = 0
  <2>1. call' = Begun("rename", "erase", s, t)
    BY <1>1, BegunIs
  <2> QED
    BY <2>1 DEF Begun, CallRec, CallSet, Ops, Pcs, Cluster0
<1>7. entry' \in [Slots -> EntrySet] /\ entry'[t] = entry[s] /\ \A u \in Slots : u # t => entry'[u] = entry[u]
  BY <1>1, <1>5
<1>8. ASSUME NEW u \in Slots PROVE SlotInv(u, o[u])'
  <2>1. SlotInv(u, o[u]) /\ o[u] \in Seq(Clusters)
    BY SlotHas
  <2>2. CASE u = t
    <3>1. SlotOK(t, o[t])'
      BY <1>1, <1>3, <1>6 DEF SlotOK
    <3>2. Kept(t, o[t])' /\ OnDisk(t, o[t])'
      BY <1>6 DEF Kept, OnDisk, Quiet
    <3> QED
      BY <2>2, <3>1, <3>2 DEF SlotInv
  <2>3. CASE u = s
    <3>1. file[s] = NoFile /\ Laid(fat, entry[s], o[s])
      BY <1>1, <1>2, <2>1, <2>3 DEF SlotInv, SlotOK
    <3>2. SlotOK(s, o[s])'
      BY <1>1, <1>3, <1>6, <1>7, <3>1 DEF SlotOK
    <3>3. Laid(fat, entry[s], IF entry[s].sclust = 0 THEN <<>> ELSE o[s])
      BY <3>1 DEF Laid
    <3>4. Kept(s, o[s])' /\ OnDisk(s, o[s])'
      BY <1>1, <1>3, <1>6, <1>7, <3>3 DEF Kept, OnDisk, Quiet
    <3> QED
      BY <2>3, <3>2, <3>4 DEF SlotInv
  <2>4. CASE u # t /\ u # s
    <3>1. ~Active(u) /\ ~Active(u)'
      BY <1>1, <1>6, <2>4 DEF Active
    <3>2. Agree(fat, fat', o[u])
      BY <1>1, AgreeSame
    <3>3. obj'[u] = obj[u] /\ file'[u] = file[u] /\ entry'[u] = entry[u] /\ fs_type' = fs_type
      BY <1>1, <1>7, <2>4
    <3>4. (call'.pc = "erase" /\ call'.to = u) <=> (call.pc = "erase" /\ call.to = u)
      BY <1>2, <1>6, <2>4
    <3>5. SlotOK(u, o[u])' /\ Kept(u, o[u])' /\ OnDisk(u, o[u])'
      BY <1>2, <1>4, <2>1, <3>1, <3>2, <3>3, <3>4, OtherSlot DEF SlotInv
    <3> QED
      BY <3>5 DEF SlotInv
  <2> QED
    BY <2>2, <2>3, <2>4
<1>9. Types'
  BY <1>1, <1>4, <1>6, <1>7, TypesStep DEF Types
<1>10. CallOK(o, r)'
  <2>1. SeekOK(o[s])' /\ LinkOK(o)' /\ RemoveOK(o, r)'
    BY <1>6 DEF SeekOK, Seeking, Next1, LinkOK, RemoveOK
  <2>2. SyncOK'
    BY <1>1, <1>3, <1>6, <1>7 DEF SyncOK
  <2> QED
    BY <1>2, <1>6, <2>1, <2>2 DEF CallOK
<1>11. Torn'
  BY <1>6 DEF Torn
<1>12. call'.pc \notin Handing
  BY <1>6 DEF Handing
<1> QED
  BY <1>1, <1>2, <1>4, <1>8, <1>9, <1>10, <1>11, <1>12, CalmStep

\* A chain goes from one slot to another that has none.
LEMMA HandedOn ==
    ASSUME NEW o, NEW r, ChainsOK(o, r), NEW s \in Slots, NEW t \in Slots, s # t, o[t] = <<>>,
           NEW p, p = [u \in Slots |-> IF u = t THEN o[s] ELSE IF u = s THEN <<>> ELSE o[u]]
    PROVE  ChainsOK(p, r) /\ Owners!HandOn(s, t, o, p)
<1>1. p[s] = <<>> /\ p[t] = o[s] /\ \A u \in Slots \ {s, t} : p[u] = o[u]
  OBVIOUS
<1>2. Owners!HandOn(s, t, o, p)
  BY <1>1 DEF Owners!HandOn
<1>3. p \in [Slots -> Seq(Clusters)]
  <2>1. <<>> \in Seq(Clusters) /\ o \in [Slots -> Seq(Clusters)]
    BY DEF ChainsOK
  <2> QED
    BY <2>1
<1>4. \A u \in Slots : p[u] = <<>> \/ \E v \in Slots : p[u] = o[v] /\ (v = u \/ (u = t /\ v = s))
  BY <1>1
<1>5. \A u \in Slots : \A i, j \in DOMAIN p[u] : p[u][i] = p[u][j] => i = j
  <2>1. \A u \in Slots : \A i, j \in DOMAIN o[u] : o[u][i] = o[u][j] => i = j
    BY DEF ChainsOK, Owners!Apart
  <2> QED
    BY <1>4, <2>1
<1>6. \A u, v \in Slots : u # v => \A i \in DOMAIN p[u], j \in DOMAIN p[v] : p[u][i] # p[v][j]
  <2> SUFFICES ASSUME NEW u \in Slots, NEW v \in Slots, u # v, NEW i \in DOMAIN p[u], NEW j \in DOMAIN p[v]
               PROVE  p[u][i] # p[v][j]
    OBVIOUS
  <2>1. p[u] # <<>> /\ p[v] # <<>>
    OBVIOUS
  <2>2. u # s /\ v # s
    BY <1>1, <2>1
  <2>3. PICK w \in Slots : p[u] = o[w] /\ (w = u \/ (u = t /\ w = s))
    BY <1>4, <2>1
  <2>4. PICK x \in Slots : p[v] = o[x] /\ (x = v \/ (v = t /\ x = s))
    BY <1>4, <2>1
  <2>5. w # x
    BY <2>2, <2>3, <2>4
  <2> QED
    BY <2>3, <2>4, <2>5 DEF ChainsOK, Owners!Apart
<1>7. Owners!Apart(p)
  BY <1>5, <1>6 DEF Owners!Apart
<1>8. \A u \in Slots : \A c \in Elems(p[u]) : InUse(c) /\ c \notin Elems(r)
  <2>1. Elems(<<>>) = {}
    BY DEF Elems
  <2> QED
    BY <1>4, <2>1 DEF ChainsOK
<1> QED
  BY <1>2, <1>3, <1>7, <1>8 DEF ChainsOK

\* RenameErase keeps the invariant.
LEMMA StepRenameErase ==
    ASSUME NEW o, NEW r, IInv(o, r), LagInv, RenameErase PROVE Kept1(o, r)
<1>1. PICK s, t, p : /\ s = call.s /\ t = call.to
                     /\ p = [u \in Slots |-> IF u = t THEN o[s] ELSE IF u = s THEN <<>> ELSE o[u]]
  OBVIOUS
<1>2. /\ call.pc = "erase" /\ call' = [call EXCEPT !.pc = "sync"]
      /\ UNCHANGED <<fs_type, fat, bitmap, free_clst, last_clst, fsi_flag, obj, file, pulls>>
      /\ \E R, sect : Modify(R, sect)
      /\ entry' = [entry EXCEPT ![s] = NoEntry] /\ "sync" \in Pcs
  BY <1>1 DEF RenameErase, counts, bounds, Pcs
<1>3. Types /\ DiskMoves /\ ChainsOK(o, r) /\ call \in CallSet /\ entry \in [Slots -> EntrySet]
  BY <1>2, ModifyMoves DEF IInv, Types
<1>4. /\ s \in Slots /\ t \in Slots /\ s # t /\ call.op = "rename" /\ entry[t] = entry[s] /\ entry[s].used
      /\ ~file[s].open /\ ~file[t].open /\ call.ncl = 0 /\ r = <<>>
  BY <1>1, <1>2 DEF IInv, CallOK, SyncOK
<1>5. /\ SlotInv(s, o[s]) /\ SlotInv(t, o[t])
  BY <1>4, SlotHas
<1>6. /\ o[t] = <<>> /\ file[s] = NoFile /\ file[t] = NoFile /\ Laid(fat, entry[t], o[s])
  BY <1>1, <1>2, <1>4, <1>5 DEF SlotInv, SlotOK
<1>7. /\ ChainsOK(p, r) /\ Owners!HandOn(s, t, o, p)
      /\ p[s] = <<>> /\ p[t] = o[s] /\ \A u \in Slots : u # s /\ u # t => p[u] = o[u]
  BY <1>1, <1>3, <1>4, <1>6, HandedOn
<1>8. /\ call' \in CallSet /\ call'.pc = "sync" /\ call'.op = "rename" /\ call'.s = s /\ call'.to = t /\ call'.ncl = 0
  BY <1>1, <1>2, <1>3, <1>4 DEF CallSet
<1>9. /\ entry' \in [Slots -> EntrySet] /\ entry'[s] = NoEntry /\ \A u \in Slots : u # s => entry'[u] = entry[u]
  <2>1. NoEntry \in EntrySet
    BY DEF NoEntry, EntrySet, Cluster0
  <2> QED
    BY <1>2, <1>3, <1>4, <2>1
<1>10. ASSUME NEW u \in Slots PROVE SlotInv(u, p[u])'
  <2>1. CASE u = t
    <3>1. SlotOK(t, o[s])'
      BY <1>2, <1>4, <1>6, <1>8, <1>9 DEF SlotOK
    <3>2. Laid(fat, entry[t], IF entry[t].sclust = 0 THEN <<>> ELSE o[s])
      BY <1>6 DEF Laid
    <3>3. Kept(t, o[s])' /\ OnDisk(t, o[s])'
      BY <1>2, <1>4, <1>8, <1>9, <3>2 DEF Kept, OnDisk, Quiet
    <3> QED
      BY <1>7, <2>1, <3>1, <3>3 DEF SlotInv
  <2>2. CASE u = s
    <3>1. \A m : Laid(m, NoEntry, <<>>)
      BY DEF Laid, NoEntry
    <3>2. SlotOK(s, <<>>)'
      BY <1>2, <1>4, <1>6, <1>8, <1>9, <3>1 DEF SlotOK
    <3>3. Kept(s, <<>>)' /\ OnDisk(s, <<>>)'
      BY <1>8, <1>9, <3>1 DEF Kept, OnDisk, Quiet
    <3> QED
      BY <1>7, <2>2, <3>2, <3>3 DEF SlotInv
  <2>3. CASE u # t /\ u # s
    <3>1. ~Active(u) /\ ~Active(u)'
      BY <1>1, <1>8, <2>3 DEF Active
    <3>2. Agree(fat, fat', o[u]) /\ SlotInv(u, o[u]) /\ o[u] \in Seq(Clusters)
      BY <1>2, AgreeSame, SlotHas
    <3>3. obj'[u] = obj[u] /\ file'[u] = file[u] /\ entry'[u] = entry[u] /\ fs_type' = fs_type
      BY <1>2, <1>9, <2>3
    <3>4. (call'.pc = "erase" /\ call'.to = u) <=> (call.pc = "erase" /\ call.to = u)
      BY <1>1, <1>8, <2>3
    <3>5. (call'.op = "rename" => u \notin {call'.s, call'.to}) => (call.op = "rename" => u \notin {call.s, call.to})
      BY <1>1, <2>3
    <3>6. SlotOK(u, o[u])' /\ Kept(u, o[u])' /\ OnDisk(u, o[u])'
      BY <1>3, <3>1, <3>2, <3>3, <3>4, <3>5, OtherSlot DEF SlotInv
    <3> QED
      BY <1>7, <2>3, <3>6 DEF SlotInv
  <2> QED
    BY <2>1, <2>2, <2>3
<1>11. Types'
  BY <1>2, <1>3, <1>8, <1>9, TypesStep DEF Types
<1>12. CallOK(p, r)'
  <2>1. SeekOK(p[s])' /\ LinkOK(p)' /\ RemoveOK(p, r)'
    BY <1>8 DEF SeekOK, Seeking, Next1, LinkOK, RemoveOK
  <2>2. SyncOK'
    BY <1>2, <1>4, <1>8 DEF SyncOK
  <2> QED
    BY <1>4, <1>8, <2>1, <2>2 DEF CallOK
<1>13. SameUse
  BY <1>2, SameUseBy
<1>14. ChainsOK(p, r)'
  BY <1>7, <1>13, ChainsStay DEF SameUse
<1>15. Marks(p, r)'
  <2> SUFFICES ASSUME pulls' = 0, NEW c \in Clusters, InUse(c)' PROVE \E u \in Slots : c \in Elems(p[u])
    BY DEF Marks
  <2>1. Limbo(r) = {}
    BY <1>2 DEF Limbo
  <2>2. PICK u \in Slots : c \in Elems(o[u])
    BY <1>2, <1>13, <2>1 DEF Marks, IInv, SameUse
  <2>3. u # t
    BY <1>6, <2>2 DEF Elems
  <2> QED
    BY <1>4, <1>7, <2>2, <2>3
<1>16. Count'
  <2>1. Pending = 0 /\ Pending' = 0
    BY <1>2, <1>8 DEF Pending
  <2> QED
    BY <1>2, <1>13, <2>1, CountStays DEF IInv
<1>17. DiskSound'
  BY <1>8 DEF DiskSound, Torn
<1>18. IInv(p, r)'
  BY <1>10, <1>11, <1>12, <1>14, <1>15, <1>16, <1>17 DEF IInv, SlotInv
<1> QED
  BY <1>2, <1>4, <1>7, <1>18 DEF Kept1, Moves

\* Create keeps the invariant.
LEMMA StepCreate ==
    ASSUME NEW o, NEW r, IInv(o, r), LagInv, NEW s \in Slots, NEW size \in Sizes, Create(s, size) PROVE Kept1(o, r)
<1>1. PICK e, f : e = [NoEntry EXCEPT !.used = TRUE] /\ f = [NoFile EXCEPT !.open = TRUE, !.modified = TRUE]
  OBVIOUS
<1>2. /\ call.pc = "idle" /\ ~entry[s].used
      /\ UNCHANGED <<fs_type, fat, bitmap, free_clst, last_clst, fsi_flag, pulls>>
      /\ \E R, sect : Modify(R, sect)
      /\ entry' = [entry EXCEPT ![s] = e] /\ obj' = [obj EXCEPT ![s] = NoObj] /\ file' = [file EXCEPT ![s] = f]
      /\ call' = [Idle EXCEPT !.op = "create", !.pc = "fill", !.s = s, !.to = size]
  BY <1>1 DEF Create, Begin, counts
<1>3. /\ call = Idle /\ r = <<>> /\ call.op = "none" /\ call.pc \notin Handing /\ call.pc # "erase" /\ call.op # "rename"
  BY <1>2, IdleIs
<1>4. o[s] = <<>> /\ ~file[s].open /\ file[s] = NoFile
  BY <1>2, Unused
<1>5. Types /\ DiskMoves
  BY <1>2, ModifyMoves DEF IInv
<1>6. size \in Nat
  BY AllocAssumption
<1>7. /\ e.used /\ e.sclust = 0 /\ e.size = 0 /\ e.stat = 0 /\ e \in EntrySet
      /\ f.open /\ f.modified /\ ~f.cut /\ f.fptr = 0 /\ f \in FileSet
      /\ NoObj.sclust = 0 /\ NoObj.objsize = 0 /\ NoObj.stat = 0 /\ NoObj.n_cont = 0 /\ NoObj.n_frag = 0 /\ NoObj \in ObjSet
  BY <1>1 DEF NoEntry, NoFile, NoObj, EntrySet, FileSet, ObjSet, Cluster0
<1>8. /\ entry' \in [Slots -> EntrySet] /\ entry'[s] = e /\ obj' \in [Slots -> ObjSet] /\ obj'[s] = NoObj
      /\ file' \in [Slots -> FileSet] /\ file'[s] = f
      /\ \A u \in Slots : u # s => entry'[u] = entry[u] /\ obj'[u] = obj[u] /\ file'[u] = file[u]
  BY <1>2, <1>5, <1>7 DEF Types
<1>9. /\ call' \in CallSet /\ call'.pc = "fill" /\ call'.op = "create" /\ call'.s = s /\ call'.to = size /\ call'.ncl = 0
  <2>1. call' = Begun("create", "fill", s, size)
    BY <1>2, BegunIs
  <2> QED
    BY <1>6, <2>1 DEF Begun, CallRec, CallSet, Ops, Pcs, Cluster0
<1>10. SlotInv(s, o[s])'
  <2>1. ~Removing(s)'
    BY <1>9 DEF Removing
  <2>2. \A m : Laid(m, e, <<>>)
    BY <1>7 DEF Laid
  <2>3. \A m : Held(m, NoObj, f, <<>>)
    <3> TAKE m
    <3>1. Len(<<>>) = 0 /\ \A i \in 1 .. Len(<<>>) : FALSE
      OBVIOUS
    <3>2. Followed(m, NoObj, <<>>)
      BY <3>1 DEF Followed
    <3> QED
      BY <1>7, <3>1, <3>2 DEF Held
  <2>4. OpenOK(s, o[s])'
    BY <1>4, <1>7, <1>8, <2>1, <2>3 DEF OpenOK
  <2>5. SlotOK(s, o[s])'
    BY <1>7, <1>8, <2>4 DEF SlotOK
  <2>6. Kept(s, o[s])'
    BY <1>7, <1>8, <2>2 DEF Kept
  <2>7. OnDisk(s, o[s])'
    BY <1>7, <1>8 DEF OnDisk, Quiet
  <2> QED
    BY <2>5, <2>6, <2>7 DEF SlotInv
<1>11. \A t \in Slots : SlotInv(t, o[t])'
  <2>1. \A t \in Slots \ {s} : obj'[t] = obj[t] /\ file'[t] = file[t] /\ entry'[t] = entry[t] /\ Agree(fat, fat', o[t])
    BY <1>2, <1>8, AgreeSame
  <2>2. call'.pc # "erase" /\ call'.op # "rename" /\ call'.s = s /\ fs_type' = fs_type
    BY <1>2, <1>9
  <2> QED
    BY <1>2, <1>3, <1>5, <1>10, <2>1, <2>2, SlotsStep
<1>12. Types'
  BY <1>2, <1>5, <1>8, <1>9, TypesStep DEF Types
<1>13. CallOK(o, r)'
  <2>1. F' = f
    BY <1>8, <1>9 DEF F
  <2>2. SeekOK(o[s])'
    BY <1>6, <1>7, <1>9, <2>1 DEF SeekOK, Seeking, Next1
  <2>3. LinkOK(o)' /\ RemoveOK(o, r)' /\ SyncOK'
    BY <1>9 DEF LinkOK, RemoveOK, SyncOK
  <2> QED
    BY <1>3, <1>9, <2>2, <2>3 DEF CallOK
<1>14. Torn => Torn'
  <2>1. \A t \in Slots : (file[t].cut => file'[t].cut) /\ (file[t].modified => file'[t].modified)
    <3>1. ~NoFile.cut /\ ~NoFile.modified
      BY DEF NoFile
    <3> QED
      BY <1>4, <1>8, <3>1
  <2> QED
    BY <1>2, <1>3, <2>1 DEF Torn, ExFat
<1>15. Unstretched
  BY <1>2, OthersUnstretched DEF Next1
<1>16. call'.pc \notin Handing
  BY <1>9 DEF Handing
<1> QED
  BY <1>2, <1>3, <1>5, <1>11, <1>12, <1>13, <1>14, <1>15, <1>16, CalmStep

\* What a sound drive holds of an entry is a chain as FatFs wants it.
LEMMA SoundChain ==
    ASSUME NEW d, Sound(d), d.fat \in [Clusters -> Link], NEW s \in Slots, d.entry[s] \in EntrySet,
           NEW q, q = EntryChain(d.fat, d.entry[s])
    PROVE  /\ q \in Seq(Clusters) /\ Alone(q) /\ Laid(d.fat, d.entry[s], q)
           /\ \A c \in Elems(q) : c \in Clusters /\ IF ExFat THEN d.bitmap[c] ELSE d.fat[c] # 0
<1>1. PICK e, m : e = d.entry[s] /\ m = d.fat
  OBVIOUS
<1>2. /\ Len(q) >= e.size /\ Len(q) <= NClusters /\ Alone(q)
      /\ Elems(q) \subseteq {c \in Clusters : IF ExFat THEN d.bitmap[c] ELSE m[c] # 0}
      /\ q # <<>> /\ ~(ExFat /\ e.stat = 2) => m[q[Len(q)]] = EOC
  BY <1>1, Zenon DEF Sound, Alone
<1>3. /\ e \in EntrySet /\ e.sclust \in Cluster0 /\ e.size \in Nat /\ (e.size = 0 <=> e.sclust = 0)
      /\ (~e.used => e.sclust = 0) /\ (~ExFat => e.stat = 0) /\ e.stat \in {0, 2}
  <2>1. NoEntry.sclust = 0
    BY DEF NoEntry
  <2> QED
    BY <1>1, <2>1 DEF EntrySet
<1>4. q = IF e.sclust = 0 THEN <<>> ELSE IF e.stat = 2 THEN Contig(e.sclust, e.size) ELSE Walk(m, e.sclust)
  BY <1>1, <1>3 DEF EntryChain
<1>5. \A c \in Elems(q) : c \in Clusters /\ IF ExFat THEN d.bitmap[c] ELSE d.fat[c] # 0
  BY <1>1, <1>2
<1>6. CASE e.sclust = 0
  <2>1. q = <<>>
    BY <1>4, <1>6
  <2> QED
    BY <1>1, <1>2, <1>5, <1>6, <2>1 DEF Laid
<1>7. CASE e.sclust # 0 /\ e.stat = 2
  <2>1. PICK a, n : a = e.sclust /\ n = e.size
    OBVIOUS
  <2>2. a \in Nat /\ n \in Nat /\ n # 0 /\ q = Contig(a, n)
    BY <1>3, <1>4, <1>7, <2>1, Nums
  <2>3. Len(q) = n /\ (\A i \in 1 .. n : q[i] = a + i - 1) /\ q = [i \in 1 .. n |-> a + i - 1]
    BY <2>2, ContigSeq DEF Contig
  <2>4. \A i \in 1 .. n : q[i] \in Clusters
    <3>1. \A i \in 1 .. n : q[i] \in Elems(q)
      BY <2>3 DEF Elems
    <3> QED
      BY <1>5, <3>1
  <2>5. q \in Seq(Clusters)
    <3>1. q \in [1 .. n -> Clusters]
      BY <2>3, <2>4
    <3> QED
      BY <2>2, <3>1
  <2>6. 1 \in 1 .. n /\ a + 1 - 1 = a
    BY <2>2
  <2>7. q[1] = a /\ q # <<>>
    BY <2>2, <2>3, <2>6
  <2>8. Laid(m, e, q)
    BY <1>2, <1>7, <2>1, <2>2, <2>7 DEF Laid
  <2> QED
    BY <1>1, <1>2, <1>5, <2>5, <2>8
<1>8. CASE e.sclust # 0 /\ e.stat # 2
  <2>1. e.sclust \in Clusters /\ q = Walk(m, e.sclust)
    BY <1>3, <1>4, <1>8 DEF Cluster0
  <2>2. m \in [Clusters -> 0 .. EOC]
    BY <1>1, Nums
  <2>3. /\ q \in Seq(Clusters) /\ q # <<>> /\ q[1] = e.sclust
        /\ \A i \in 1 .. Len(q) - 1 : m[q[i]] = q[i + 1]
    BY <2>1, <2>2, WalkChain
  <2>4. m[q[Len(q)]] = EOC
    BY <1>2, <1>8, <2>3
  <2>5. Linked(m, q)
    <3> SUFFICES ASSUME NEW i \in 1 .. Len(q) PROVE m[q[i]] = IF i < Len(q) THEN q[i + 1] ELSE EOC
      BY DEF Linked
    <3>1. CASE i < Len(q)
      <4>1. i \in 1 .. Len(q) - 1
        BY <2>3, <3>1
      <4> QED
        BY <2>3, <3>1, <4>1
    <3>2. CASE ~(i < Len(q))
      <4>1. i = Len(q)
        BY <2>3, <3>2
      <4> QED
        BY <2>4, <3>2, <4>1
    <3> QED
      BY <3>1, <3>2
  <2>6. Laid(m, e, q)
    BY <1>2, <1>8, <2>3, <2>5 DEF Laid
  <2> QED
    BY <1>1, <1>2, <1>5, <2>3, <2>6
<1> QED
  BY <1>6, <1>7, <1>8

\* Pull keeps the invariant.
LEMMA StepPull ==
    ASSUME NEW o, NEW r, IInv(o, r), LagInv, Pull PROVE Kept1(o, r)
<1>1. PICK p : p = [s \in Slots |-> EntryChain(disk.fat, disk.entry[s])]
  OBVIOUS
<1>2. Types
  BY DEF IInv
<1>3. /\ Sound(disk) /\ pulls' = pulls + 1 /\ fs_type' = fs_type /\ disk' = disk
      /\ fat' = disk.fat /\ bitmap' = disk.bitmap /\ entry' = disk.entry
      /\ obj' = [s \in Slots |-> NoObj] /\ file' = [s \in Slots |-> NoFile] /\ call' = Idle
  BY DEF Pull, MountFrom
<1>4. disk.fat \in [Clusters -> Link] /\ disk.entry \in [Slots -> EntrySet] /\ disk.bitmap \in [Clusters -> BOOLEAN]
  BY <1>2 DEF Types
<1>5. \A s \in Slots : /\ p[s] \in Seq(Clusters) /\ Alone(p[s]) /\ Laid(disk.fat, disk.entry[s], p[s])
                       /\ \A c \in Elems(p[s]) : c \in Clusters /\ IF ExFat THEN disk.bitmap[c] ELSE disk.fat[c] # 0
  <2> TAKE s \in Slots
  <2>1. disk.entry[s] \in EntrySet /\ p[s] = EntryChain(disk.fat, disk.entry[s])
    BY <1>1, <1>4
  <2> QED
    BY <1>3, <1>4, <2>1, SoundChain
<1>6. p \in [Slots -> Seq(Clusters)]
  BY <1>1, <1>5
<1>7. Owners!Apart(p)
  <2>1. \A s \in Slots : \A t \in Slots \ {s} : Elems(p[s]) \intersect Elems(p[t]) = {}
    BY <1>1, <1>3 DEF Sound
  <2>2. \A s, t \in Slots : s # t => \A i \in DOMAIN p[s], j \in DOMAIN p[t] : p[s][i] # p[t][j]
    BY <2>1 DEF Elems
  <2> QED
    BY <1>5, <2>2 DEF Owners!Apart, Alone
<1>8. \A s \in Slots : \A c \in Elems(p[s]) : InUse(c)'
  <2>1. ExFat' <=> ExFat
    BY <1>3 DEF ExFat
  <2> QED
    BY <1>3, <1>5, <2>1 DEF InUse
<1>9. ChainsOK(p, <<>>)'
  <2>1. <<>> \in Seq(Clusters) /\ Alone(<<>>) /\ Elems(<<>>) = {}
    BY DEF Alone, Elems
  <2> QED
    BY <1>6, <1>7, <1>8, <2>1 DEF ChainsOK
<1>10. \A s \in Slots : SlotInv(s, p[s])'
  <2> TAKE s \in Slots
  <2>1. file'[s] = NoFile /\ ~file'[s].open
    BY <1>3 DEF NoFile
  <2>2. call'.pc = "idle"
    BY <1>3 DEF Idle
  <2>3. Laid(fat', entry'[s], p[s])
    BY <1>3, <1>5
  <2>4. SlotOK(s, p[s])'
    BY <2>1, <2>2, <2>3 DEF SlotOK
  <2>5. Laid(fat', entry'[s], IF entry'[s].sclust = 0 THEN <<>> ELSE p[s])
    BY <2>3 DEF Laid
  <2>6. Kept(s, p[s])'
    BY <2>5 DEF Kept
  <2>7. OnDisk(s, p[s])'
    BY <1>3, <2>1 DEF OnDisk
  <2> QED
    BY <2>4, <2>6, <2>7 DEF SlotInv
<1>11. Types'
  <2>1. NoObj \in ObjSet /\ NoFile \in FileSet /\ Idle \in CallSet
    BY DEF NoObj, NoFile, Idle, ObjSet, FileSet, CallSet, Cluster0, Ops, Pcs
  <2>2. /\ obj' \in [Slots -> ObjSet] /\ file' \in [Slots -> FileSet] /\ call' \in CallSet
    BY <1>3, <2>1
  <2>3. free_clst' \in 0 .. NClusters \union {Unknown} /\ last_clst' \in Clusters \union {Unknown} /\ fsi_flag' \in BOOLEAN
    BY <1>2 DEF Pull, MountFrom, Types
  <2>4. pulls' \in Nat
    BY <1>2, <1>3 DEF Types
  <2>5. DiskMoves
    BY <1>2, <1>3 DEF DiskMoves, DiskStays, InfoOK, Types
  <2>6. entry' \in [Slots -> EntrySet]
    BY <1>3, <1>4
  <2> QED
    BY <1>2, <1>3, <1>4, <2>2, <2>3, <2>4, <2>5, <2>6, TypesStep
<1>12. CallOK(p, <<>>)'
  BY <1>3, IdleCall
<1>13. pulls' # 0
  BY <1>2, <1>3 DEF Types
<1>14. Marks(p, <<>>)' /\ Count'
  BY <1>13 DEF Marks, Count
<1>15. DiskSound'
  BY <1>3, SoundPrimed DEF DiskSound
<1>16. IInv(p, <<>>)'
  BY <1>9, <1>10, <1>11, <1>12, <1>14, <1>15 DEF IInv, SlotInv
<1> QED
  BY <1>3, <1>6, <1>7, <1>16 DEF Kept1, Moves

\* And a step in which nothing happens.
LEMMA StepNone ==
    ASSUME NEW o, NEW r, IInv(o, r), UNCHANGED vars PROVE Kept1(o, r)
<1>1. UNCHANGED <<fs_type, fat, bitmap, entry, win, free_clst, last_clst, fsi_flag, disk, obj, file, call, pulls>>
  BY DEF vars, volume, counts
<1>2. Types'
  BY <1>1 DEF IInv, Types, EntrySet, ExFat
<1>3. SameUse
  BY <1>1, SameUseBy
<1>4. ChainsOK(o, r)'
  BY <1>3, ChainsStay DEF IInv, SameUse
<1>5. \A s \in Slots : SlotInv(s, o[s])'
  <2> TAKE s \in Slots
  <2>1. SlotInv(s, o[s])
    BY SlotHas
  <2> QED
    BY <1>1, <2>1 DEF SlotInv, SlotOK, OpenOK, Removing, Kept, Settled, OnDisk, Quiet, ExFat
<1>6. CallOK(o, r)'
  <2>1. O' = O /\ F' = F /\ (ExFat' <=> ExFat)
    BY <1>1 DEF O, F, ExFat
  <2>2. Remaining(r) => Remaining(r)'
    <3>1. ASSUME NEW c PROVE GetFat(O, c)' = GetFat(O, c)
      BY <1>1, <2>1 DEF GetFat, ExFat
    <3> QED
      BY <3>1 DEF Remaining
  <2>3. \A q : SeekOK(q) => SeekOK(q)'
    BY <1>1, <2>1 DEF SeekOK
  <2>4. LinkOK(o)'
    BY <1>1, <1>3, <2>1 DEF IInv, CallOK, LinkOK, SameUse
  <2>5. RemoveOK(o, r)'
    BY <1>1, <2>1, <2>2 DEF IInv, CallOK, RemoveOK
  <2>6. SyncOK'
    BY <1>1, <2>1 DEF IInv, CallOK, SyncOK
  <2> QED
    BY <1>1, <2>3, <2>4, <2>5, <2>6 DEF IInv, CallOK
<1>7. Limbo(r)' = Limbo(r) /\ Pending' = Pending
  BY <1>1 DEF Limbo, Pending, ExFat
<1>8. Marks(o, r)'
  BY <1>1, <1>3, <1>7, MarksStay DEF IInv
<1>9. Count'
  BY <1>1, <1>3, <1>7, CountStays DEF IInv
<1>10. DiskSound'
  <2>1. Sound(disk) => Sound(disk)'
    BY <1>1, SoundPrimed
  <2>2. Torn => Torn'
    BY <1>1 DEF Torn, ExFat
  <2> QED
    BY <2>1, <2>2 DEF IInv, DiskSound
<1> QED
  BY <1>1, <1>2, <1>4, <1>5, <1>6, <1>8, <1>9, <1>10 DEF IInv, SlotInv, Kept1, Moves

\* Every step of every call, and every pull.
LEMMA StepKept ==
    ASSUME NEW o, NEW r, IInv(o, r), LagInv, [Next]_vars PROVE Kept1(o, r)
<1>1. CASE \E s \in Slots : Open(s) \/ Close(s) \/ Unlink(s)
  BY <1>1, StepOpen, StepClose, StepUnlink
<1>2. CASE \E s \in Slots, n \in Sizes : Create(s, n) \/ Seek(s, n) \/ SetSize(s, n)
  BY <1>2, StepCreate, StepSeek
<1>3. CASE \E s, t \in Slots : Rename(s, t)
  BY <1>3, StepRename
<1>4. CASE GetFree
  BY <1>4, StepGetFree
<1>5. CASE FillForSeek \/ SeekStart \/ Follow \/ Full \/ Take
  BY <1>5, StepFillForSeek, StepSeekStart, StepFollow, StepFull, StepTake
<1>6. CASE LinkFat \/ LinkExFat \/ FillAndLink
  BY <1>6, StepLinkFat, StepLinkExFat, StepFillAndLink
<1>7. CASE Seeked
  BY <1>7, StepSeekedAt, StepSeekedCut
<1>8. CASE Cut \/ Free \/ Freed
  BY <1>8, StepCut, StepFree, StepFreed
<1>9. CASE FillFirst \/ FillForSync \/ WriteEntry \/ RenameErase \/ Sync
  BY <1>9, StepFillFirst, StepFillForSync, StepWriteEntry, StepRenameErase, StepSync
<1>10. CASE Pull
  BY <1>10, StepPull
<1>11. CASE UNCHANGED vars
  BY <1>11, StepNone
<1> QED
  BY <1>1, <1>2, <1>3, <1>4, <1>5, <1>6, <1>7, <1>8, <1>9, <1>10, <1>11 DEF Next, CallStep

\* A new volume: no chains, and every cluster is free.
LEMMA NewVolume ==
    ASSUME Init, NEW o, o = [s \in Slots |-> <<>>] PROVE IInv(o, <<>>)
<1>1. Types
  <2>1. /\ fat \in [Clusters -> Link] /\ bitmap \in [Clusters -> BOOLEAN] /\ entry \in [Slots -> EntrySet]
    BY DEF Init, Link, EntrySet, NoEntry, Cluster0
  <2>2. /\ obj \in [Slots -> ObjSet] /\ file \in [Slots -> FileSet] /\ call \in CallSet
    BY DEF Init, NoObj, NoFile, Idle, ObjSet, FileSet, CallSet, Cluster0, Ops, Pcs
  <2>3. /\ disk.fat = fat /\ disk.bitmap = bitmap /\ disk.entry = entry /\ disk.free = NClusters /\ disk.last = 2
    BY DEF Init
  <2>4. NClusters \in 0 .. NClusters /\ 2 \in Clusters
    BY Nums
  <2>5. /\ fs_type \in FsTypes /\ free_clst \in {NClusters, Unknown} /\ last_clst \in {2, Unknown} /\ fsi_flag \in BOOLEAN
        /\ pulls \in Nat
    BY DEF Init
  <2> QED
    BY <2>1, <2>2, <2>3, <2>4, <2>5 DEF Types
<1>2. \A c \in Clusters : ~InUse(c)
  BY DEF Init, InUse
<1>3. ChainsOK(o, <<>>)
  <2>1. <<>> \in Seq(Clusters) /\ Elems(<<>>) = {} /\ DOMAIN <<>> = {} /\ \A s \in Slots : o[s] = <<>>
    BY DEF Elems
  <2>2. o \in [Slots -> Seq(Clusters)]
    BY <2>1
  <2> QED
    BY <2>1, <2>2 DEF ChainsOK, Owners!Apart, Alone
<1>4. call = Idle /\ call.pc = "idle" /\ call.op = "none" /\ call.ncl = 0
  BY DEF Init, Idle
<1>5. ASSUME NEW s \in Slots PROVE /\ o[s] = <<>> /\ file[s] = NoFile /\ ~file[s].open /\ entry[s] = NoEntry
                                   /\ entry[s].sclust = 0 /\ ~entry[s].used /\ Laid(fat, entry[s], <<>>)
  <2>1. o[s] = <<>> /\ file[s] = NoFile /\ ~file[s].open /\ entry[s] = NoEntry /\ entry[s].sclust = 0 /\ ~entry[s].used
    BY DEF Init, NoFile, NoEntry
  <2> QED
    BY <2>1 DEF Laid
<1>6. \A s \in Slots : SlotOK(s, o[s]) /\ Kept(s, o[s]) /\ OnDisk(s, o[s])
  <2> TAKE s \in Slots
  <2>1. SlotOK(s, o[s])
    BY <1>4, <1>5 DEF SlotOK
  <2>2. Kept(s, o[s])
    BY <1>5 DEF Kept
  <2>3. OnDisk(s, o[s])
    BY <1>5 DEF OnDisk, Quiet
  <2> QED
    BY <2>1, <2>2, <2>3
<1>7. CallOK(o, <<>>)
  BY <1>4 DEF CallOK, LinkOK, RemoveOK, SyncOK
<1>8. Marks(o, <<>>)
  BY <1>2 DEF Marks
<1>9. Count
  <2>1. NFree = NClusters
    <3>1. {c \in Clusters : ~InUse(c)} = Clusters
      BY <1>2
    <3>2. Cardinality(Clusters) = NClusters
      BY Nums, FS_Interval
    <3> QED
      BY <3>1, <3>2 DEF NFree
  <2>2. Pending = 0
    BY <1>4 DEF Pending
  <2>3. free_clst = NClusters \/ ~(free_clst <= NClusters)
    BY Nums DEF Init
  <2> QED
    BY <2>1, <2>2, <2>3, Nums DEF Count
<1>10. DiskSound
  <2>1. LaidOut(o)
    BY <1>5 DEF LaidOut
  <2>2. disk.fat = fat /\ disk.bitmap = bitmap /\ disk.entry = entry
    BY DEF Init
  <2>3. fat \in [Clusters -> Link] /\ entry \in [Slots -> EntrySet]
    BY <1>1 DEF Types
  <2> QED
    BY <1>3, <2>1, <2>2, <2>3, LaidSound DEF DiskSound
<1> QED
  BY <1>1, <1>3, <1>6, <1>7, <1>8, <1>9, <1>10 DEF IInv

\* The bounds of the counts in an FFOBJID, which outlive what they count.
SmallObj(b) == b.n_cont <= NClusters /\ b.n_frag <= NClusters
Small == \A s \in Slots : SmallObj(obj[s])

\* An open file has no more fragment entries to write than clusters,
LEMMA SmallOpen ==
    ASSUME NEW o, NEW r, IInv(o, r), NEW s \in Slots, file[s].open PROVE obj[s].n_frag <= NClusters
<1>1. o[s] \in Seq(Clusters) /\ Alone(o[s]) /\ SlotInv(s, o[s]) /\ obj[s] \in ObjSet
  BY SlotHas
<1>2. Len(o[s]) \in 0 .. NClusters /\ NClusters \in Nat
  BY <1>1, ChainLen, Nums
<1>3. obj[s].n_frag = 0 \/ obj[s].n_frag <= Len(o[s])
  BY <1>1 DEF SlotInv, SlotOK, OpenOK, Held, Shrinking
<1>4. obj[s].n_frag \in Nat /\ Len(o[s]) \in Nat
  BY <1>1 DEF ObjSet
<1> QED
  BY <1>2, <1>3, <1>4
\* which every state of the invariant knows.
SmallKnown == \A o, r : IInv(o, r) => \A s \in Slots : file[s].open => obj[s].n_frag <= NClusters

\* So it is a fact of every behaviour.
LEMMA SmallHolds == SmallKnown
  BY SmallOpen DEF SmallKnown

OpenSmall == \A s \in Slots : file[s].open => obj[s].n_frag <= NClusters

\* A step that writes one FFOBJID with small counts, or none, leaves small counts.
LEMMA SmallSet ==
    ASSUME Small, Types, OpenSmall', NEW s \in Slots, NEW b, obj' = [obj EXCEPT ![s] = b], b.n_cont <= NClusters,
           file'[s].open \/ b.n_frag <= NClusters
    PROVE  Small'
<1>1. obj'[s] = b /\ \A t \in Slots : t # s => obj'[t] = obj[t]
  BY DEF Types
<1> QED
  BY <1>1 DEF Small, SmallObj, OpenSmall

\* Or that writes none.
LEMMA SmallSame == ASSUME Small, obj' = obj PROVE Small'
  BY DEF Small

\* An FFOBJID as f_open leaves it has no counts.
LEMMA SmallNone ==
    ASSUME NEW x, NEW y, NEW z, NEW b, b = [NoObj EXCEPT !.sclust = x, !.objsize = y, !.stat = z] PROVE SmallObj(b) /\ SmallObj(NoObj)
  BY Nums DEF NoObj, SmallObj

\* What the calls make of the FFOBJID they work on.
LEMMA SmallCall ==
    ASSUME NEW o, NEW r, IInv(o, r), Small, OpenSmall', call.pc # "idle",
           NEW b, obj' = [obj EXCEPT ![call.s] = b], b.n_cont <= NClusters, file'[call.s].open \/ b.n_frag <= NClusters
    PROVE  Small'
  BY Caller, SmallSet DEF IInv

\* The FFOBJID of a call is small.
LEMMA SmallOwn ==
    ASSUME NEW o, NEW r, IInv(o, r), Small, call.pc # "idle"
    PROVE  O \in ObjSet /\ F \in FileSet /\ SmallObj(O) /\ O.n_cont \in Nat /\ O.n_frag \in Nat /\ call.s \in Slots
<1>1. call.s \in Slots
  BY Caller
<1>2. O \in ObjSet /\ F \in FileSet
  BY <1>1 DEF IInv, Types, O, F
<1> QED
  BY <1>1, <1>2 DEF Small, SmallObj, ObjSet, O
RawObj == [sclust : Cluster0, objsize : Nat, stat : {0, 2, 3}, n_cont : Int, n_frag : Nat]

\* It stays so when the chain grows.
LEMMA SmallGot ==
    ASSUME NEW o, NEW r, IInv(o, r), Small, OpenSmall', call.pc # "idle", NEW b \in RawObj, GotCluster(b), b.n_cont <= NClusters,
           F.open \/ b.n_frag <= NClusters
    PROVE  Small'
<1>1. /\ obj' = [obj EXCEPT ![call.s] = IF b.sclust = 0 THEN [b EXCEPT !.sclust = call.ncl] ELSE b]
      /\ file' = [file EXCEPT ![call.s] = [F EXCEPT !.clust = call.ncl, !.fptr = @ + 1]]
  BY DEF GotCluster, SetObj, SetFile
<1>2. PICK b2 : b2 = IF b.sclust = 0 THEN [b EXCEPT !.sclust = call.ncl] ELSE b
  OBVIOUS
<1>3. b2.n_cont = b.n_cont /\ b2.n_frag = b.n_frag
  BY <1>2 DEF RawObj
<1>4. F \in FileSet /\ call.s \in Slots
  BY SmallOwn
<1>5. file'[call.s].open <=> F.open
  BY <1>1, <1>4 DEF FileSet, IInv, Types
<1> QED
  BY <1>1, <1>2, <1>3, <1>5, SmallCall

\* Every step keeps the counts small.
LEMMA SmallStep ==
    ASSUME NEW o, NEW r, IInv(o, r), Small, OpenSmall', [Next]_vars PROVE Small'
<1>0. Types
  BY DEF IInv
<1>1. ASSUME NEW s \in Slots, Open(s) PROVE Small'
  <2>1. PICK b : /\ b = [NoObj EXCEPT !.sclust = entry[s].sclust, !.objsize = entry[s].size, !.stat = entry[s].stat]
                 /\ obj' = [obj EXCEPT ![s] = b]
    BY <1>1 DEF Open
  <2> QED
    BY <1>0, <2>1, SmallNone, SmallSet DEF SmallObj
<1>2. ASSUME NEW s \in Slots, Close(s) PROVE Small'
  BY <1>2, SmallSame DEF Close
<1>3. ASSUME NEW s \in Slots, Unlink(s) PROVE Small'
  <2>1. PICK b : /\ b = [NoObj EXCEPT !.sclust = entry[s].sclust, !.objsize = entry[s].size, !.stat = entry[s].stat]
                 /\ obj' = [obj EXCEPT ![s] = b]
    BY <1>3 DEF Unlink
  <2> QED
    BY <1>0, <2>1, SmallNone, SmallSet DEF SmallObj
<1>4. ASSUME NEW s \in Slots, NEW n \in Sizes, Create(s, n) PROVE Small'
  <2>1. obj' = [obj EXCEPT ![s] = NoObj]
    BY <1>4 DEF Create
  <2> QED
    BY <1>0, <2>1, SmallNone, SmallSet DEF SmallObj
<1>5. ASSUME NEW s \in Slots, NEW n \in Sizes, Seek(s, n) \/ SetSize(s, n) PROVE Small'
  BY <1>5, SmallSame DEF Seek, SetSize
<1>6. ASSUME NEW s \in Slots, NEW t \in Slots, Rename(s, t) PROVE Small'
  BY <1>6, SmallSame DEF Rename
<1>7. CASE GetFree \/ SeekStart \/ Full \/ Take \/ Cut \/ Free \/ WriteEntry \/ RenameErase \/ UNCHANGED vars
  BY <1>7, SmallSame DEF GetFree, SeekStart, Full, Take, Cut, Free, WriteEntry, RenameErase, vars
<1>8. CASE FillForSeek \/ FillForSync
  <2>1. call.pc # "idle" /\ obj' = [obj EXCEPT ![call.s] = [O EXCEPT !.n_frag = @ - 1]]
    BY <1>8 DEF FillForSeek, FillForSync, SetObj
  <2>2. O \in ObjSet /\ SmallObj(O) /\ O.n_frag \in Nat
    BY <2>1, SmallOwn
  <2>3. PICK b : b = [O EXCEPT !.n_frag = @ - 1]
    OBVIOUS
  <2>4. b.n_cont <= NClusters /\ b.n_frag <= NClusters
    BY <2>2, <2>3, Nums DEF ObjSet, SmallObj
  <2> QED
    BY <2>1, <2>3, <2>4, SmallCall
<1>9. CASE Follow
  <2>1. call.pc # "idle"
    BY <1>9 DEF Follow
  <2>2. O \in ObjSet /\ SmallObj(O)
    BY <2>1, SmallOwn
  <2>3. PICK b : b = Grown(O, F.fptr)
    OBVIOUS
  <2>4. b.n_cont = O.n_cont /\ b.n_frag = O.n_frag
    BY <2>2, <2>3 DEF Grown, ObjSet
  <2>5. obj' = obj \/ obj' = [obj EXCEPT ![call.s] = b]
    BY <1>9, <2>3 DEF Follow, SetObj
  <2> QED
    BY <2>1, <2>2, <2>4, <2>5, SmallCall, SmallSame DEF SmallObj
<1>10. CASE LinkFat
  <2>1. call.pc # "idle" /\ GotCluster(O)
    BY <1>10 DEF LinkFat
  <2>2. O \in RawObj /\ SmallObj(O)
    BY <2>1, SmallOwn DEF ObjSet, RawObj
  <2> QED
    BY <2>1, <2>2, SmallGot DEF SmallObj
<1>11. CASE LinkExFat
  <2>1. call.pc = "link" /\ call.pc # "idle" /\ call.pc \in {"link", "fill_link"}
    BY <1>11 DEF LinkExFat
  <2>2. PICK s, a, n, v, b : s = call.s /\ a = O.sclust /\ n = F.clust /\ v = n - a /\ b = Fragmented(O)
    OBVIOUS
  <2>3. O \in ObjSet /\ F \in FileSet /\ SmallObj(O) /\ O.n_cont \in Nat /\ O.n_frag \in Nat /\ s \in Slots
    BY <2>1, <2>2, SmallOwn
  <2>4. F.open /\ (n = 0 <=> a = 0) /\ F = file[s]
    BY <2>1, <2>2, LinkHas
  <2>5. n \in Cluster0 /\ a \in Cluster0 /\ n \in Nat /\ a \in Nat
    BY <2>2, <2>3, Nums DEF ObjSet, FileSet
  <2>6. v \in Int /\ v <= NClusters
    <3>1. n = 0 \/ (n \in Clusters /\ a \in Clusters)
      BY <2>4, <2>5 DEF Cluster0
    <3> QED
      BY <2>2, <2>4, <2>5, <3>1, Nums
  <2>7. b = O \/ b = [O EXCEPT !.n_cont = v, !.stat = 3]
    BY <2>2 DEF Fragmented
  <2>8. b \in RawObj /\ b.n_cont <= NClusters /\ b.n_cont \in Int /\ b.n_frag = O.n_frag
    <3>1. CASE b = O
      BY <2>3, <3>1 DEF ObjSet, RawObj, SmallObj
    <3>2. CASE b = [O EXCEPT !.n_cont = v, !.stat = 3]
      BY <2>3, <2>6, <3>2 DEF ObjSet, RawObj
    <3> QED
      BY <2>7, <3>1, <3>2
  <2>9. CASE F.clust = 0
    <3>1. PICK b2 : b2 = [b EXCEPT !.stat = 2]
      OBVIOUS
    <3>2. b2 \in RawObj /\ b2.n_cont <= NClusters
      BY <2>8, <3>1 DEF RawObj
    <3>3. GotCluster(b2)
      BY <1>11, <2>2, <2>9, <3>1 DEF LinkExFat
    <3> QED
      BY <2>1, <2>4, <3>2, <3>3, SmallGot
  <2>10. CASE F.clust # 0 /\ b.stat = 2
    <3>1. GotCluster(b)
      BY <1>11, <2>2, <2>10 DEF LinkExFat
    <3> QED
      BY <2>1, <2>4, <2>8, <3>1, SmallGot
  <2>11. CASE F.clust # 0 /\ b.stat # 2 /\ call.ncl = F.clust + 1
    <3>1. PICK k, b2 : k = (IF b.n_frag = 0 THEN 2 ELSE b.n_frag + 1) /\ b2 = [b EXCEPT !.n_frag = k]
      OBVIOUS
    <3>2. k \in Nat
      BY <2>3, <2>8, <3>1
    <3>3. b2 \in RawObj /\ b2.n_cont <= NClusters
      BY <2>8, <3>1, <3>2 DEF RawObj
    <3>4. GotCluster(b2)
      BY <1>11, <2>2, <2>11, <3>1 DEF LinkExFat
    <3> QED
      BY <2>1, <2>4, <3>3, <3>4, SmallGot
  <2>12. CASE F.clust # 0 /\ b.stat # 2 /\ call.ncl # F.clust + 1
    <3>1. PICK k, b2 : k = (IF b.n_frag = 0 THEN 1 ELSE b.n_frag) /\ b2 = [b EXCEPT !.n_frag = k]
      OBVIOUS
    <3>2. b2.n_cont <= NClusters
      BY <2>8, <3>1 DEF RawObj
    <3>3. obj' = [obj EXCEPT ![call.s] = b2] /\ file' = file
      BY <1>11, <2>2, <2>12, <3>1 DEF LinkExFat, SetObj
    <3>4. file'[call.s].open
      BY <2>2, <2>4, <3>3
    <3> QED
      BY <2>1, <3>2, <3>3, <3>4, SmallCall
  <2> QED
    BY <2>9, <2>10, <2>11, <2>12
<1>12. CASE FillAndLink
  <2>1. call.pc # "idle" /\ call.pc = "fill_link"
    BY <1>12 DEF FillAndLink
  <2>2. O \in ObjSet /\ SmallObj(O) /\ O.n_frag \in Nat
    BY <2>1, SmallOwn
  <2>3. CASE O.n_frag > 1
    <3>1. obj' = [obj EXCEPT ![call.s] = [O EXCEPT !.n_frag = @ - 1]]
      BY <1>12, <2>3 DEF FillAndLink, SetObj
    <3>2. PICK b : b = [O EXCEPT !.n_frag = @ - 1]
      OBVIOUS
    <3>3. b.n_cont <= NClusters /\ b.n_frag <= NClusters
      BY <2>2, <3>2, Nums DEF ObjSet, SmallObj
    <3> QED
      BY <2>1, <3>1, <3>2, <3>3, SmallCall
  <2>4. CASE ~(O.n_frag > 1)
    <3>1. PICK b : b = [O EXCEPT !.n_frag = 1]
      OBVIOUS
    <3>2. GotCluster(b)
      BY <1>12, <2>4, <3>1 DEF FillAndLink
    <3>3. b \in RawObj /\ b.n_cont <= NClusters /\ b.n_frag <= NClusters
      BY <2>2, <3>1, Nums, SMTT(40) DEF ObjSet, RawObj, SmallObj
    <3> QED
      BY <2>1, <3>2, <3>3, SmallGot
  <2> QED
    BY <2>3, <2>4
<1>13. CASE Seeked
  <2>1. call.pc # "idle"
    BY <1>13 DEF Seeked
  <2>2. O \in ObjSet /\ SmallObj(O)
    BY <2>1, SmallOwn
  <2>3. PICK b1, b2 : b1 = Grown(O, F.fptr) /\ b2 = Truncated(O, F.fptr)
    OBVIOUS
  <2>4. b1.n_cont = O.n_cont /\ b1.n_frag = O.n_frag /\ b2.n_cont = O.n_cont /\ b2.n_frag = O.n_frag
    BY <2>2, <2>3 DEF Grown, Truncated, ObjSet
  <2>5. obj' = obj \/ obj' = [obj EXCEPT ![call.s] = b1] \/ obj' = [obj EXCEPT ![call.s] = b2]
    <3>1. CASE call.op \in {"seek", "create"}
      BY <1>13, <2>3, <3>1 DEF Seeked, SetObj
    <3>2. CASE call.op = "truncate" /\ F.fptr = 0
      BY <1>13, <3>2 DEF Seeked
    <3>3. CASE ~(call.op \in {"seek", "create"}) /\ ~(call.op = "truncate" /\ F.fptr = 0)
      BY <1>13, <2>3, <3>3 DEF Seeked, SetObj
    <3> QED
      BY <3>1, <3>2, <3>3
  <2> QED
    BY <2>1, <2>2, <2>4, <2>5, SmallCall, SmallSame DEF SmallObj
<1>14. CASE Freed
  <2>1. call.pc # "idle"
    BY <1>14 DEF Freed
  <2>2. O \in ObjSet /\ SmallObj(O)
    BY <2>1, SmallOwn
  <2>3. PICK x, b1, b2 : /\ x = (IF ExFat THEN StatusAfter(O, call.pclst) ELSE O.stat)
                         /\ b1 = [O EXCEPT !.stat = x] /\ b2 = Truncated(b1, F.fptr)
    OBVIOUS
  <2>4. b2.n_cont = O.n_cont /\ b2.n_frag = O.n_frag
    <3>1. PICK y : y = IF F.fptr = 0 THEN 0 ELSE O.sclust
      OBVIOUS
    <3>2. b1.sclust = O.sclust
      BY <2>2, <2>3 DEF ObjSet
    <3>3. b2 = [b1 EXCEPT !.objsize = F.fptr, !.sclust = y]
      BY <2>3, <3>1, <3>2 DEF Truncated
    <3> QED
      BY <2>2, <2>3, <3>3 DEF ObjSet
  <2>5. obj' = [obj EXCEPT ![call.s] = NoObj] \/ obj' = [obj EXCEPT ![call.s] = b2]
    BY <1>14, <2>3 DEF Freed, SetObj
  <2>6. SmallObj(NoObj)
    BY Nums DEF NoObj, SmallObj
  <2> QED
    BY <2>1, <2>2, <2>4, <2>5, <2>6, SmallCall DEF SmallObj
<1>15. CASE FillFirst
  <2>1. call.pc # "idle"
    BY <1>15 DEF FillFirst
  <2>2. O \in ObjSet /\ SmallObj(O)
    BY <2>1, SmallOwn
  <2>3. PICK b : b = [O EXCEPT !.stat = 0]
    OBVIOUS
  <2>4. b.n_cont = O.n_cont /\ b.n_frag = O.n_frag
    BY <2>2, <2>3 DEF ObjSet
  <2>5. obj' = obj \/ obj' = [obj EXCEPT ![call.s] = b]
    BY <1>15, <2>3 DEF FillFirst, SetObj
  <2> QED
    BY <2>1, <2>2, <2>4, <2>5, SmallCall, SmallSame DEF SmallObj
<1>16. CASE Sync
  <2>1. call.pc # "idle" /\ (obj' = obj \/ obj' = [obj EXCEPT ![call.s] = NoObj])
    BY <1>16 DEF Sync
  <2>2. SmallObj(NoObj)
    BY Nums DEF NoObj, SmallObj
  <2> QED
    BY <2>1, <2>2, SmallCall, SmallSame DEF SmallObj
<1>17. CASE Pull
  <2>1. obj' = [s \in Slots |-> NoObj]
    BY <1>17 DEF Pull, MountFrom
  <2>2. SmallObj(NoObj)
    BY Nums DEF NoObj, SmallObj
  <2>3. \A s \in Slots : obj'[s] = NoObj
    BY <2>1
  <2> QED
    BY <2>2, <2>3 DEF Small, SmallObj
<1> QED
  BY <1>1, <1>2, <1>3, <1>4, <1>5, <1>6, <1>7, <1>8, <1>9, <1>10, <1>11, <1>12, <1>13, <1>14, <1>15, <1>16, <1>17
     DEF Next, CallStep

\* The inductive invariant: some chains and some rest of a chain fit what FatFs sees.
AllocInv == (\E o, r : IInv(o, r)) /\ LagInv /\ Small

\* A new volume satisfies it,
LEMMA AllocInit == Init => AllocInv
<1> SUFFICES ASSUME Init PROVE AllocInv
  OBVIOUS
<1>1. IInv([s \in Slots |-> <<>>], <<>>)
  BY NewVolume
<1>2. Small
  <2>1. \A s \in Slots : obj[s] = NoObj
    BY DEF Init
  <2>2. SmallObj(NoObj)
    BY Nums DEF NoObj, SmallObj
  <2> QED
    BY <2>1, <2>2 DEF Small
<1> QED
  BY <1>1, <1>2, LagInit DEF AllocInv

\* and every step keeps it and moves the chains as ClusterOwners allows.
LEMMA AllocStep ==
    ASSUME AllocInv, SmallKnown', [Next]_vars
    PROVE  /\ AllocInv'
           /\ \E o, r, p, r2 : IInv(o, r) /\ IInv(p, r2)' /\ Moves(o, p)
<1>1. PICK o, r : IInv(o, r)
  BY DEF AllocInv
<1>2. LagInv /\ Small /\ LagInv'
  BY LagStep DEF AllocInv
<1>3. PICK p, r2 : IInv(p, r2)' /\ Moves(o, p)
  BY <1>1, <1>2, StepKept DEF Kept1
<1>4. OpenSmall'
  BY <1>3 DEF SmallKnown, OpenSmall
<1>5. Small'
  BY <1>1, <1>2, <1>4, SmallStep
<1> QED
  BY <1>1, <1>2, <1>3, <1>5 DEF AllocInv

\* The inductive invariant holds at every step of every call, whatever is pulled and when: FAT,
\* bitmap, FSInfo, directory, open files and drive agree with one assignment of clusters to files.
THEOREM AllocInvariant == Spec => []AllocInv
<1>1. AllocInv /\ SmallKnown' /\ [Next]_vars => AllocInv'
  BY AllocStep
<1> QED
  BY <1>1, AllocInit, SmallHolds, PTL DEF Spec

\* At every step every cluster of every chain is marked in use and, until a drive is pulled and
\* when no call runs, every marked cluster is in a chain; chains are as long as their files, and
\* create_chain, remove_chain, f_lseek and f_truncate never meet an FR_INT_ERR.
THEOREM MarksExact == Spec => []AllocationExact
<1>1. AllocInv => AllocationExact
  <2> SUFFICES ASSUME AllocInv PROVE AllocationExact
    OBVIOUS
  <2>1. PICK o, r : IInv(o, r)
    BY DEF AllocInv
  <2>2. Chain = o /\ Types
    BY <2>1, ChainIs DEF IInv
  <2>3. TypeOK
    <3>1. \A s \in Slots : obj[s].n_frag \in 0 .. NClusters /\ obj[s].n_cont \in 0 .. NClusters
      <4> TAKE s \in Slots
      <4>1. obj[s].n_frag \in Nat /\ obj[s].n_cont \in Nat
        BY <2>2 DEF Types, ObjSet
      <4>2. obj[s].n_frag <= NClusters /\ obj[s].n_cont <= NClusters
        BY DEF AllocInv, Small, SmallObj
      <4> QED
        BY <4>1, <4>2, Nums
    <3> QED
      BY <2>2, <3>1 DEF Types, TypeOK, Link
  <2>4. NoInternalError
    BY <2>2 DEF Types, CallSet, NoInternalError
  <2>5. OwnedInUse
    <3> SUFFICES ASSUME NEW s \in Slots
                 PROVE  /\ \A c \in Elems(o[s]) : InUse(c)
                        /\ file[s].open /\ call.pc = "idle" => Len(o[s]) >= obj[s].objsize
      BY <2>2 DEF OwnedInUse
    <3>1. \A c \in Elems(o[s]) : InUse(c)
      BY <2>1 DEF IInv, ChainsOK
    <3>2. ASSUME file[s].open, call.pc = "idle" PROVE Len(o[s]) >= obj[s].objsize
      <4>1. ~Removing(s)
        BY <3>2 DEF Removing
      <4>2. o[s] \in Seq(Clusters) /\ SlotInv(s, o[s]) /\ obj[s] \in ObjSet
        BY <2>1, SlotHas
      <4>3. obj[s].objsize <= Len(o[s])
        BY <3>2, <4>1, <4>2 DEF SlotInv, SlotOK, OpenOK, Held
      <4> QED
        BY <4>2, <4>3 DEF ObjSet
    <3> QED
      BY <3>1, <3>2
  <2>6. NothingLost
    <3> SUFFICES ASSUME pulls = 0, call.pc = "idle", NEW c \in Clusters, InUse(c) PROVE \E s \in Slots : c \in Elems(o[s])
      BY <2>2 DEF NothingLost
    <3>1. Limbo(r) = {}
      BY DEF Limbo
    <3> QED
      BY <2>1, <3>1 DEF IInv, Marks
  <2> QED
    BY <2>3, <2>4, <2>5, <2>6 DEF AllocationExact
<1> QED
  BY <1>1, AllocInvariant, PTL

\* What FSInfo counts as free is free, when no call runs: no path of create_chain and
\* remove_chain forgets to count, and none counts twice.
THEOREM FreeCountExact == Spec => []FreeCountRight
<1>1. AllocInv => FreeCountRight
  <2> SUFFICES ASSUME AllocInv, pulls = 0, call.pc = "idle", free_clst <= NClusters PROVE free_clst = NFree
    BY DEF FreeCountRight
  <2>1. Pending = 0
    BY DEF Pending
  <2>2. free_clst = NFree + Pending
    BY DEF AllocInv, IInv, Count
  <2> QED
    BY <2>1, <2>2, FreeTyped
<1> QED
  BY <1>1, AllocInvariant, PTL

\* A chain that is laid on the FAT is the same chain on any FAT that agrees along it.
LEMMA LaidTwice ==
    ASSUME NEW m \in [Clusters -> Link], NEW n \in [Clusters -> Link], NEW e \in EntrySet, NEW q \in Seq(Clusters), Alone(q),
           Laid(m, e, q), e.stat # 2 => Agree(m, n, q)
    PROVE  EntryChain(n, e) = EntryChain(m, e)
<1>1. EntryChain(m, e) = q
  BY LaidWalk
<1>2. Laid(n, e, q)
  <2>1. CASE e.stat = 2
    BY <2>1 DEF Laid
  <2>2. CASE e.stat # 2
    BY <2>2, LaidSame
  <2> QED
    BY <2>1, <2>2
<1> QED
  BY <1>1, <1>2, LaidWalk

\* A file without unwritten changes that no call is about is on the drive as FatFs sees it,
\* its entry and its whole chain, though nothing but moves of the window and sync_fs writes.
THEOREM ClosedOnDisk == Spec => []ClosedFilesOnDisk
<1>1. AllocInv => ClosedFilesOnDisk
  <2> SUFFICES ASSUME AllocInv PROVE ClosedFilesOnDisk
    OBVIOUS
  <2>1. DiskLagsByWindow
    BY DEF AllocInv, LagInv
  <2>2. PICK o, r : IInv(o, r)
    BY DEF AllocInv
  <2>3. ASSUME NEW s \in Slots, entry[s].used, ~Touched(s)
        PROVE  disk.entry[s] = entry[s] /\ EntryChain(disk.fat, entry[s]) = EntryChain(fat, entry[s])
    <3>1. PICK e, q : e = entry[s] /\ q = IF e.sclust = 0 THEN <<>> ELSE o[s]
      OBVIOUS
    <3>2. ~file[s].modified /\ (call.pc = "idle" \/ s \notin {call.s, call.to})
      BY <2>3 DEF Touched
    <3>3. /\ o[s] \in Seq(Clusters) /\ Alone(o[s]) /\ SlotInv(s, o[s]) /\ e \in EntrySet /\ Types
      BY <2>2, <3>1, SlotHas DEF IInv
    <3>4. call.op = "rename" => s \notin {call.s, call.to}
      <4>1. call.pc = "idle" => call.op = "none"
        BY <2>2, IdleIs
      <4> QED
        BY <3>2, <4>1
    <3>5. file[s].open => ~file[s].cut /\ file[s].fptr <= obj[s].objsize
      <4>1. ~Removing(s) /\ ~(call.s = s /\ call.pc \in Next1)
        BY <3>2 DEF Removing, Next1
      <4> QED
        BY <3>2, <3>3, <4>1 DEF SlotInv, SlotOK, OpenOK
    <3>6. Quiet(s) /\ Settled(s) /\ ~(call.pc = "erase" /\ call.to = s)
      BY <2>3, <3>2, <3>4, <3>5 DEF Quiet, Settled
    <3>7. Laid(fat, e, q)
      BY <3>1, <3>3, <3>6 DEF SlotInv, Kept
    <3>8. disk.entry[s] = e /\ (e.stat # 2 => \A i \in 1 .. Len(o[s]) : disk.fat[o[s][i]] = fat[o[s][i]])
      BY <3>1, <3>3, <3>6 DEF SlotInv, OnDisk
    <3>9. q \in Seq(Clusters) /\ Alone(q) /\ (e.stat # 2 => Agree(fat, disk.fat, q))
      <4>1. CASE e.sclust = 0
        <5>1. q = <<>>
          BY <3>1, <4>1
        <5> QED
          BY <5>1 DEF Alone, Agree
      <4>2. CASE e.sclust # 0
        BY <3>1, <3>3, <3>8, <4>2 DEF Agree
      <4> QED
        BY <4>1, <4>2
    <3>10. fat \in [Clusters -> Link] /\ disk.fat \in [Clusters -> Link]
      BY <3>3 DEF Types
    <3>11. EntryChain(disk.fat, e) = EntryChain(fat, e)
      BY <3>3, <3>7, <3>9, <3>10, LaidTwice
    <3> QED
      BY <3>1, <3>8, <3>11
  <2> QED
    BY <2>1, <2>3 DEF ClosedFilesOnDisk
<1> QED
  BY <1>1, AllocInvariant, PTL

\* A drive pulled at any step is sound but for clusters no entry leads to, unless a rename was
\* between its two writes or a file was truncated or (on exFAT) written and not synced.
THEOREM PullSafe == Spec => []PullLosesClustersOnly
<1>1. AllocInv => PullLosesClustersOnly
  BY DEF AllocInv, IInv, DiskSound, Torn, PullLosesClustersOnly
<1> QED
  BY <1>1, AllocInvariant, PTL

\* Chain, the refinement mapping, is the chains of the invariant, in every state.
ChainKnown == \A o, r : IInv(o, r) => Chain = o

\* It is a fact of every behaviour.
LEMMA ChainHolds == ChainKnown
  BY ChainIs DEF ChainKnown

\* Whatever FAT, bitmap and window go through, the files FatFs sees take, give back and hand on
\* whole clusters, one owner each: FatAlloc implements ClusterOwners.
THEOREM ImplementsOwners == Spec => OneOwner
<1>1. Init => Owners!Init
  <2> SUFFICES ASSUME Init PROVE Owners!Init
    OBVIOUS
  <2>1. Chain = [s \in Slots |-> <<>>]
    BY NewVolume, ChainIs
  <2> QED
    BY <2>1 DEF Init, Owners!Init
<1>2. AllocInv /\ SmallKnown' /\ ChainKnown /\ ChainKnown' /\ [Next]_vars => [Owners!Next]_<<Chain, pulls>>
  <2> SUFFICES ASSUME AllocInv, SmallKnown', ChainKnown, ChainKnown', [Next]_vars
               PROVE  Owners!Next \/ (Chain' = Chain /\ pulls' = pulls)
    OBVIOUS
  <2>1. PICK o, r, p, r2 : IInv(o, r) /\ IInv(p, r2)' /\ Moves(o, p)
    BY AllocStep
  <2>2. Chain = o /\ Chain' = p
    BY <2>1 DEF ChainKnown
  <2>3. CASE pulls' = pulls /\ p = o
    BY <2>2, <2>3
  <2>4. CASE pulls' = pulls /\ ((\E s \in Slots : Owners!Cut(s, o, p) \/ Owners!Give(s, o, p))
                                \/ \E s, t \in Slots : Owners!HandOn(s, t, o, p))
    BY <2>2, <2>4 DEF Owners!Next, Owners!Use
  <2>5. CASE pulls' = pulls + 1 /\ p \in [Slots -> Seq(Clusters)] /\ Owners!Apart(p)
    BY <2>2, <2>5 DEF Owners!Next, Owners!Again
  <2> QED
    BY <2>1, <2>3, <2>4, <2>5 DEF Moves
<1> QED
  BY <1>1, <1>2, AllocInvariant, SmallHolds, ChainHolds, PTL DEF Spec, OneOwner, Owners!Spec
=============================================================================
