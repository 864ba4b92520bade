-------------------------------- MODULE FatLock --------------------------------
(***************************************************************************)
(* The table Files[] in which FatFs counts the opens of every file and     *)
(* sub-directory (ff.c, FF_FS_LOCK), with the calls that use it: f_open,   *)
(* f_close, f_opendir, f_closedir, f_unlink, f_rename, f_mkdir on one side *)
(* (the IPC thread), f_mount and the loss of a drive on the other (the     *)
(* update thread).  One table serves every volume, an entry names an       *)
(* object by its FATFS, the start cluster of the containing directory and  *)
(* the offset of its directory entry there; an open directory is named by  *)
(* its own start cluster and offset 0.                                     *)
(*                                                                         *)
(* Calls on paths hold g_usb_manager_lock and are atomic here.  The        *)
(* destructors of DriveFile and DriveDirectory call f_close and f_closedir *)
(* without it, so these are steps between which a drive can come or go.    *)
(* File contents and the FAT are left out; of a volume only the directory  *)
(* tree is kept.                                                           *)
(***************************************************************************)
EXTENDS Integers, FiniteSets

CONSTANTS
    Volumes,    \* FATFS objects, by address
    Clusters,   \* clusters that can hold a directory's table
    Offsets,    \* offsets of directory entries in a table
    Root,       \* the "cluster" of a root directory (sclust = 0)
    File,       \* content of a directory entry: a file
    Null,
    Handles,    \* the FILs and DIRs there can be at a time
    FF_FS_LOCK, \* entries of Files[]
    MaxMounts   \* bound: mounts in a behaviour (Fsid has 16 bits)

ASSUME LockAssumption ==
    /\ FF_FS_LOCK \in Nat \ {0}
    /\ MaxMounts \in Nat
    /\ Offsets \subseteq Nat \ {0}
    /\ Root \notin Clusters
    /\ Null \notin Volumes
    /\ Null \notin Clusters
    /\ File \notin Clusters
    /\ File # Null

\* The semaphore value of an object open for writing.
Writing == 256

\* Nothing in inc_lock keeps a read count from reaching that value.
ASSUME FewHandles == IsFiniteSet(Handles) /\ Cardinality(Handles) < Writing

VARIABLES
    tree,    \* tree[v][<<d, o>>]: what the entry at offset o of directory d is
    mount,   \* mount[v]: fs->id of a mounted volume, 0 with fs_type = 0
    fsid,    \* Fsid
    Files,   \* the lock table
    handle,  \* the FILs and DIRs, and where their user is in closing them
    refused  \* what the last call was refused with, and about which object

vars == <<tree, mount, fsid, Files, handle, refused>>

Slots == 1 .. FF_FS_LOCK
Dirs == Clusters \union {Root}
Entries == Dirs \X Offsets
Objects == Dirs \X (Offsets \union {0})
Empty == [e \in Entries |-> Null]

\* The code leaves the other fields of a blank entry, and never looks at them.
Blank == [fs |-> Null, at |-> <<Root, 0>>, ctr |-> 0]
NoHandle == [state |-> "free", fs |-> Null, id |-> 0, at |-> <<Root, 0>>,
             lockid |-> 0, write |-> FALSE]
Nothing == [code |-> "none", fs |-> Null, at |-> <<Root, 0>>]
Done == refused' = Nothing
Refuse(code, v, at) == refused' = [code |-> code, fs |-> v, at |-> at]

\* validate: the FATFS is mounted, and still the mount the object was opened in.
Current(h) ==
    /\ handle[h].state # "free"
    /\ mount[handle[h].fs] = handle[h].id
    /\ handle[h].id # 0

\* Directories a path can lead to: f_rename can move one out of reach.
Reachable(v) ==
    {d \in Dirs : \A S \in SUBSET Dirs :
        /\ Root \in S
        /\ \A e \in Entries : e[1] \in S /\ tree[v][e] \in Clusters => tree[v][e] \in S
        => d \in S}

\* A call on a path: the volume is mounted and the IPC thread in no other call.
PathCall(v) ==
    /\ mount[v] # 0
    /\ \A h \in Handles : handle[h].state \notin {"synced", "releasing"}

-----------------------------------------------------------------------------
(* The file lock control functions *)

First(S) == IF S = {} THEN 0 ELSE CHOOSE i \in S : \A j \in S : i <= j

\* The entry of an object, the first blank entry; 0 if there is none.
Find(v, at) == First({i \in Slots : Files[i].fs = v /\ Files[i].at = at})
FirstBlank == First({i \in Slots : Files[i].fs = Null})

\* Mutants: the writer, the removal are not looked at.
ChkLockAnyMode(v, at, acc) ==
    LET i == Find(v, at) IN
    CASE i = 0 -> IF FirstBlank = 0 /\ acc # "delete" THEN "too_many" ELSE "ok"
      [] i # 0 -> IF acc # "read" THEN "locked" ELSE "ok"
ChkLockReadersOnly(v, at, acc) ==
    LET i == Find(v, at) IN
    CASE i = 0 -> IF FirstBlank = 0 /\ acc # "delete" THEN "too_many" ELSE "ok"
      [] i # 0 -> IF acc = "write" \/ (acc = "read" /\ Files[i].ctr = Writing) THEN "locked" ELSE "ok"

ChkLock(v, at, acc) ==
    LET i == Find(v, at) IN
    CASE i = 0 -> IF FirstBlank = 0 /\ acc # "delete" THEN "too_many" ELSE "ok"
      [] i # 0 -> IF acc # "read" \/ Files[i].ctr = Writing THEN "locked" ELSE "ok"

\* inc_lock: the entry it uses, the count it finds there, when it returns 0.
LockId(v, at) == IF Find(v, at) # 0 THEN Find(v, at) ELSE FirstBlank
Count(v, at) == IF Find(v, at) # 0 THEN Files[Find(v, at)].ctr ELSE 0
Violation(v, at, acc) == LockId(v, at) = 0 \/ (acc # "read" /\ Count(v, at) # 0)

IncLock(v, at, acc) ==
    Files' = [Files EXCEPT ![LockId(v, at)] =
        [fs |-> v, at |-> at, ctr |-> IF acc = "read" THEN Count(v, at) + 1 ELSE Writing]]

\* dec_lock: what is left of a count, and of its entry.
Less(n) == IF n = Writing \/ n = 0 THEN 0 ELSE n - 1
\* Mutants: the entry always goes; the write mark counts as a number of readers.
Emptied(e) == Blank
DecrementedOnly(e) == IF e.ctr <= 1 THEN Blank ELSE [e EXCEPT !.ctr = @ - 1]
Decremented(e) == IF Less(e.ctr) = 0 THEN Blank ELSE [e EXCEPT !.ctr = Less(@)]

\* clear_lock.
Cleared(v) == [i \in Slots |-> IF Files[i].fs = v THEN Blank ELSE Files[i]]

-----------------------------------------------------------------------------
Init ==
    /\ tree = [v \in Volumes |-> Empty]
    /\ mount = [v \in Volumes |-> 0]
    /\ fsid = 0
    /\ Files = [i \in Slots |-> Blank]
    /\ handle = [h \in Handles |-> NoHandle]
    /\ refused = Nothing

(* The update thread *)

\* f_mount, mount_volume: the drive that was there before, or an empty one.
Mount(v) ==
    /\ mount[v] = 0
    /\ fsid < MaxMounts
    /\ fsid' = fsid + 1
    /\ mount' = [mount EXCEPT ![v] = fsid + 1]
    /\ \E t \in {tree[v], Empty} : tree' = [tree EXCEPT ![v] = t]
    /\ Files' = Cleared(v)
    /\ Done
    /\ UNCHANGED handle

\* Nobody holds the lock of a FIL that f_close left behind any more.
Forget(v) == [h \in Handles |->
    IF handle[h].state = "left" /\ handle[h].fs = v THEN NoHandle ELSE handle[h]]

\* Drive::Unmount calls f_mount(nullptr).
Unmount(v) ==
    /\ mount[v] # 0 \/ \E i \in Slots : Files[i].fs = v
    /\ mount' = [mount EXCEPT ![v] = 0]
    /\ Files' = Cleared(v)
    /\ handle' = Forget(v)
    /\ Done
    /\ UNCHANGED <<tree, fsid>>

\* The SCSI unit is not OK any more (disk_status), or the drive list was
\* emptied without Unmount: no call gets through, the table is as it was.
Lose(v) ==
    /\ mount[v] # 0
    /\ mount' = [mount EXCEPT ![v] = 0]
    /\ handle' = Forget(v)
    /\ Done
    /\ UNCHANGED <<tree, fsid, Files>>

-----------------------------------------------------------------------------
(* The IPC thread *)

Opened(h, v, at, acc, state) ==
    handle' = [handle EXCEPT ![h] =
        [state |-> state, fs |-> v, id |-> mount[v], at |-> at,
         lockid |-> LockId(v, at), write |-> acc = "write"]]

\* The end of f_open: inc_lock, then the seek of FA_OPEN_APPEND, which can fail.
Lock(h, v, at, acc) ==
    IF Violation(v, at, acc)
    THEN Refuse("int_err", v, at) /\ UNCHANGED <<Files, handle>>
    ELSE /\ IncLock(v, at, acc)
         /\ \/ Opened(h, v, at, acc, "open") /\ Done
            \/ /\ acc = "write"
               /\ Opened(h, v, at, acc, "left")
               /\ Done

\* f_open of an existing file, for reading or in one of the writing modes.
OpenExisting(h, v, e, acc) ==
    /\ PathCall(v)
    /\ handle[h].state = "free"
    /\ e[1] \in Reachable(v)
    /\ tree[v][e] = File
    /\ IF ChkLock(v, e, acc) = "ok"
       THEN Lock(h, v, e, acc)
       ELSE Refuse(ChkLock(v, e, acc), v, e) /\ UNCHANGED <<Files, handle>>
    /\ UNCHANGED <<tree, mount, fsid>>

\* f_open with a mode that creates: enq_lock instead of chk_lock.
OpenNew(h, v, e) ==
    /\ PathCall(v)
    /\ handle[h].state = "free"
    /\ e[1] \in Reachable(v)
    /\ tree[v][e] = Null
    /\ IF FirstBlank = 0
       THEN Refuse("too_many", v, e) /\ UNCHANGED <<tree, Files, handle>>
       ELSE /\ tree' = [tree EXCEPT ![v][e] = File]
            /\ Lock(h, v, e, "write")
    /\ UNCHANGED <<mount, fsid>>

\* f_opendir: the root directory needs no lock, chk_lock is not asked.
OpenDir(h, v, d) ==
    LET at == <<d, 0>> IN
    /\ PathCall(v)
    /\ handle[h].state = "free"
    /\ d \in Reachable(v)
    /\ CASE d = Root ->
              /\ handle' = [handle EXCEPT ![h] =
                    [state |-> "open", fs |-> v, id |-> mount[v], at |-> at,
                     lockid |-> 0, write |-> FALSE]]
              /\ Done
              /\ UNCHANGED Files
         [] d # Root /\ LockId(v, at) = 0 ->
              Refuse("too_many", v, at) /\ UNCHANGED <<Files, handle>>
         [] d # Root /\ LockId(v, at) # 0 ->
              /\ IncLock(v, at, "read")
              /\ Opened(h, v, at, "read", "open")
              /\ Done
    /\ UNCHANGED <<tree, mount, fsid>>

Goes(h) == handle' = [handle EXCEPT ![h] = NoHandle]
Moves(h, state) == handle' = [handle EXCEPT ![h].state = state]
NoOtherCall(h) ==
    \A g \in Handles \ {h} : handle[g].state \notin {"synced", "releasing"}

\* ~DriveFile, ~DriveDirectory: f_close starts with f_sync.  When that fails the
\* FIL is destroyed all the same, and its lock stays.
Sync(h) ==
    /\ handle[h].state = "open"
    /\ NoOtherCall(h)
    /\ IF Current(h)
       THEN Moves(h, "synced") \/ (handle[h].write /\ Moves(h, "left"))
       ELSE Goes(h)
    /\ Done
    /\ UNCHANGED <<tree, mount, fsid, Files>>

\* The validate of f_close and f_closedir ...
Validate(h) ==
    /\ handle[h].state = "synced"
    /\ IF Current(h) THEN Moves(h, "releasing") ELSE Goes(h)
    /\ Done
    /\ UNCHANGED <<tree, mount, fsid, Files>>

\* ... and their dec_lock, whatever has become of the volume since.
Release(h) ==
    LET i == handle[h].lockid IN
    /\ handle[h].state = "releasing"
    /\ IF i = 0 THEN UNCHANGED Files
       ELSE Files' = [Files EXCEPT ![i] = Decremented(@)]
    /\ Goes(h)
    /\ Done
    /\ UNCHANGED <<tree, mount, fsid>>

\* f_unlink, f_rmdir: a file, or a sub-directory without entries.
Unlink(v, e) ==
    /\ PathCall(v)
    /\ e[1] \in Reachable(v)
    /\ tree[v][e] # Null
    /\ tree[v][e] \in Clusters => \A o \in Offsets : tree[v][<<tree[v][e], o>>] = Null
    /\ IF ChkLock(v, e, "delete") = "ok"
       THEN tree' = [tree EXCEPT ![v][e] = Null] /\ Done
       ELSE Refuse(ChkLock(v, e, "delete"), v, e) /\ UNCHANGED tree
    /\ UNCHANGED <<mount, fsid, Files, handle>>

\* f_rename: only the old name is checked; a directory may go into itself.
Rename(v, e, n) ==
    /\ PathCall(v)
    /\ e[1] \in Reachable(v) /\ n[1] \in Reachable(v)
    /\ tree[v][e] # Null
    /\ tree[v][n] = Null
    /\ IF ChkLock(v, e, "delete") = "ok"
       THEN /\ tree' = [tree EXCEPT ![v][e] = Null, ![v][n] = tree[v][e]]
            /\ Done
       ELSE Refuse(ChkLock(v, e, "delete"), v, e) /\ UNCHANGED tree
    /\ UNCHANGED <<mount, fsid, Files, handle>>

\* f_mkdir: create_chain gives it a cluster no directory has.
Mkdir(v, e, c) ==
    /\ PathCall(v)
    /\ e[1] \in Reachable(v)
    /\ tree[v][e] = Null
    /\ \A x \in Entries : tree[v][x] # c
    /\ tree' = [tree EXCEPT ![v][e] = c]
    /\ Done
    /\ UNCHANGED <<mount, fsid, Files, handle>>

-----------------------------------------------------------------------------
UpdateThread == \E v \in Volumes : Mount(v) \/ Unmount(v) \/ Lose(v)

Closing == \E h \in Handles : Sync(h) \/ Validate(h) \/ Release(h)

Opening ==
    \E h \in Handles, v \in Volumes :
        \/ \E e \in Entries, acc \in {"read", "write"} : OpenExisting(h, v, e, acc)
        \/ \E e \in Entries : OpenNew(h, v, e)
        \/ \E d \in Dirs : OpenDir(h, v, d)

Naming ==
    \E v \in Volumes, e \in Entries :
        \/ Unlink(v, e)
        \/ \E n \in Entries : Rename(v, e, n)
        \/ \E c \in Clusters : Mkdir(v, e, c)

Next == UpdateThread \/ Closing \/ Opening \/ Naming

Spec == Init /\ [][Next]_vars

-----------------------------------------------------------------------------
HandleRecords ==
    [state : {"free", "open", "synced", "releasing", "left"},
     fs : Volumes \union {Null}, id : Nat, at : Objects,
     lockid : 0 .. FF_FS_LOCK, write : BOOLEAN]

\* Every variable stays in its set; a count fits the 16 bits of ctr.
TypeOK ==
    /\ tree \in [Volumes -> [Entries -> Clusters \union {File, Null}]]
    /\ mount \in [Volumes -> Nat]
    /\ fsid \in Nat
    /\ Files \in [Slots -> [fs : Volumes \union {Null}, at : Objects, ctr : 0 .. Writing]]
    /\ handle \in [Handles -> HandleRecords]
    /\ refused \in [code : {"none", "locked", "too_many", "int_err"},
                   fs : Volumes \union {Null}, at : Objects]

IsDir(h) == handle[h].at[2] = 0
Same(g, h) == handle[g].fs = handle[h].fs /\ handle[g].at = handle[h].at

\* Duplicated opens: an object open for writing is not open a second time.
WriterAlone ==
    \A g, h \in Handles :
        g # h /\ Current(g) /\ Current(h) /\ Same(g, h) => ~handle[g].write

\* A file that is open is neither removed nor renamed: its directory entry,
\* which f_sync will overwrite, is still that of a file.
OpenFilesStay ==
    \A h \in Handles : Current(h) /\ ~IsDir(h) => tree[handle[h].fs][handle[h].at] = File

\* Whatever is mounted, unmounted and closed in between, the entry a handle
\* will decrement is the one of its own object.
LocksHeld ==
    \A h \in Handles : Current(h) /\ handle[h].lockid # 0 =>
        LET e == Files[handle[h].lockid] IN
        e.fs = handle[h].fs /\ e.at = handle[h].at /\ e.ctr # 0

\* FR_LOCKED is answered only for an object somebody opened in this mount, not
\* because of an earlier mount, another volume or a forgotten entry.
LockedMeansHeld ==
    refused.code = "locked" =>
        \E h \in Handles :
            Current(h) /\ handle[h].fs = refused.fs /\ handle[h].at = refused.at

\* After chk_lock or enq_lock has let a call pass, inc_lock does not fail.
NoInternalError == refused.code # "int_err"

\* The table tells the truth: it has what handles hold, nothing it refuses for is
\* forgotten, and the check before an open agrees with the registration after it.
LocksRight == LocksHeld /\ LockedMeansHeld /\ NoInternalError

\* ffconf.h: the lock control is there to prevent the "illegal operation to
\* open objects", the "remove and rename to the open objects": what is open,
\* directories too, exists.
OpenObjectsStay ==
    \A h \in Handles : Current(h) /\ handle[h].at # <<Root, 0>> =>
        IF IsDir(h) THEN \E e \in Entries : tree[handle[h].fs][e] = handle[h].at[1]
        ELSE tree[handle[h].fs][handle[h].at] = File
=============================================================================
