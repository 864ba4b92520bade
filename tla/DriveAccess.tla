------------------------------ MODULE DriveAccess ------------------------------
(***************************************************************************)
(* The IPC thread at work on drives that the update thread may take away:  *)
(* the commands of fspusb_service.hpp, DriveFileSystem, DriveFile and      *)
(* DriveDirectory.  Filesystem commands run FatFs inside DoWithDrive, with *)
(* g_usb_manager_lock held; file, directory and label commands run it      *)
(* without, and only its disk_read and disk_write calls take the lock.     *)
(*                                                                         *)
(* The update thread is seen through VolumeTable, which UsbManager         *)
(* implements: between two sections of the lock any number of drives may   *)
(* be mounted, dropped or lost.  A drive that is dropped is unmounted (its *)
(* FATFS is zeroed) and freed; one that is lost is freed as it is.  Either *)
(* block may become the FATFS of another drive; other uses of freed memory *)
(* are not followed.  Code without the lock may be overtaken by such a     *)
(* section at any of its reads; what it reads is the state before or after *)
(* a section, never of its middle.                                         *)
(***************************************************************************)
EXTENDS Naturals

CONSTANTS
    Drives,       \* interfaces, each plugged at most once: IDs are not reused
    Blocks,       \* heap blocks that can hold a Drive
    MaxSteps,     \* bound: entries of a directory, sector accesses of a FatFs call
    IdWord,       \* the number of volume ids: 2^16, Fsid is a WORD
    Null

Volumes == 0 .. 1   \* bound: two of the FF_VOLUMES indices

Lost == "lost"   \* an index that is reserved for ever, its FatFs[] entry dangling

ASSUME ConstantsAssumption ==
    /\ MaxSteps \in Nat
    /\ IdWord \in Nat \ {0}
    /\ Null \notin Drives \union Blocks \union Volumes
    /\ Lost \notin Drives \union {Null}

VARIABLES
    plug,      \* the interfaces: new, in, out
    slot,      \* the volume table: index -> drive, Null or Lost
    block,     \* where the Drive object lives or lived
    mem,       \* the FATFS in each block: on (fs_type), id, pdrv; history: which mount
    FatFs,     \* FatFs[] of ff.c: index -> block of the FATFS registered there
    fsid,      \* the mounts so far; Fsid is what a WORD keeps of it
    session,   \* the index in mount_name of each DriveFileSystem
    handle,    \* the open DriveFile: drive, block and id of its FIL; history: the mount
    op,        \* the command in progress
    result,    \* its result
    served,    \* history: did FatFs run for the last command
    touched    \* history: <<how, drive meant, drive reached>>, the last sector access

vars == <<plug, slot, block, mem, FatFs, fsid, session, handle, op, result, served, touched>>
manager == <<plug, slot, block, mem, FatFs, fsid>>

command == <<session, handle, op, result, served, touched>>

Table == INSTANCE VolumeTable WITH Ifaces <- Drives, Free <- Null

\* The command in progress: vol is the index its path was made of, fs and pdrv
\* what FatFs has read so far of where the volume is.
Idle == [kind |-> Null, drive |-> Null, step |-> "idle", vol |-> Null, fs |-> Null,
         pdrv |-> 0, left |-> 0, named |-> FALSE, err |-> FALSE]
Zeroed == [on |-> FALSE, id |-> 0, pdrv |-> 0, mount |-> 0]
Nothing == <<"none", Null, Null>>
Closed == [drive |-> Null, block |-> Null, id |-> 0, mount |-> 0]

Init ==
    /\ plug = [d \in Drives |-> "new"]
    /\ Table!Init
    /\ block = [d \in Drives |-> Null]
    /\ mem = [b \in Blocks |-> Zeroed]
    /\ FatFs = [v \in Volumes |-> Null]
    /\ fsid = 0
    /\ session = [d \in Drives |-> Null]
    /\ handle = Closed
    /\ op = Idle
    /\ result = "none"
    /\ served = FALSE
    /\ touched = Nothing

Listed(d) == \E v \in Volumes : slot[v] = d
IndexOf(d) == IF Listed(d) THEN CHOOSE v \in Volumes : slot[v] = d ELSE Null

-----------------------------------------------------------------------------
\* The update thread and the world around it.

Plug(d) ==
    /\ plug[d] = "new"
    /\ plug' = [plug EXCEPT ![d] = "in"]
    /\ UNCHANGED <<slot, block, mem, FatFs, fsid>> /\ UNCHANGED command

Unplug(d) ==
    /\ plug[d] = "in"
    /\ plug' = [plug EXCEPT ![d] = "out"]
    /\ UNCHANGED <<slot, block, mem, FatFs, fsid>> /\ UNCHANGED command

\* fs->id = ++Fsid in mount_volume.
SameId == 1 % IdWord   \* faulty form: every mount gets the same id
NextId == (fsid + 1) % IdWord

\* The FATFS as mount_volume leaves it.
UnsetFs(v) == [on |-> TRUE, id |-> NextId, pdrv |-> 0, mount |-> fsid + 1]   \* faulty form: pdrv is not assigned
MountedFs(v) == [on |-> TRUE, id |-> NextId, pdrv |-> v, mount |-> fsid + 1]

\* A new Drive in a free block, mounted at the first free index.
Attach(d) ==
    \E v \in Volumes, b \in Blocks :
        /\ plug[d] = "in"
        /\ block[d] = Null
        /\ Table!Claim(v, d)
        /\ \A w \in Volumes : slot[w] = Null => v =< w
        /\ \A e \in Drives : Listed(e) => block[e] # b
        /\ block' = [block EXCEPT ![d] = b]
        /\ mem' = [mem EXCEPT ![b] = MountedFs(v)]
        /\ FatFs' = [FatFs EXCEPT ![v] = b]
        /\ fsid' = fsid + 1
        /\ UNCHANGED plug /\ UNCHANGED command

\* Unmount (index given back, FatFs[] cleared, FATFS zeroed), Dispose and delete.
Drop(d) ==
    \E v \in Volumes :
        /\ plug[d] = "out"
        /\ slot[v] = d
        /\ Table!Release(v)
        /\ mem' = [mem EXCEPT ![block[d]] = Zeroed]
        /\ FatFs' = [FatFs EXCEPT ![v] = Null]
        /\ UNCHANGED <<plug, block, fsid>> /\ UNCHANGED command

\* usbHsQueryAcquiredInterfaces failed: every Drive is freed, none unmounted.
LoseAll ==
    /\ \E d \in Drives : Listed(d)
    /\ Table!Lose({v \in Volumes : slot[v] \in Drives})
    /\ UNCHANGED <<plug, block, mem, FatFs, fsid>> /\ UNCHANGED command

Manager == LoseAll \/ \E d \in Drives : Plug(d) \/ Unplug(d) \/ Attach(d) \/ Drop(d)

-----------------------------------------------------------------------------
\* Commands of the IPC thread, one at a time.

Begin(kind, d) ==
    /\ op.step = "idle"
    /\ op' = [Idle EXCEPT !.kind = kind, !.drive = d, !.step = "check"]
    /\ result' = "none"
    /\ served' = FALSE
    /\ touched' = Nothing
    /\ UNCHANGED <<manager, session, handle>>

Goto(step) == op' = [op EXCEPT !.step = step]

Return(r) == op' = Idle /\ result' = r

\* Service commands on an interface, and commands of a DriveFileSystem: one
\* FatFs call (path), a file opened (open), a directory deleted (clean).
Command(d) ==
    \/ Begin("openfs", d) \/ Begin("label", d)
    \/ session[d] # Null /\ (Begin("path", d) \/ Begin("clean", d))
    \/ session[d] # Null /\ handle = Closed /\ Begin("open", d)

FileCommand == handle # Closed /\ (Begin("file", handle.drive) \/ Begin("close", handle.drive))

\* R_UNLESS(IsDriveInterfaceIdValid()), a section of its own; ~DriveFile has none.
Check ==
    /\ op.step = "check"
    /\ IF op.kind = "close" \/ Listed(op.drive)
       THEN /\ Goto(CASE op.kind \in {"openfs", "label"} -> "index"
                      [] op.kind \in {"path", "open"} -> "body"
                      [] op.kind = "clean" -> "opendir"
                      [] op.kind \in {"file", "close"} -> "validate")
            /\ UNCHANGED result
       ELSE Return("unavailable")
    /\ UNCHANGED <<manager, session, handle, served, touched>>

\* GetDriveMountedIndex, another section: DriveFileSystem keeps the index in
\* mount_name, GetDriveLabel and SetDriveLabel use it at once.
LookUp ==
    /\ op.step = "index"
    /\ IF op.kind = "openfs"
       THEN /\ session' = [session EXCEPT ![op.drive] = IndexOf(op.drive)]
            /\ Return("ok")
       ELSE /\ op' = [op EXCEPT !.step = "label", !.vol = IndexOf(op.drive)]
            /\ UNCHANGED <<session, result>>
    /\ UNCHANGED <<manager, handle, served, touched>>

\* DoWithDrive: nothing happens unless the drive is still in the list.
Anyway == session[op.drive] # Null   \* faulty form: the path decides, not the list
InList == Listed(op.drive)

\* The drive disk_read and disk_write find for a FATFS: by its pdrv.
Reached(fs) == IF fs = Null THEN Null ELSE slot[mem[fs].pdrv]

\* A section of the lock in which FatFs works on a path of the session: on the
\* FATFS that is registered at the index in mount_name.
Serve ==
    /\ InList
    /\ served' = TRUE
    /\ touched' = <<"path", op.drive, Reached(FatFs[session[op.drive]])>>

\* The section is empty, and ffrc stays FR_OK.
Skip == ~InList /\ UNCHANGED <<served, touched>>

\* The FIL that f_open makes.
NewFil(d, fs) == [drive |-> d, block |-> fs, id |-> mem[fs].id, mount |-> mem[fs].mount]

\* One call: most commands, and OpenFile, which copies the FIL to a DriveFile
\* whatever f_open did; without f_open that FIL is zero.
PathBody ==
    /\ op.step = "body"
    /\ \/ /\ Serve
          /\ \/ Return("error") /\ UNCHANGED handle
             \/ /\ Return("ok")
                /\ IF op.kind = "open"
                   THEN handle' = NewFil(op.drive, FatFs[session[op.drive]])
                   ELSE UNCHANGED handle
       \/ /\ Skip
          /\ Return("ok")
          /\ IF op.kind = "open" THEN handle' = [Closed EXCEPT !.drive = op.drive]
                                 ELSE UNCHANGED handle
    /\ UNCHANGED <<manager, session>>

\* DeleteDirectoryRecursivelyImpl: one section per call.  An entry counts as
\* a file: for a directory the loop runs once more, inside.
OpenDir ==
    /\ op.step = "opendir"
    /\ \/ /\ Serve
          /\ \/ Return("error")
             \/ /\ \E n \in 0 .. MaxSteps : op' = [op EXCEPT !.step = "readdir", !.left = n]
                /\ UNCHANGED result
       \/ Skip /\ Goto("readdir") /\ UNCHANGED result
    /\ UNCHANGED <<manager, session, handle>>

\* f_readdir goes on to the next entry; where it does not run info keeps the last.
ReadDir ==
    /\ op.step = "readdir"
    /\ \/ /\ Serve
          /\ \/ op' = [op EXCEPT !.step = "closedir", !.err = TRUE]
             \/ op.left > 0 /\ op' = [op EXCEPT !.step = "unlink", !.named = TRUE, !.left = @ - 1]
             \/ op.left = 0 /\ Goto("closedir")
       \/ Skip /\ Goto(IF op.named THEN "unlink" ELSE "closedir")
    /\ UNCHANGED <<manager, session, handle, result>>

Unlink ==
    /\ op.step = "unlink"
    /\ \/ Serve /\ op' = [op EXCEPT !.step = "closedir", !.err = TRUE]
       \/ (Serve \/ Skip) /\ Goto("readdir")
    /\ UNCHANGED <<manager, session, handle, result>>

CloseDir ==
    /\ op.step = "closedir"
    /\ \/ Serve /\ Return("error")
       \/ Serve /\ ~op.err /\ Return("ok")
       \/ Skip /\ Return(IF op.err THEN "error" ELSE "ok")
    /\ UNCHANGED <<manager, session, handle>>

-----------------------------------------------------------------------------
\* Labels: mount_volume without the lock, at an index that may be stale.  A
\* drive in the list that does not answer only fails: FatFs asks it in vain.

\* The end of a command; the destructor leaves no DriveFile.
Finish(r) ==
    /\ Return(r)
    /\ handle' = IF op.kind = "close" THEN Closed ELSE handle

FindFs ==
    /\ op.step = "label"
    /\ IF op.vol \in Volumes /\ FatFs[op.vol] # Null
       THEN op' = [op EXCEPT !.step = "type", !.fs = FatFs[op.vol]] /\ UNCHANGED <<result, handle>>
       ELSE Finish("error")
    /\ UNCHANGED <<manager, session, served, touched>>

TestType ==
    /\ op.step = "type"
    /\ Goto(IF mem[op.fs].on THEN "pdrv" ELSE "mount")
    /\ UNCHANGED <<manager, session, handle, result, served, touched>>

\* The FATFS about to be written to belongs to another drive by now.
Foreign == \E d \in Drives : Listed(d) /\ d # op.drive /\ block[d] = op.fs

\* The volume does not answer: mount_volume starts over, in a FATFS that was
\* freed meanwhile.  If that is another drive's, two drives share a FATFS
\* from here on, and the command is followed no further (step "astray").
MountAgain ==
    /\ op.step = "mount"
    /\ IF Foreign
       THEN Goto("astray") /\ UNCHANGED mem
       ELSE /\ mem' = [mem EXCEPT ![op.fs].on = FALSE, ![op.fs].pdrv = op.vol]
            /\ Goto("initialize")
    /\ UNCHANGED <<plug, slot, block, FatFs, fsid, session, handle, result, served, touched>>

\* disk_initialize and the boot sectors, of whichever drive has the index now.
Initialize ==
    /\ op.step = "initialize"
    /\ \/ /\ slot[op.vol] \in Drives
          /\ touched' = <<"label", op.drive, slot[op.vol]>>
          /\ served' = TRUE
          /\ Goto("remount")
          /\ UNCHANGED <<handle, result>>
       \/ Finish("error") /\ UNCHANGED <<served, touched>>
    /\ UNCHANGED <<manager, session>>

Remount ==
    /\ op.step = "remount"
    /\ IF Foreign
       THEN Goto("astray") /\ UNCHANGED <<mem, fsid, handle, result>>
       ELSE \/ /\ mem' = [mem EXCEPT ![op.fs] = MountedFs(op.vol)]
               /\ fsid' = fsid + 1
               /\ op' = [op EXCEPT !.step = "io", !.left = MaxSteps]
               /\ UNCHANGED <<handle, result>>
            \/ Finish("error") /\ UNCHANGED <<mem, fsid>>
    /\ UNCHANGED <<plug, slot, block, FatFs, session, served, touched>>

-----------------------------------------------------------------------------
\* Files: validate, and the sectors of labels and files, without the lock but
\* for the calls of the disk functions.

\* The FATFS in the block the FIL points to, live, zeroed or somebody else's, is
\* mounted and has the id of the FIL; the drive is asked for later.
IdMatches ==
    handle.block # Null /\ mem[handle.block].on /\ mem[handle.block].id = handle.id

Validate ==
    /\ op.step = "validate"
    /\ IF IdMatches
       THEN op' = [op EXCEPT !.step = "pdrv", !.fs = handle.block] /\ UNCHANGED <<result, handle>>
       ELSE Finish("invalid")
    /\ UNCHANGED <<manager, session, served, touched>>

\* disk_status(fs->pdrv): the index is read before the lock is taken, ...
ReadPdrv ==
    /\ op.step = "pdrv"
    /\ op' = [op EXCEPT !.step = "status", !.pdrv = mem[op.fs].pdrv]
    /\ UNCHANGED <<manager, session, handle, result, served, touched>>

\* ... and any drive that has it by then may answer.
Status ==
    /\ op.step = "status"
    /\ \/ /\ slot[op.pdrv] \in Drives
          /\ op' = [op EXCEPT !.step = "io", !.left = MaxSteps]
          /\ served' = TRUE
          /\ UNCHANGED <<handle, result>>
       \/ /\ op.kind # "label" \/ slot[op.pdrv] = op.drive
          /\ Finish("invalid")
          /\ UNCHANGED served
       \/ /\ op.kind = "label" /\ slot[op.pdrv] # op.drive
          /\ Goto("mount")
          /\ UNCHANGED <<served, handle, result>>
    /\ UNCHANGED <<manager, session, touched>>

\* One disk_read or disk_write of the call: fs->pdrv is read again, ...
Address ==
    /\ op.step = "io"
    /\ op.left > 0
    /\ op' = [op EXCEPT !.step = "sector", !.pdrv = mem[op.fs].pdrv, !.left = @ - 1]
    /\ UNCHANGED <<manager, session, handle, result, served, touched>>

\* ... and DoWithDriveMountedIndex finds the drive that has that index now.
Sector ==
    /\ op.step = "sector"
    /\ IF slot[op.pdrv] \in Drives
       THEN /\ touched' = <<IF op.kind = "label" THEN "label" ELSE "file",
                           op.drive, slot[op.pdrv]>>
            /\ Goto("io")
            /\ UNCHANGED <<handle, result>>
       ELSE Finish("error") /\ UNCHANGED touched
    /\ UNCHANGED <<manager, session, served>>

Done ==
    /\ op.step = "io"
    /\ Finish("ok")
    /\ UNCHANGED <<manager, session, served, touched>>

\* f_read, f_write or f_truncate after f_lseek, f_readdir after f_readdir,
\* f_close after its f_sync: the second call validates again.
SecondCall ==
    /\ op.step = "io"
    /\ op.kind # "label"
    /\ ~op.named
    /\ op' = [op EXCEPT !.step = "validate", !.named = TRUE]
    /\ UNCHANGED <<manager, session, handle, result, served, touched>>

Proceed ==
    \/ Check \/ LookUp \/ PathBody \/ OpenDir \/ ReadDir \/ Unlink \/ CloseDir
    \/ FindFs \/ TestType \/ MountAgain \/ Initialize \/ Remount
    \/ Validate \/ ReadPdrv \/ Status \/ Address \/ Sector \/ Done \/ SecondCall

Next == Manager \/ Proceed \/ FileCommand \/ \E d \in Drives : Command(d)

Spec == Init /\ [][Next]_vars

\* LoopProcess serves a command to its end; nobody is obliged to send one.
FairSpec == Spec /\ WF_vars(Proceed)

-----------------------------------------------------------------------------
Handles ==
    [drive : Drives \union {Null}, block : Blocks \union {Null}, id : Nat, mount : Nat]

Kinds == {"openfs", "label", "path", "open", "clean", "file", "close"}

Operations ==
    [kind : Kinds \union {Null}, drive : Drives \union {Null},
     step : {"idle", "check", "index", "body", "opendir", "readdir", "unlink", "closedir",
             "label", "type", "mount", "initialize", "remount", "astray",
             "validate", "pdrv", "status", "io", "sector"},
     vol : Volumes \union {Null}, fs : Blocks \union {Null}, pdrv : Volumes,
     left : 0 .. MaxSteps, named : BOOLEAN, err : BOOLEAN]

Touches == {Nothing} \union ({"path", "label", "file"} \X Drives \X Drives)

\* The variables stay in their sets; an index is one of the array or none.
TypeOK ==
    /\ plug \in [Drives -> {"new", "in", "out"}]
    /\ slot \in [Volumes -> Drives \union {Null, Lost}]
    /\ block \in [Drives -> Blocks \union {Null}]
    /\ mem \in [Blocks -> [on : BOOLEAN, id : Nat, pdrv : Volumes, mount : Nat]]
    /\ FatFs \in [Volumes -> Blocks \union {Null}]
    /\ fsid \in Nat
    /\ session \in [Drives -> Volumes \union {Null}]
    /\ handle \in Handles
    /\ op \in Operations
    /\ result \in {"none", "ok", "error", "invalid", "unavailable"}
    /\ served \in BOOLEAN
    /\ touched \in Touches

\* Whatever comes and goes between the sections of a filesystem command, the
\* index remembered in mount_name leads to the drive the session was opened on.
PathsStayOnDrive == touched[1] = "path" => touched[2] = touched[3]

\* The id check of validate tells a FATFS that was freed, reused or mounted anew
\* from the one the FIL was opened on, as long as fewer mounts than there are
\* ids came in between: what passes is that mount, of the file's own drive.
\* (The drive can still go before disk_status and the sectors.)
ValidatedIsOwn ==
    [][op.step = "validate" /\ op'.step = "pdrv" /\ fsid - handle.mount < IdWord
        => /\ mem[handle.block].mount = handle.mount
           /\ slot[mem[handle.block].pdrv] \in {handle.drive, Lost}]_vars

\* A file or label command without the lock reaches the sectors of another
\* drive only when its own has left the list: while it is there, neither the
\* addresses and indices read before nor the mounts around it mislead FatFs.
StrayOnlyUnlisted ==
    touched[1] \in {"file", "label"} /\ Listed(touched[2]) => touched[3] = touched[2]

\* "Drive unavailable (accessing a filesystem/file/directory of a drive after
\* it got unplugged)" (README.md): an access ends, unplugged or not, ...
Returns == op.step # "idle" ~> op.step = "idle"

\* ... does not succeed without FatFs having run, ...
OkMeansServed ==
    [][op.kind \in {"path", "open", "clean"} /\ op'.step = "idle" /\ result' = "ok"
        => served']_vars

\* ... is not carried out on another drive, ...
FilesStayOnDrive == touched[1] \in {"file", "label"} => touched[2] = touched[3]

\* ... and does not write into the FATFS of another.
FatFsUnharmed == op.step # "astray"
=============================================================================
