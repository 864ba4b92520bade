------------------------------ MODULE UsbManager ------------------------------
(***************************************************************************)
(* The USB drive manager of fsp-usb (impl/fspusb_usb_manager.cpp) with the *)
(* mounting half of Drive (impl/fspusb_drive.cpp) and the volume registry  *)
(* of FatFs (FatFs[] and f_mount in fatfs/ff.c).                           *)
(*                                                                         *)
(* Two threads run UpdateDrives: the update thread, woken by events of the *)
(* USB host service, and the IPC thread, which forces an update at the     *)
(* start of every service command.  g_usb_manager_lock is held for the     *)
(* whole of UpdateDrives; devices are plugged and unplugged at any moment. *)
(* The lock is taken again by the disk_* callbacks that f_mount reaches:   *)
(* the model takes it for the recursive mutex this use needs.              *)
(*                                                                         *)
(* One Drive object exists per interface, so drives are named by their     *)
(* interface and drive[i] holds the members of i's Drive.  The sequences   *)
(* are the std::vectors; Moved is what std::move leaves behind.            *)
(***************************************************************************)
EXTENDS Naturals, Sequences, FiniteSets

CONSTANTS
    Ifaces,      \* interface IDs; one that was unplugged is never seen again
    Luns,        \* Luns[i]: what each logical unit of i holds
    DriveMax,    \* FF_VOLUMES: mountable indices, and size of iface_block
    Updater,     \* ManagerUpdateThread
    Ipc,         \* the thread serving the IPC sessions
    MaxCalls,    \* bound: forced updates of one behaviour
    Faults,      \* the calls of usb:hs and of the device that may fail
    NoThread, Null, Dangling, Moved

LunKinds == {"fat", "other", "dead"}  \* FAT/exFAT; no FAT volume; no SCSI answer
FaultKinds == {"acquired", "available", "acquire", "setup", "max_lun", "scsi", "mount"}
Threads == {Updater, Ipc}
Volumes == 0 .. DriveMax - 1
Invalid == DriveMax                   \* InvalidMountedIndex (0xFF)

ASSUME DriveMaxAssumption == DriveMax \in Nat \ {0}
ASSUME LunsAssumption == Luns \in [Ifaces -> Seq(LunKinds) \ {<<>>}]
ASSUME ThreadAssumption == Updater # Ipc /\ NoThread \notin Threads
ASSUME PointerAssumption ==
    /\ Null # Dangling
    /\ Ifaces \cap {Null, Dangling, Moved} = {}
ASSUME FaultsAssumption == Faults \subseteq FaultKinds /\ MaxCalls \in Nat

VARIABLES
    usb,          \* what usb:hs knows of each interface
    stateChange,  \* the InterfaceStateChange event (cleared by hand)
    available,    \* g_usb_manager_interface_available_event (autoclear)
    lock,         \* owner of g_usb_manager_lock
    pc,           \* where each thread is in UpdateDrives
    block,        \* iface_block of each thread: the answer of its last query
    valid,        \* valid_drives of each thread
    scan,         \* its position in the list being pruned
    cur,          \* the interface it is acquiring
    lun, max_lun, \* its unit counter and the number of units
    drives,       \* g_usb_manager_drives
    drive,        \* the Drive object of each interface
    reserved,     \* g_usb_manager_mounted_index_array
    FatFs,        \* FatFs[]: whose FATFS each volume is registered with
    calls         \* forced updates so far

vars == <<usb, stateChange, available, lock, pc, block, valid, scan, cur, lun,
          max_lun, drives, drive, reserved, FatFs, calls>>
usbVars == <<usb, stateChange, available>>
table == <<drives, drive, reserved, FatFs>>
pruneVars == <<valid, scan>>
mountVars == <<cur, lun, max_lun>>
locals == <<block, pruneVars, mountVars>>

UsbStates == {"absent", "available", "acquired", "orphan", "gone"}
Labels == {"idle", "lock", "acquired", "prune", "available", "next", "setup",
           "lun", "mount", "probe", "close"}
Critical == Labels \ {"idle", "lock"}

NoDrive == [live |-> FALSE, lun |-> 0, idx |-> Invalid, mounted |-> FALSE, scsi |-> "none"]

\* Mutant: the session is left open.
NotClosed(u) == u
\* usbHsIfClose: an interface still plugged in can be acquired again.
Closed(u) == IF u = "acquired" THEN "available" ELSE "gone"

\* What a query writes into iface_block, which has room for DriveMax entries.
Answers(S) == {b \in SUBSET S : b = S \/ Cardinality(b) = DriveMax}
\* Mutant: only the first entry of the answer is looked at.
FirstOnly(S) == {b \in SUBSET S : (b = S /\ S = {}) \/ Cardinality(b) = 1}
Block(S) == {b \in Answers(S) : Cardinality(b) <= DriveMax}

\* The registry once the FATFS inside each Drive of S has been freed.
Freed(S) == [v \in Volumes |-> IF FatFs[v] \in S THEN Dangling ELSE FatFs[v]]

\* Mutant: f_mount(nullptr, ..) is left out.
StillRegistered(i) == FatFs
\* What Drive::Unmount does to the registry and to the index array.
Unregistered(i) == [FatFs EXCEPT ![drive[i].idx] = Null]
Released(i) == [reserved EXCEPT ![drive[i].idx] = FALSE]

\* Mutant: Dispose leaves the SCSI context in place.
Unmounted(i) == [drive[i] EXCEPT !.mounted = FALSE]
\* The Drive itself after Unmount and Dispose.
Disposed(i) == [drive[i] EXCEPT !.mounted = FALSE, !.scsi = "none"]

\* Mutant: always the first index, free or not.
AnyIndex(v) == v = 0
\* FindNextMountableIndex and MountAtIndex agree on the first free index.
FreeIndex(v) == ~reserved[v] /\ \A w \in Volumes : w < v => reserved[w]

Placed(i, v) == [drive[i] EXCEPT !.idx = v]

PushValid(t, k) == Append(valid[t], drives[k])

\* Mutant: the old list is not cleared first.
KeptUncleared(t) == drives \o valid[t]
Kept(t) == valid[t]

\* DoWithDriveMountedIndex runs its callback on the first drive with that index.
Holds(k, v) == drives[k] # Moved /\ drive[drives[k]].idx = v
FirstWith(k, v) ==
    k \in 1 .. Len(drives) /\ Holds(k, v) /\ \A j \in 1 .. k - 1 : ~Holds(j, v)

\* A FAT volume that disk_read can still fetch from the device.
Readable(i) ==
    /\ usb[i] = "acquired"
    /\ drive[i].scsi = "ok"
    /\ Luns[i][drive[i].lun + 1] = "fat"

Last == drives[Len(drives)]
Goto(t, label) == pc' = [pc EXCEPT ![t] = label]

-----------------------------------------------------------------------------
\* The initial state: InitializeManager has run, nothing is plugged in.
Init ==
    /\ usb = [i \in Ifaces |-> "absent"]
    /\ stateChange = FALSE
    /\ available = FALSE
    /\ lock = NoThread
    /\ pc = [t \in Threads |-> "idle"]
    /\ block = [t \in Threads |-> {}]
    /\ valid = [t \in Threads |-> <<>>]
    /\ scan = [t \in Threads |-> 1]
    /\ cur = [t \in Threads |-> Null]
    /\ lun = [t \in Threads |-> 0]
    /\ max_lun = [t \in Threads |-> 0]
    /\ drives = <<>>
    /\ drive = [i \in Ifaces |-> NoDrive]
    /\ reserved = [v \in Volumes |-> FALSE]
    /\ FatFs = [v \in Volumes |-> Null]
    /\ calls = 0

-----------------------------------------------------------------------------
\* The environment: USB devices come and go, usb:hs signals its events.

Plug(i) ==
    /\ usb[i] = "absent"
    /\ usb' = [usb EXCEPT ![i] = "available"]
    /\ available' = TRUE
    /\ UNCHANGED <<stateChange, lock, pc, locals, table, calls>>

Unplug(i) ==
    /\ \/ /\ usb[i] = "available"
          /\ usb' = [usb EXCEPT ![i] = "gone"]
          /\ UNCHANGED stateChange
       \/ /\ usb[i] = "acquired"
          /\ usb' = [usb EXCEPT ![i] = "orphan"]
          /\ stateChange' = TRUE
    /\ UNCHANGED <<available, lock, pc, locals, table, calls>>

-----------------------------------------------------------------------------
\* What makes each thread run UpdateDrives.

WakeStateChange(t) ==
    /\ t = Updater
    /\ pc[t] = "idle"
    /\ stateChange
    /\ stateChange' = FALSE
    /\ Goto(t, "lock")
    /\ UNCHANGED <<usb, available, lock, locals, table, calls>>

WakeAvailable(t) ==
    /\ t = Updater
    /\ pc[t] = "idle"
    /\ available
    /\ available' = FALSE
    /\ Goto(t, "lock")
    /\ UNCHANGED <<usb, stateChange, lock, locals, table, calls>>

DoUpdateDrives(t) ==
    /\ t = Ipc
    /\ pc[t] = "idle"
    /\ calls < MaxCalls
    /\ calls' = calls + 1
    /\ Goto(t, "lock")
    /\ UNCHANGED <<usbVars, lock, locals, table>>

-----------------------------------------------------------------------------
\* UpdateDrives, first half: drop the drives whose interface is gone.

Lock(t) ==
    /\ pc[t] = "lock"
    /\ lock = NoThread
    /\ lock' = t
    /\ Goto(t, IF drives = <<>> THEN "available" ELSE "acquired")
    /\ UNCHANGED <<usbVars, locals, table, calls>>

QueryAcquired(t) ==
    /\ pc[t] = "acquired"
    /\ \E b \in Block({i \in Ifaces : usb[i] = "acquired"}) :
         block' = [block EXCEPT ![t] = b]
    /\ scan' = [scan EXCEPT ![t] = 1]
    /\ valid' = [valid EXCEPT ![t] = <<>>]
    /\ Goto(t, "prune")
    /\ UNCHANGED <<usbVars, mountVars, lock, table, calls>>

\* The query failed: valid_drives is empty, and clear() destroys every Drive
\* without Unmount or Dispose.
QueryAcquiredFails(t) ==
    /\ pc[t] = "acquired"
    /\ "acquired" \in Faults
    /\ LET lost == {drives[k] : k \in 1 .. Len(drives)}
       IN  /\ drive' = [i \in Ifaces |-> IF i \in lost THEN NoDrive ELSE drive[i]]
           /\ FatFs' = Freed(lost)
    /\ drives' = <<>>
    /\ Goto(t, "available")
    /\ UNCHANGED <<usbVars, lock, locals, reserved, calls>>

\* The drive under the cursor is in the block: it moves to valid_drives.
PruneKeep(t) ==
    LET k == scan[t] IN
    /\ pc[t] = "prune"
    /\ k <= Len(drives)
    /\ drives[k] \in block[t]
    /\ valid' = [valid EXCEPT ![t] = PushValid(t, k)]
    /\ scan' = [scan EXCEPT ![t] = k + 1]
    /\ drives' = [drives EXCEPT ![k] = Moved]
    /\ UNCHANGED <<usbVars, block, mountVars, lock, pc, drive, reserved, FatFs, calls>>

\* It is not: Unmount, then Dispose(true), which closes its USB sessions.
PruneDrop(t) ==
    LET k == scan[t]
        i == drives[k] IN
    /\ pc[t] = "prune"
    /\ k <= Len(drives)
    /\ i \notin block[t]
    /\ \/ /\ drive[i].mounted
          /\ reserved' = Released(i)
          /\ FatFs' = Unregistered(i)
       \/ /\ ~drive[i].mounted
          /\ UNCHANGED <<reserved, FatFs>>
    /\ drive' = [drive EXCEPT ![i] = Disposed(i)]
    /\ usb' = [usb EXCEPT ![i] = Closed(usb[i])]
    /\ scan' = [scan EXCEPT ![t] = k + 1]
    /\ UNCHANGED <<stateChange, available, block, valid, mountVars, lock, pc, drives, calls>>

\* The list becomes valid_drives; the Drive objects left in the old one die.
PruneDone(t) ==
    LET dropped == {drives[k] : k \in 1 .. Len(drives)} \ {Moved} IN
    /\ pc[t] = "prune"
    /\ scan[t] = Len(drives) + 1
    /\ drive' = [i \in Ifaces |-> IF i \in dropped THEN NoDrive ELSE drive[i]]
    /\ FatFs' = Freed(dropped)
    /\ drives' = Kept(t)
    /\ valid' = [valid EXCEPT ![t] = <<>>]
    /\ Goto(t, "available")
    /\ UNCHANGED <<usbVars, block, scan, mountVars, lock, reserved, calls>>

-----------------------------------------------------------------------------
\* UpdateDrives, second half: acquire and mount the interfaces on offer.

QueryAvailable(t) ==
    /\ pc[t] = "available"
    /\ \E b \in Block({i \in Ifaces : usb[i] = "available"}) :
         block' = [block EXCEPT ![t] = b]
    /\ Goto(t, "next")
    /\ UNCHANGED <<usbVars, pruneVars, mountVars, lock, table, calls>>

\* The locals of UpdateDrives end with the call.
Leave(t) ==
    /\ block' = [block EXCEPT ![t] = {}]
    /\ scan' = [scan EXCEPT ![t] = 1]
    /\ cur' = [cur EXCEPT ![t] = Null]
    /\ lun' = [lun EXCEPT ![t] = 0]
    /\ max_lun' = [max_lun EXCEPT ![t] = 0]
    /\ Goto(t, "idle")
    /\ UNCHANGED <<valid, usb, available, table, calls>>

\* Mutant: the state-change event is cleared after the update, not before.
UnlockThenClear(t) == lock' = NoThread /\ stateChange' = FALSE /\ Leave(t)
\* Mutant: a return path that keeps the lock.
UnlockForgotten(t) == Leave(t) /\ UNCHANGED <<lock, stateChange>>
\* The scoped_lock is released on every return path.
Unlock(t) == lock' = NoThread /\ Leave(t) /\ UNCHANGED stateChange

QueryAvailableFails(t) ==
    /\ pc[t] = "available"
    /\ "available" \in Faults
    /\ Unlock(t)

Return(t) ==
    /\ pc[t] = "next"
    /\ block[t] = {}
    /\ Unlock(t)

AcquireUsbIf(t, i) ==
    /\ pc[t] = "next"
    /\ i \in block[t]
    /\ usb[i] = "available"
    /\ usb' = [usb EXCEPT ![i] = "acquired"]
    /\ block' = [block EXCEPT ![t] = @ \ {i}]
    /\ cur' = [cur EXCEPT ![t] = i]
    /\ Goto(t, "setup")
    /\ UNCHANGED <<stateChange, pruneVars, lun, max_lun, available, lock, table, calls>>

AcquireUsbIfFails(t, i) ==
    /\ pc[t] = "next"
    /\ i \in block[t]
    /\ usb[i] # "available" \/ "acquire" \in Faults
    /\ block' = [block EXCEPT ![t] = @ \ {i}]
    /\ UNCHANGED <<usbVars, pruneVars, mountVars, lock, pc, table, calls>>

\* Endpoints, configuration, alternate setting and bulk reset all succeed.
\* GetMaxLUN falls back to one unit when the device does not answer.
Setup(t) ==
    LET i == cur[t] IN
    /\ pc[t] = "setup"
    /\ usb[i] = "acquired"
    /\ \E n \in {1, Len(Luns[i])} :
         /\ n = Len(Luns[i]) \/ "max_lun" \in Faults
         /\ max_lun' = [max_lun EXCEPT ![t] = n]
    /\ lun' = [lun EXCEPT ![t] = 0]
    /\ Goto(t, "lun")
    /\ UNCHANGED <<usbVars, block, pruneVars, cur, lock, table, calls>>

SetupFails(t) ==
    /\ pc[t] = "setup"
    /\ usb[cur[t]] # "acquired" \/ "setup" \in Faults
    /\ Goto(t, "close")
    /\ UNCHANGED <<usbVars, lock, locals, table, calls>>

\* A new Drive on the next unit: its constructor runs the SCSI start-up
\* sequence, and it enters the list before it is mounted.
PushDrive(t) ==
    LET i == cur[t]
        j == lun[t]
        answers == usb[i] = "acquired" /\ Luns[i][j + 1] # "dead" IN
    /\ pc[t] = "lun"
    /\ j < max_lun[t]
    /\ \E s \in {"ok", "failed"} :
         /\ IF s = "ok" THEN answers ELSE ~answers \/ "scsi" \in Faults
         /\ drive' = [drive EXCEPT ![i] = [NoDrive EXCEPT !.live = TRUE,
                                                          !.lun = j, !.scsi = s]]
    /\ drives' = Append(drives, i)
    /\ Goto(t, "mount")
    /\ UNCHANGED <<usbVars, lock, locals, reserved, FatFs, calls>>

\* No unit is left to try.
LunsExhausted(t) ==
    /\ pc[t] = "lun"
    /\ lun[t] >= max_lun[t]
    /\ Goto(t, "close")
    /\ UNCHANGED <<usbVars, lock, locals, table, calls>>

\* Mount failed: Dispose(false) and pop_back.  The index stays reserved.
PopDrive(t) ==
    LET i == Last IN
    /\ drives' = SubSeq(drives, 1, Len(drives) - 1)
    /\ drive' = [drive EXCEPT ![i] = NoDrive]
    /\ FatFs' = Freed({i})
    /\ lun' = [lun EXCEPT ![t] = @ + 1]
    /\ Goto(t, "lun")
    /\ UNCHANGED <<usbVars, block, pruneVars, cur, max_lun, lock, reserved, calls>>

MountNoScsi(t) ==
    /\ pc[t] = "mount"
    /\ drive[Last].scsi # "ok"
    /\ PopDrive(t)

\* FindAndMountAtIndex takes the first free index and f_mount registers the
\* FATFS there.
MountRegister(t) ==
    LET i == Last IN
    /\ pc[t] = "mount"
    /\ drive[i].scsi = "ok"
    /\ \E v \in Volumes :
         /\ FreeIndex(v)
         /\ reserved' = [reserved EXCEPT ![v] = TRUE]
         /\ drive' = [drive EXCEPT ![i] = Placed(i, v)]
         /\ FatFs' = [FatFs EXCEPT ![v] = i]
    /\ Goto(t, "probe")
    /\ UNCHANGED <<usbVars, lock, locals, drives, calls>>

\* All indices taken: Mount returns 0 all the same, so the drive stays listed.
MountNoIndex(t) ==
    /\ pc[t] = "mount"
    /\ drive[Last].scsi = "ok"
    /\ \A v \in Volumes : reserved[v]
    /\ Goto(t, "next")
    /\ UNCHANGED <<usbVars, lock, locals, table, calls>>

\* f_mount: mount_volume reads the boot sector through disk_read, which finds
\* its Drive by mounted index.
MountSucceeds(t) ==
    LET i == Last IN
    /\ pc[t] = "probe"
    /\ \E k \in 1 .. Len(drives) :
         FirstWith(k, drive[i].idx) /\ Readable(drives[k])
    /\ drive' = [drive EXCEPT ![i].mounted = TRUE]
    /\ Goto(t, "next")
    /\ UNCHANGED <<usbVars, lock, locals, drives, reserved, FatFs, calls>>

MountFails(t) ==
    /\ pc[t] = "probe"
    /\ \/ "mount" \in Faults
       \/ \A k \in 1 .. Len(drives) :
            FirstWith(k, drive[Last].idx) => ~Readable(drives[k])
    /\ PopDrive(t)

CloseUsbIf(t) ==
    LET i == cur[t] IN
    /\ pc[t] = "close"
    /\ usb' = [usb EXCEPT ![i] = Closed(usb[i])]
    /\ Goto(t, "next")
    /\ UNCHANGED <<stateChange, available, lock, locals, table, calls>>

-----------------------------------------------------------------------------
Prune(t) ==
    \/ QueryAcquired(t) \/ QueryAcquiredFails(t)
    \/ PruneKeep(t) \/ PruneDrop(t) \/ PruneDone(t)

Acquire(t) ==
    \/ QueryAvailable(t) \/ QueryAvailableFails(t) \/ Return(t)
    \/ \E i \in Ifaces : AcquireUsbIf(t, i) \/ AcquireUsbIfFails(t, i)
    \/ Setup(t) \/ SetupFails(t) \/ LunsExhausted(t) \/ CloseUsbIf(t)

Mount(t) ==
    \/ PushDrive(t) \/ MountNoScsi(t) \/ MountRegister(t) \/ MountNoIndex(t)
    \/ MountSucceeds(t) \/ MountFails(t)

UpdateDrives(t) == Lock(t) \/ Prune(t) \/ Acquire(t) \/ Mount(t)
Wake(t) == WakeStateChange(t) \/ WakeAvailable(t)
Environment == \E i \in Ifaces : Plug(i) \/ Unplug(i)

Next ==
    \/ Environment
    \/ \E t \in Threads : Wake(t) \/ DoUpdateDrives(t) \/ UpdateDrives(t)

Spec == Init /\ [][Next]_vars

\* Both threads are scheduled; nobody is obliged to plug or call anything.
Fairness ==
    /\ WF_vars(Wake(Updater))
    /\ \A t \in Threads : WF_vars(UpdateDrives(t))

FairSpec == Spec /\ Fairness

-----------------------------------------------------------------------------
DriveRecords == [live : BOOLEAN, lun : Nat, idx : Nat, mounted : BOOLEAN,
                 scsi : {"none", "ok", "failed"}]

\* Every variable keeps the shape its C++ declaration gives it.
TypeOK ==
    /\ usb \in [Ifaces -> UsbStates]
    /\ stateChange \in BOOLEAN
    /\ available \in BOOLEAN
    /\ lock \in Threads \cup {NoThread}
    /\ pc \in [Threads -> Labels]
    /\ block \in [Threads -> SUBSET Ifaces]
    /\ valid \in [Threads -> Seq(Ifaces)]
    /\ scan \in [Threads -> Nat]
    /\ cur \in [Threads -> Ifaces \cup {Null}]
    /\ lun \in [Threads -> Nat]
    /\ max_lun \in [Threads -> Nat]
    /\ drives \in Seq(Ifaces \cup {Moved})
    /\ drive \in [Ifaces -> DriveRecords]
    /\ reserved \in [Volumes -> BOOLEAN]
    /\ FatFs \in [Volumes -> Ifaces \cup {Null, Dangling}]
    /\ calls \in Nat

\* The list shows moved-from entries only while the thread that holds the lock
\* is sorting out valid_drives: nobody can dereference them (the callbacks of
\* DoWithDrive* read every entry), not even disk_read during a mount.
ListWhole ==
    (\E k \in 1 .. Len(drives) : drives[k] = Moved)
        => \E t \in Threads : lock = t /\ pc[t] = "prune"

\* f_mount stores through the old FatFs[vol] before replacing it, so an index
\* may be given out again only if no pointer was left behind: the registry
\* slot of a free index is empty.
FreeIndexUnregistered == \A v \in Volumes : ~reserved[v] => FatFs[v] = Null

\* A mounted drive has its index to itself and its own FATFS is registered.
MountedOwnsIndex ==
    \A i \in Ifaces : drive[i].mounted =>
        /\ drive[i].idx \in Volumes
        /\ reserved[drive[i].idx]
        /\ FatFs[drive[i].idx] = i

\* What the list will keep of the drives a pruning thread has seen, and what it has not.
Staying(t) ==
    {valid[t][k] : k \in 1 .. Len(valid[t])} \cup {drives[k] : k \in scan[t] .. Len(drives)}

\* Sectors of a registered volume are read from and written to the device that
\* holds it: the first listed drive with that index is the owner of the FATFS.
\* While the list is being pruned the owner is among the drives that stay, and no
\* other drive that can still talk has the index.
SectorsReachOwner ==
    \A v \in Volumes : FatFs[v] \in Ifaces =>
        /\ (\A t \in Threads : pc[t] # "prune") =>
               \E k \in 1 .. Len(drives) : FirstWith(k, v) /\ drives[k] = FatFs[v]
        /\ \A t \in Threads : pc[t] = "prune" =>
               /\ FatFs[v] \in Staying(t)
               /\ \A i \in Ifaces : drive[i].idx = v /\ drive[i].scsi # "none" => i = FatFs[v]

\* Array, registry and list agree on who an index belongs to, through every failed
\* mount and every drop: the index of FindAndMountAtIndex, the FATFS FatFs[] points to
\* and the drive disk_read finds are one drive's.
IndicesOwned == FreeIndexUnregistered /\ MountedOwnsIndex /\ SectorsReachOwner

Working(i) ==
    \E t \in Threads : pc[t] \in {"setup", "lun", "mount", "probe", "close"} /\ cur[t] = i

\* A Drive talks through open sessions only: Dispose(true) comes once, last.
LiveSessionsOpen ==
    \A i \in Ifaces : drive[i].scsi # "none" => usb[i] \in {"acquired", "orphan"}

\* No interface session is lost: each one belongs to a Drive or to the update
\* in progress, so it will be closed (QueryAcquiredFails is the exception).
SessionsOwned ==
    \A i \in Ifaces : usb[i] \in {"acquired", "orphan"} => drive[i].live \/ Working(i)

\* A mounted drive leaves the table for one of three reasons: its device was
\* unplugged, usb:hs did not answer, or iface_block was full without it.  The
\* snapshot it is judged by may be old, but nothing else makes it wrong.
DropOnlyUnplugged ==
    [][\A i \in Ifaces : drive[i].mounted /\ ~drive'[i].mounted =>
        \/ usb[i] = "orphan"
        \/ \E t \in Threads : pc[t] = "acquired"
        \/ \E t \in Threads :
              pc[t] = "prune" /\ i \notin block[t] /\ Cardinality(block[t]) = DriveMax]_vars

\* A slot of the volume table: free while its index is, otherwise the drive
\* whose FATFS is registered there; lost once that FATFS has been freed.
Slot(v) ==
    IF ~reserved[v] THEN Null ELSE IF FatFs[v] \in Ifaces THEN FatFs[v] ELSE Dangling

Table == INSTANCE VolumeTable
    WITH slot <- [v \in Volumes |-> Slot(v)], Free <- Null, Lost <- Dangling

\* Mounting, unmounting and every failure keep the promises of VolumeTable.
TableSpec == Table!Spec

\* Whoever finds the lock free sees mounted drives only: UpdateDrives pops a
\* drive that "didn't mount correctly" (fspusb_usb_manager.cpp:150).
ListedIsMounted ==
    lock = NoThread => \A k \in 1 .. Len(drives) : drive[drives[k]].mounted

\* An unplugged drive is noticed and its USB sessions are closed.
UnplugNoticed == \A i \in Ifaces : usb[i] = "orphan" ~> usb[i] = "gone"

\* A drive that is plugged in and stays is acquired and mounted.
PlugNoticed == \A i \in Ifaces : usb[i] = "available" ~> drive[i].mounted \/ usb[i] = "gone"

\* No change of state is lost between waitMulti, the clearing of the events and the
\* snapshots of an update, whichever thread makes it.
HotplugNoticed == UnplugNoticed /\ PlugNoticed

\* A forced update ends: the IPC thread gets the lock and gives it back.
CallReturns == pc[Ipc] = "lock" ~> pc[Ipc] = "idle"
=============================================================================
