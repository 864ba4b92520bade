# fsp-usb in TLA+

A verification project for [fsp-usb](../src/README.md), the Nintendo Switch
service that mounts USB mass-storage drives with FatFs and serves them as
filesystems. It holds TLA+ models of the parts that are hard to test (two
threads, a device that fails, drives that are pulled, FatFs state that outlives
its drive), TLC configurations that check them on small instances, and TLAPS
proofs of the main results for every value of the constants.

Paths below are relative to `src/fsp-usb/source/`.

## 1. Inventory

### Components, their state and their operations

| Component | Source | State | Operations |
|---|---|---|---|
| Drive manager | `impl/fspusb_usb_manager.cpp` | `g_usb_manager_drives`, `g_usb_manager_mounted_index_array`, `g_usb_manager_lock`, two usb:hs events and an exit event | `UpdateDrives`, `ManagerUpdateThread`, the `Get...`/`Is...` accessors, `DoWithDrive...`, start and end |
| Drive | `impl/fspusb_drive.cpp` | interface and endpoint sessions, `mounted_idx`, `mounted`, the `FATFS`, the SCSI context | `Mount`, `Unmount`, `Dispose`, sector access |
| SCSI | `impl/fspusb_scsi.cpp` | `SCSIDevice::ok`; `SCSIBlock`: capacity, block size, its own `ok` | `TransferCommand`, `PushCommand`, `ReadStatus`, unit start-up, `ReadSectors`, `WriteSectors` |
| USB requests | `impl/fspusb_request.cpp` | none | posting buffers, endpoint halt, bulk-only reset |
| Disk glue | `fatfs/diskio.cpp` | none | `disk_status`, `disk_read`, `disk_write`, `disk_ioctl`: by mounted index |
| Service | `fspusb_service.hpp` | none | `ListMountedDrives`, `GetDriveFileSystemType`, `Get/SetDriveLabel`, `OpenDriveFileSystem`; each forces `UpdateDrives` first |
| Filesystem, file, directory | `fspusb_filesystem.hpp`, `fspusb_file.hpp`, `fspusb_directory.hpp` | interface ID with the mount name, a `FIL`, or a `DIR` | the fs-srv commands |
| FatFs | `fatfs/ff.c` | `FatFs[]`, `Fsid`, `Files[]` (locks), and per `FATFS` a window, a FAT and counters | `f_mount`, `f_open`, ..., over the FAT and exFAT structures |
| Rest | `fspusb_main.cpp`, `fatfs/ffsystem.c`, `fatfs/ffunicode.c`, `impl/fspusb_utils.hpp`, the `fspusb-test` client | – | start-up, allocation, code pages, logging, a demo client |

### How they interact

Two threads. The **update thread** waits for usb:hs (a matching interface
appeared; an acquired interface changed state) and runs `UpdateDrives`. The
**IPC thread** (`LoopProcess`) serves one command at a time; service commands
run `UpdateDrives` first. `g_usb_manager_lock` is held for the whole of
`UpdateDrives`, for each accessor, and for each callback of `DoWithDrive`.
FatFs is compiled without reentrancy (`FF_FS_REENTRANT 0`) and relies on that
lock, which commands on paths hold around a FatFs call; commands on open files,
open directories and labels do not hold it, nor do the destructors.

FatFs calls back down: `disk_read` and `disk_write` find their drive *by mounted
index* (`DoWithDriveMountedIndex`), retaking the lock, and go through
`SCSIBlock::ReadSectors` to `SCSIDevice::TransferCommand` and the device. So an
object of one layer names one of the next by something that may be reused:
`DriveFileSystem` by mount name (index), a `FIL` by the address of a `FATFS` and
its 16-bit id, a `FATFS` by index, `Files[]` by `FATFS` address, `FatFs[]` by the
address of a `FATFS` inside a `Drive` on the heap.

### What is hard, and what makes each component correct

* **Manager**: two threads in `UpdateDrives`; a query or any step of acquisition
  failing; stale snapshots; events and when they are cleared. Correct when the
  list never shows moved-from entries to another thread, an index and its
  `FatFs[]` slot have one owner and no pointer to a freed `FATFS` is used, a drive
  is dropped only if it was unplugged, sessions are closed exactly once, plugging
  and unplugging are noticed.
* **SCSI transport**: lost posts, retries in mid-transfer, a device left in its
  data phase. Correct when a good status means good data, the buffer is not
  overrun, host and device agree on whose turn it is, transfers end.
* **Access to drives**: a drive is dropped, or replaced, between the sections of a
  command. Correct when no command touches another drive, none reports success
  without having run, and all end.
* **FatFs locks**: open, close, delete and rename in any order, closes that fail,
  volumes that go and come back. Correct when writers are alone, open files stay,
  and a lock is held by somebody who will give it back.
* **FatFs allocation**: FAT, bitmap, counts and entries are changed one sector at a
  time through one window; on exFAT the chain of an open file is partly only in its
  `FFOBJID`. Correct when no cluster has two owners, none is marked without one, and
  a pull costs clusters at most.
* **FatFs directories**: names are spread over several entries, in several sectors,
  while other handles read on. Correct when a name leads to what it was made for,
  nothing of a removed name stays, and a rename never loses the object.
* **FatFs file access**: a sector buffer written back late, transfers that pass it
  by, a full volume, sizes at the 4 GiB limit. Correct when every byte is read as
  written, in memory while the file is open and on the drive once it is closed.
* **Units and volumes**: a unit that fails at start-up, reads that fail without
  anyone noticing, partition tables, parameters that do not fit, integers that wrap.
  Correct when what is mounted is the medium's first volume with its own parameters
  and areas that lie inside it, and commands name the sectors that were asked for.

The hazards are listed one by one, with their lines and the properties that
watch them, in `PROJECT.json` under `hazards`.

## 2. Modules

| Module | Models | Role |
|---|---|---|
| `UsbManager` | manager, `Drive`, `FatFs[]` | both threads, statement by statement |
| `VolumeTable` | – | abstract: what a volume number promises |
| `ScsiTransport` | `SCSIDevice`, sector functions | host against an external bulk-only device |
| `ScsiCommand` | – | abstract: what `TransferCommand` promises |
| `DriveAccess` | service, filesystem, file and directory commands, `validate` | IPC thread by lock sections; composed with the manager through `VolumeTable` |
| `FatLock` | `Files[]` and its callers, mounts | IPC and update thread |
| `FatAlloc` | `create_chain`, `remove_chain`, FAT, bitmap, FSINFO, the window, and the calls that use them | one call after the other, window step by window step, with pulls |
| `ClusterOwners` | – | abstract: each object has a sequence of clusters of its own |
| `FatDirectory` | `dir_alloc`, `dir_find`, `dir_register`, `dir_remove`, `dir_read`, `store_xdir` and the calls that use them | one table, entry by entry, with an open directory and pulls |
| `FatFile` | `f_read`, `f_write`, `f_lseek`, `f_truncate`, `f_sync`, `f_close`, as `DriveFile` calls them | contents of one file, turn by turn |
| `VolumeMount` | `SCSIBlock`, `find_volume`, `mount_volume`, sector addresses | from start-up of a unit to its mounted volume |
| `MC...` | – | bounds and definitions for TLC |
| `...Proofs` | – | theorems about the module |

The composition: `UsbManager` implements `VolumeTable` (property `TableSpec` of the
run `usb_safety`), and `DriveAccess` *instances* `VolumeTable`, whose `Claim`, `Release`
and `Lose` are the only ways its drives come and go. What `DriveAccess` shows
therefore rests on what the manager was checked to keep. `Lose` is a failed
`usbHsQueryAcquiredInterfaces`: every `Drive` is freed without being unmounted, so
its index stays taken and `FatFs[]` keeps pointing to the freed `FATFS`.

### UsbManager

Variables and code: `drives` is `g_usb_manager_drives`, `reserved` is
`g_usb_manager_mounted_index_array`, `FatFs` is `FatFs[]` of `ff.c`, `drive[i]` the
members of i's `Drive`; `block`, `valid`, `scan`, `cur`, `lun` and `max_lun` are the
locals of `UpdateDrives` of each thread; `pc` is where it is. `usb` is the view of
usb:hs: *absent, available, acquired, orphan* (unplugged with the session open),
*gone*. One action per call that can fail or statement that changes shared state:
`QueryAcquired...`, `PruneKeep/Drop/Done`, `QueryAvailable...`, `AcquireUsbIf...`,
`Setup...`, `PushDrive`, `Mount...`, `CloseUsbIf`. `Plug` and `Unplug` happen
anywhere in between.

Assumed of usb:hs and the libraries, which are outside `src/`: the mutex is
recursive (`disk_read` takes it again under `UpdateDrives`); a query answers at
most as many entries as the block has room for; an ID is not reused after its
device is gone; closing an interface does not signal the available event.
`Dangling` is the address of a `FATFS` that was freed with its `Drive`.

### ScsiTransport

Data is counted in the 32 KiB chunks of the loop; `image[j]` says which chunk ended
up at place j. `cmd.dtl` is the length field a retry shrinks, `total` is
`total_transferred`, `attempt` the retry counter, `ok` is `SCSIDevice::ok`. A post
may fail before or after the device acted on it. Assumed of the device: one that
does not wait for a command stalls the wrapper; after a stall either clearing the
halt is enough or a reset follows; every post returns; a reset may fail. `lost` is a
history variable: how posts of this command failed. The
branch for a status that comes early (`impl/fspusb_scsi.cpp:383-391`) has no action: it needs a
chunk of 13 bytes, and none is asked for (replies of 18, 8 and 32 bytes, sectors of 512
and more).

### DriveAccess

A command is a sequence of steps (`op.step`), each a section of the lock or, outside it, a
read that the update thread may get in before. Filesystem commands: `Check`, `LookUp`, one
section per FatFs call (`PathBody`, `OpenDir`, `ReadDir`, `Unlink`, `CloseDir`).
Files and labels run FatFs without the lock: `Validate` compares type and id of the `FATFS` a
`FIL` points to (`fatfs/ff.c:3608`); `ReadPdrv` reads its index and `Status` takes the
lock and asks whatever drive has it (`disk_status`); each sector is an `Address` (`fs->pdrv` is
read again) and a `Sector` (`DoWithDriveMountedIndex`); `SecondCall` validates again. A label
looks its `FATFS` up (`FindFs`, `TestType`), and if the unit does not answer mounts it anew in
place (`MountAgain`, `Initialize`, `Remount`). Between any two steps drives are plugged,
unplugged, attached, dropped and lost, and the heap block of a freed `Drive` may
hold the next one. `mem[b]` is the `FATFS` in a block: type, id and index; which mount
it is, is a history. `Fsid` wraps at `IdWord` (2^16).

Simplified: freed memory is only reused for another `Drive`; zeroing and mounting a `FATFS` are
seen before or after, not half done; a label that writes into the `FATFS` of another drive is not
followed on (step `astray`). A drive listed without an index is left out: a
session on it names no volume, and FatFs refuses its paths.

### FatLock

`Files`, `fsid` and the fields of `handle` (a `FIL` or `DIR`: `fs`, `id`, `lockid`) are
the code's; `tree` is the directory tree as far as `f_unlink`, `f_rename` and
`f_mkdir` change it. An object is keyed as in the code: directory entries by start
cluster of their directory and offset, an *open* directory by its own start cluster
and offset 0. Path calls are atomic, since they run under the lock; `f_close` and
`f_closedir` come from destructors and are three steps (`Sync`, `Validate`,
`Release`) between which `Mount`, `Unmount` and `Lose` may happen. A handle that is
`left` is a `FIL` whose destructor ran but whose `f_sync` failed, or whose
append-seek failed in `f_open`: nobody can close it, its lock stays.
`FewHandles` assumes fewer than 256 open objects: `inc_lock` does not bound a read
count, and 0x100 is the mark of a writer.

The last four modules take the layers of FatFs apart. Each leaves to the others what
they show: `FatFile` assumes that the clusters of a chain are the file's own
(`FatAlloc`) and that a file open for writing is open once (`FatLock`); `FatDirectory`
leaves out what calls do to chains; `FatAlloc` leaves out names and data; all three
start from a mounted volume, and `VolumeMount` is how it comes to be one.

### FatAlloc

`fat`, `bitmap` and `entry` are the volume as FatFs sees it through its window, `disk`
is what the drive holds, `win` is `winsect` with `wflag`. `Visit` is `move_window`,
`Modify` is `move_window` and a change, `SyncFs` is `sync_fs`. A call is a chain of steps
(`call.pc`), each one change of the window; `Pull` takes the drive away between any
two and mounts it again as it was left. `obj` is the `FFOBJID` with `stat`, `n_cont` and
`n_frag`, `file` the `FIL`. Sizes and file pointers are in clusters, rounded up; sectors of
data and the codes returned are left out. A volume that a pull left with shared or
free clusters in a chain, or a chain that does not end, is not followed further (guard
`Sound`): FatFs has no repair and what it does then follows from nothing. (The last of the
three is the pull between two FAT entries of an exFAT file's last fragment, in `f_sync`: the
bitmap has its clusters, the FAT a chain that stops short, and after the next mount
`create_chain` or `remove_chain` meets its end and answers `FR_INT_ERR`.) FAT16 is FAT32 without FSINFO; FAT12 differs in
how a cell is packed, which may straddle two sectors, and is not instantiated. The
bitmap fits into one sector.

`PullLosesClustersOnly` names the exceptions: `f_rename` between its two entries (the
source's comment calls it the critical section), a file that was cut and is not closed
yet, and on exFAT a file being stretched (its `n_frag` is only in memory).

### FatFile

Bytes are numbers of the write they come from (0: never written), so that
`content`, the history of what was written, can be compared with `FIL.buf` and the
drive. `ReadTurn` and `WriteTurn` are one turn of the loops of `f_read` and `f_write`;
`f_lseek` and `f_truncate` are one step, as nothing can be seen in between. `Word` is
2^32. Other files take and give back clusters between calls (`OthersTake`, `OthersGive`),
so that a late write-back into a cluster given up is seen. No transfer fails here: what
becomes of one that does is `ScsiTransport`'s.

### FatDirectory

`table` and `disk` are the table as FatFs sees it and as the drive has it; `dirty` is the
window's sector while `wflag` is set. A call looks its names up in one step and
then works off `todo`: linking and clearing a new cluster, writing or removing one entry,
syncing. Short names stand for their checksum (collisions of `sum_sfn` are left
out), a set's sum is what it is taken over. `made` is a history of which entry and object
each name was made for. One handle reads on in between (`rd`). The table is the root's;
the fixed root of FAT16 is a chain that cannot grow. Left out: sub-directories of exFAT,
whose growth rewrites their own set in the parent; dot entries; labels; a second write
to the same file. A drive that was pulled between linking and clearing a cluster is not
followed further.

What was met on the way, and stands in the properties as an exception: an exFAT set
across two sectors can be left half written by a pull, and every look-up past it then
answers `FR_INT_ERR`; a file made by `f_open` and not closed can be torn in this way for as long
as it is open; a handle that stands inside a newly allocated run of long-name entries
reports the short name; a delete on FAT that a pull cuts short leaves the short name alone.

### VolumeMount

`TestUnitReady` ... `ReadCapacity16` are the constructor of `SCSIBlock`; `Mount`, `Sector0`,
`Gpt...`, `Mbr...` are `find_volume` with `check_fs`; `FatVolume`, `FsInfo`, `ExfatVolume`,
`FindBitmap` and `Contiguous` are `mount_volume`; `Access` and `Refused` are any later
call. Any command may fail; a failing READ is not reported (`SCSIBlock::ReadSectors` drops
the status), so the window keeps its old content under the new sector number. A medium
is a record for each sector that matters. Assumed: block lengths up to 2^16 (`disk_ioctl`
answers 16 bits), fields of sectors that have their widths, shifts in an exFAT boot sector
below 32, and that no sector of another kind looks like a directory or a table.

Met on the way: the `FATFS` of a new `Drive` is uninitialised memory, so a very first read that
fails unnoticed mounts what the heap held there, if that was a boot sector (exception in
`MountTrue`, constant `Heap`); an exFAT volume of 2^32 sectors or more is not checked to fit,
since the product wraps, and neither is a FAT volume whose FATs have 2^32 sectors or more
(exceptions in `AreasInVolume` and `BitmapContiguous`; of an exFAT volume neither the place nor
the length of the FAT is checked, nor claimed); the capacity is
one block short, but only logged; a unit that was lost never comes back, since both `ok`
flags are never set again.

## 3. Runs

| Run | Instance | Shows |
|---|---|---|
| `usb_safety` | 3 drives (FAT; second unit FAT; a dead unit before one without FAT), 2 indices, room for 2 in `iface_block`, every call may fail, one forced update | the list is whole outside the pruning (`ListWhole`); a free index has no registered `FATFS`, mounted drives own index and slot, sectors reach their owner (`IndicesOwned`); listed drives have open sessions (`LiveSessionsOpen`); a mounted drive only leaves when it was unplugged, the query failed or the block was full without it; `VolumeTable` is implemented |
| `usb_live` | 2 drives, 3 indices, no faults, fair | no session is lost, plugging and unplugging are noticed, forced updates return |
| `scsi_safety` | 3 commands of up to 4 chunks, 4 failing posts, fair | buffer bounds, exact data behind a status unless a retry resumed, what a status and a missing one mean for the device (`EndsInStep`), what retries recover, `ScsiCommand` is implemented, transfers end |
| `access_safety` | 3 drives, 2 indices, 2 heap blocks, 2 ids, 2 entries or sectors | paths stay on the session's drive; what passes the id check is the mount the file was opened on, while the ids tell mounts apart; files and labels reach another drive only once their own has left the list |
| `lock_safety` | 2 volumes, 3 handles, 2 lock entries, 2 mounts, one sub-directory | writers alone, open files stay; locks lead to their own object, refusals are justified, check and registration agree (`LocksRight`) |
| `alloc_safety` | FAT32, exFAT; 4 clusters, 3 entries a sector, 2 files, 4 calls, 1 pull | marks and chains agree and no call meets one that does not fit (`AllocationExact`), the free count is right, closed files are on the drive, a pull loses clusters only, `ClusterOwners` is implemented |
| `file_safety` | FAT and exFAT; 2 clusters of 2 sectors of 2 bytes, 3 calls, 2 clusters changing hands | pointer, buffer and drive together hold what was written (`BytesKept`), reads return it, FAT sizes fit, closed files are on the drive, other files are left alone (`OthersUntouched`) |
| `dir_safety` | FAT32 and exFAT; 3 names that collide, 3 sectors of 3 entries, 4 calls, 1 pull (not followed between linking and clearing a cluster) | names lead to their objects; removed names leave nothing (`TableSound`); the drive has the other names, and renamed objects, at all times (`DiskKeepsNames`); only sets across sectors are torn; handles report every entry that stays, once, under a name that leads to it (`ReadersRight`) |
| `volume_safety` | some 360 media, 5 block lengths, 2 failing commands, 2 calls | no unit without a size is read; the first volume is found and a well formatted one mounted (`FirstVolumeMounts`); its parameters are its own (`MountTrue`); its areas lie in it (`LaidOut`, but for what section 2 excepts); commands carry the address asked for |
| `usb_index_leak`, `access_never_ends`, `file_flush` | as above, smaller | disagreements with comments and documents, see Findings |

Some properties are named conjunctions of the parts that are commented in the modules,
for instance `IndicesOwned` of `FreeIndexUnregistered`, `MountedOwnsIndex` and
`SectorsReachOwner`.

**Why the bounds are enough.** *usb*: two indices for three drives make indices run
out and be reused; three drives with different units reach every branch of the
mount loop; with two indices taken the third drive is listed all the same, so the list is longer than
`iface_block` and the full block occurs; one forced update overlaps any number of event-driven ones. `usb_live`
has an index more than drives because each failed mount loses one for good (finding
1), and no failing calls because usb:hs does not signal again after a failure, so
nothing would be noticed until the next event. *scsi*: four failing posts are one
more than the attempts, four chunks let a retry resume twice with something left.
*access*: with two of everything a dropped drive's index and its memory can be taken
over together or separately, by one drive after another; the third mount has the id of the
first, so that `Fsid` wraps (1.06 million states). *lock*: two entries are filled by two handles, so the third
meets a full table; two mounts let one volume be mounted again over old handles, or
two share the table. *alloc*: four clusters on two FAT sectors let two files
interleave, so exFAT's first and last fragment, the wrap of the search and a full volume
occur, and one call touches two FAT sectors; four calls are enough to make, interleave,
cut and remove; FAT16, which is FAT32 without FSINFO, is left to the theorems. *file*: two bytes in a sector and two sectors in a cluster are the least
with partial sectors, whole sectors and transfers clipped at a cluster; the volume
is full after two clusters, and `Word` = 6 puts FAT's limit inside the second. *dir*: two
long names share the short name and first piece, the third is the number generated for
them; runs and sets of three and four entries cross sectors of three and stretch a
table of one. *volume*: the limits of the FAT types are 4, 8 and 16 clusters, an integer wraps
at 256 and a count at 32, and there are media on both sides of each; two failures cover
a unit that fails at start-up and a read lost after that. The runs of the last four
have 60 to 550 thousand states and take up to two minutes each.

Symmetry is used for drives, blocks, volumes, handles and files in `access_safety`,
`lock_safety` and `alloc_safety`
(safety only). Deadlock is not checked in any run: every system may rest when
nothing is plugged, called or left to do within the bounds.

**Fairness.** Weak fairness of the steps of a thread that has work: the update
thread's wake-up and each thread's steps of `UpdateDrives` (both threads are always
scheduled, the mutex is contended by two threads that release it), the steps of a
transfer (`usbHsEpPostBuffer` returns), the steps of an IPC command (`LoopProcess`
does not abandon one). No fairness of plugging, calling or failing. In `usb_live`
the lock has weak fairness only: it suffices, because the other thread
eventually runs out of work in a bounded instance. The FatFs modules and `VolumeMount`
state no fairness: their loops run over a chain or a table that is finite in the model by
construction, so that they end would say nothing of the code.

Every property of a passing run has a mutant, a plausible faulty form of a modelled
operator (`PROJECT.json`, `mutants`), that violates it. Type invariants (`TypeOK`) are
not checked by the runs where they are theorems.

## 4. Findings

1. `usb_index_leak` – `Drive::Mount` keeps its index when `f_mount` fails
   (`impl/fspusb_drive.cpp:18`): after five updates with a drive that cannot be mounted no
   index is left, and from then on every drive is listed without being mounted.
2. `access_never_ends` – a recursive delete whose drive is dropped loops for ever
   and blocks the service (`fspusb_filesystem.hpp:45`).
3. `file_flush` – `Write` answers success while its last bytes are only in `FIL.buf`, and
   `Flush` does nothing, although the comment says that everything is written right away
   (`fspusb_file.hpp:59`).

Further disagreements are stated as properties without a run; each is violated
when it is added to the cfg named:

* `OkMeansDone` (`ScsiSafety.cfg`) – `disk_read` and `disk_write` answer `RES_OK` for
  failed transfers (`impl/fspusb_scsi.cpp:592`).
* `OkMeansServed`, `FilesStayOnDrive` and `FatFsUnharmed` (`AccessSafety.cfg`) – a command
  whose drive is dropped after the check succeeds without having run
  (`fspusb_filesystem.hpp:115`); a file or label command in progress goes on with the sectors of
  another drive, even from its `validate` on: the drive can be dropped and its index given
  away between the comparison of the ids (`fatfs/ff.c:3608`) and `disk_status`; a label
  command can mount in a `FATFS` that is another drive's by now (`fatfs/ff.c:3413`).
* `OpenObjectsStay` (`LockSafety.cfg`) – an open sub-directory can be removed
  (`fatfs/ff.c:4954`).
* Not against a document, but worth knowing: with more listed drives than `DriveMax` a
  plugged, mounted drive is dropped (`impl/fspusb_usb_manager.cpp:34-36`); it is one of the three
  reasons `DropOnlyUnplugged` allows.

## 5. Proofs

All theorems hold for every value of the constants that satisfies the named
assumptions, and are checked by TLAPS to the last leaf. Type correctness is a theorem of
every module: of `FatAlloc` it is part of `MarksExact`, of `FatDirectory` of `TablesStaySound`.

* **`UsbManagerProofs`**. None of the properties is inductive alone: that a free index
  has no registered `FATFS` depends on which drives are in the list while it is half
  pruned. The invariant adds mutual exclusion (`MutexInv`), who holds open sessions
  (`SessionInv`: the interface being worked on is not closed by anybody else), the
  shape of the list at each point of `UpdateDrives` – whole outside the pruning, whole
  from the cursor on inside it, the drive under mount last – (`ListInv`) and the owner
  of every registered `FATFS` (`RegistryInv`): `TypeCorrect`, `FreeIndexSafe`,
  `IndexOwnership`, `ListSafe`, and with `LiveInv` `SessionsOpen`. That the sectors of an
  index come from its owner (`SectorsRouted`, `IndicesSafe`) needs the *first* drive of
  the list with that index, while the pruning moves drives over one another
  (`RouteInv`: `Settled` outside it, `Pruning` inside); during the pruning the owner is among
  the drives kept or still to be looked at, and nobody else who can talk has the index
  (`DisposedInv`: what was sorted out cannot).
  `SessionsKept`, no session is lost, holds only if usb:hs answers the query of acquired
  interfaces, which the theorem states as an assumption on the constants (`OwnedInv`: behind
  its cursor the pruning leaves only closed drives). `DropsJustified` needs no
  assumption: a mounted drive goes when it was unplugged, when the query failed, or
  when the block was full without it (`SnapshotInv`: a snapshot that is not full names every
  interface that is acquired).
  `ImplementsTable` is the refinement of `VolumeTable`: a `FATFS` freed with its drive
  is `Lose`, `f_mount` is `Claim`, `Unmount` is `Release`, and nothing else touches the table.
* **`DriveAccessProofs`**, which rests on `VolumeTable`: `TypeCorrect`, `PathsOnDrive`,
  `StraysUnlisted` and the action property `OnlyOwnValidated`. Listed drives have a block and a
  mount of their own (`Housed`, `Apart`), ids are the numbers of the mounts modulo the
  word (`Numbered`), a session's index is right as long as its drive is listed
  (`Sessions`), a `FATFS` in the block of a file is no older than the file, and if it
  is the same mount its index is the drive's or lost (`HandleOwn`). `Steps` says what a command
  has read by each of its steps, which is true while its drive is listed and whatever else came
  or went; that is all `StraysUnlisted` needs, for a drive that left is never listed
  again. `OnlyOwnValidated` stops at the id check: that the drive is still there when
  `disk_status` asks is false of the code (section 4).
* **`ScsiTransportProofs`**: `TypeCorrect`, `BufferSafe`, `ExactTransfers`,
  `DeviceLeftInStep`, `RetriesSuffice`, and the refinement `ImplementsCommand`. The
  invariant relates `total`, the length field and the device's position in each
  phase, and counts the attempts against the posts that failed.
* **`FatLockProofs`**: `TypeCorrect`, `NoSecondWriter`, `OpenFilesSafe`, and
  `TableTruthful` with its parts `LocksSafe`, `RefusalsJustified`, `ChecksSuffice`. The heart
  is `Counted`: the entry of an object of a *mounted* volume has as many holders as its
  count says, or one holder that writes. It needs unique entries (`Entered`), handles
  that lead to their own entry (`Held`), ids of old mounts never becoming current
  (`Numbered`), and for the `dec_lock` that comes after its volume went away, that the
  entry it works on belongs to no mounted volume (`OneClosing`).
* **`VolumeMountProofs`**, all five properties. `UnsizedSafe`, for block lengths `disk_ioctl`
  can answer (`BlocksShort`), and `TypeCorrect`. `MountedTruly`: for each place of
  `find_volume`, `TruthInv` says which kind of sector a window left stale by
  unnoticed failures can still hold, so that a boot sector taken for a volume's is one.
  `AddressesSafe` (`AddressedExactly`) and, but for the bitmap, `LaidSafe` (`LaidOut`) hold under
  any failures too: `PlaceInv` follows the numbers of a sector (typed by their widths, `MediaTyped`) from
  the partition table to the `FATFS`, and the lemmas on the areas (`FatSizes`, `EntriesFit`,
  `FatAreas`, `ExAreas`) are what the quotients and remainders of `mount_volume` come
  to. For the bitmap of an exFAT volume (`BitmapInv`) and for `FirstSafe`
  (`FirstVolumeMounts`) nothing may have failed, so that the window holds the sector it is
  said to hold (`CleanInv`): `FirstInv` is that the places passed have no
  volume, for GPTs of any length, and `WellFormedSound` that no check of `mount_volume`
  is stricter than the format.
  Two assumptions are about constants of the code: a cluster has at most 2^16 - 1 sectors
  of at most 2^12 bytes, which 32 bits count, and a sector is a whole number of directory
  entries (`SectorsShort`). Proving it showed that `fasize` and `sysect` are 32-bit and may
  wrap, for a boot sector with, say, `fatsz` 2^31: a volume like that passes every check and
  its FATs overlap its clusters. `AreasInVolume` therefore requires the order only
  of FAT volumes with less than 2^32 sectors before the clusters, and the end only of exFAT
  volumes with less in them; where an exFAT volume has its FAT, and how long it is,
  `mount_volume` does not check and `LaidSafe` does not say. Media that wrap are in the run.
* **`FatAllocProofs`**, all four invariants and the refinement, for any number of clusters,
  files, calls and pulls, and any layout of FAT and directory over sectors.
  `DriveLagsByWindow` (`LagInv`): the drive differs from what FatFs sees at most in the
  sector of the window. The rest is one inductive invariant, `AllocInvariant`.
  The properties speak of chains as FatFs walks them, and a step that writes one FAT entry
  changes what every walk could yield; so the invariant takes the chains as data.
  `AllocInv` says that there are a sequence of clusters `o[s]` for each slot and a
  rest `r` of a chain being removed with `IInv(o, r)`:
  chains and rest share no cluster and all of theirs are marked (`ChainsOK`); an
  open file holds its chain, its first run, the part on the FAT and the last fragment
  put together (`Held`), or what a removal leaves of it (`Shrinking`), and the entry of a
  closed one stands for it (`Laid`); an entry nothing waits for is laid on the FAT FatFs
  sees (`Kept`), and one no call touches on the drive's (`OnDisk`); the call is where it says
  in chain and rest (`CallOK`); whatever is marked is in a chain, in the rest, or the one
  cluster in between (`Marks`), and the free count is off by just what a call has marked
  and not counted (`Count`); and the drive is sound if nothing is torn (`DiskSound`).
  That the walk yields these chains is proved once (`ChainIs`), from the function
  that defines `Walk` (`WalkOf`, `WalkChain`). Each action has its lemma `Step...`, which names
  the chains after the step: the same, one cluster more, cut at a place, or handed on
  (`Moves`). `MarksExact` (`AllocationExact`, with the types and the absence of
  `FR_INT_ERR`), `FreeCountExact`, `ClosedOnDisk`, `PullSafe` and `ImplementsOwners`, the
  refinement of `ClusterOwners`, follow. The bounds on `n_frag` and `n_cont` in `TypeOK` are a
  conjunct of their own (`Small`), as both counts outlive the handle they were made for.
  Looking for the invariant showed what four calls in the run do not reach: a drive pulled while a last
  fragment is being written (see section 2) was followed on, and the next call could end
  with `FR_INT_ERR`.
* **`FatFileProofs`**, all five properties. `TypeCorrect`; `SizesFit`, for lengths and
  offsets of 32 bits: in the middle of a write the pointer plus what is left to write is
  below `Word` (`FitInv`). `PointerSafe` (`PointerInCluster`) and `OthersSafe`
  (`OthersUntouched`) rest on `PlaceInv`: the chain visits no cluster twice and none of
  another file, and the pointer, taken apart into cluster of the chain, sector and byte
  (`Place`), is where `clust` and `sect` say it is; a dirty buffer's sector is in the file's
  own chain. Without the last a flush after `f_truncate` could write anywhere: that `CutStep`
  and `SoughtPlaced` keep it is the core of the argument.
  `BytesSafe` (`BytesKept`), `ReadsRight` (`ReadsWritten`) and `ClosedSafe` (`ClosedIsWritten`)
  add `DataInv`: each byte written is in the buffer if that has its sector and is dirty, else
  on the drive; a buffer that is clean agrees with the drive; and once `modified` is not
  set outside a write, buffer and size are there. That a byte has one place, whichever way a
  chain has grown or was cut (`InSector`, `SameSector`), and that two bytes share a place only if
  they are one, is what lets a transfer past the buffer leave the rest alone.
* **`FatDirectoryProofs`**, for any set of names, size of table, number of calls and pulls, on FAT
  and exFAT. Between the first and the last write of a call the table is not sound at all: a
  cluster is linked before it is cleared, a run is written piece by piece, its short name
  last on FAT and first on exFAT, a rename has two entries of one object. An invariant that
  describes these tables would list every order of every call; `DirectoryInvariant` looks forward
  instead. `Plan(table, todo, ln, f)` says of the steps that are left that each
  fits (an entry is put inside the table, nothing behind a free place before that is
  filled), that none undoes another, and that all together make the table `f`. `f`
  is `Good` while nothing was pulled: every head (short entry or `85`) has
  the block of one name in front of it or behind it (`Headed`), every piece is part of a
  block (`Owned`), two blocks are disjoint and have different texts and short names (`Apart`),
  and each name that was made has its block, object and place (`Settled`). A step that is
  done keeps the plan for the rest (`StepInv`), so only the beginning of a call has to be
  argued: what `dir_register` will write where `dir_find` found nothing
  clashes with no block (`NewBlock`), what `dir_remove` clears is a whole one (`RemovedBlock`), and
  a rename is one after the other. On any table, pulled or not, the drive lags by the sector of the
  window and nothing lies behind the end mark. Of the directory that is read the
  invariant keeps which entries of `stay` are behind it (`Reader`) and that the name it gave
  last hits its entry and no earlier one (`Held`), also if it stood in the
  middle of what became a run later and gave the short name.
  Follow `TablesStaySound` (`TableSound`), `ReadersStayRight` (`ReadersRight`) and `NamesKeepLeading`:
  `NamesLead` for all states in which nothing was pulled. Its hypothesis `OneSpelling`, that no two
  names of the instance are spellings of one text, belongs to the bookkeeping, which
  records an object for each name; the run's names satisfy it. The assumptions on names
  are what `create_name` and `gen_numname` guarantee: a text determines its short name and
  whether that is exact, and a text that *is* a short name is its own.
* Small facts several of these need: a non-empty set of positions has a first one (`LeastOf`, from the
  well-foundedness of the naturals), and quotient and remainder for divisors that
  are no literals (`DivMod`, `DivUnique`).

Only model-checked: liveness (`HotplugNoticed`, `CallReturns`, `Returns`),
which the prover cannot treat; and of `FatDirectory`
`NamesLead` after a pull, `DiskKeepsNames` and `TornOnlyAcrossSectors`, which are about what a
pull leaves of a call half done: they need every prefix of the writes of every call as the drive
has it, which the invariant, looking forward, was made not to describe. No module has a
RECURSIVE operator.
## 6. Not modelled, and why

* Command wrapper layout, endpoint requests, logging, allocation wrappers, code-page
  tables and case folding (15 600 of the 26 400 lines), result-code tables, the test
  client: no state of their own.
* `create_name`, `gen_numname` and `get_fileinfo`: how names are spelled. `FatDirectory` takes
  their results (long name, short name, flags) as given.
* `f_mkfs` and `f_fdisk`: compiled out. `f_getlabel`, `f_setlabel`, `f_utime`: entries like
  any other, without a consequence for the rest.
* FAT12 allocation (mounting FAT12 is modelled), sub-directories of exFAT, see above.
* Start-up and shut-down of the manager: before and after all concurrency.
  `LoopProcess` does not return.

What is modelled is about 37 % of the code outside `ffunicode.c`.

## 7. Plan

Done: 1 `UsbManager` with `VolumeTable`, 2 `ScsiTransport` with `ScsiCommand`,
3 `DriveAccess` on `VolumeTable`, 4 `FatLock`, 5 `FatFile`, 6 `FatAlloc` with
`ClusterOwners`, 7 `FatDirectory`, 8 `VolumeMount`, each with its run; proofs as in
section 5.

What could come next: theorems about what a pull leaves of a directory; a module of the names (`create_name`, `gen_numname`); exFAT sub-directories in `FatDirectory`;
FAT12 cells.
