------------------------------ MODULE VolumeMount ------------------------------
(***************************************************************************)
(* From a SCSI unit to a mounted volume: SCSIBlock's constructor asks the  *)
(* unit whether it is ready and how large it is, Drive::Mount has FatFs    *)
(* look for a volume on it (sector 0, a GPT, an MBR), read its parameters  *)
(* and lay out its areas, and every call after that comes by mount_volume  *)
(* again, and by the READ and WRITE commands that carry a sector address.  *)
(*                                                                         *)
(* A sector is read into the one window, fs->win.  A READ that fails is    *)
(* not reported (SCSIBlock::ReadSectors drops the status, ScsiTransport):  *)
(* the window keeps what it held, under the number of the sector asked     *)
(* for.  What is on the medium is a record for each sector; the widths of  *)
(* integers and FatFs's limits on clusters are constants, so that TLC can  *)
(* go by all of them in small.                                             *)
(***************************************************************************)
EXTENDS Integers, Sequences

CONSTANTS
    Media,        \* the media: [size, sector], a content for some of the sectors
    Heap,         \* contents a sector buffer may have that was never read into
    BlockSizes,   \* block lengths units report
    MinSS, MaxSS, \* FF_MIN_SS, FF_MAX_SS
    SZDIRE,       \* bytes of a directory entry
    MaxFat12, MaxFat16, MaxFat32, MaxExFat,
    Word,         \* 2^32: DWORD and the LBA of READ(10)
    CountWord,    \* 2^16: the count of READ(10) and WRITE(10), csize
    MaxFaults,    \* bound: commands that fail
    MaxCalls      \* bound: calls after the mount

ASSUME MountAssumption ==
    /\ {MinSS, MaxSS, SZDIRE, MaxFat12, MaxFat16, MaxFat32, MaxExFat, Word, CountWord} \subseteq Nat \ {0}
    /\ BlockSizes \subseteq Nat
    /\ MaxFaults \in Nat /\ MaxCalls \in Nat
\* disk_ioctl answers a block length in 16 bits: of longer blocks than that FatFs would
\* take the remainder for their length.
ASSUME BlocksShort == BlockSizes \subseteq 0 .. CountWord /\ MaxSS < CountWord

\* In 16 bits.
PowerOf2(n) == n \in {1, 2, 4, 8, 16, 32, 64, 128, 256, 512, 1024, 2048, 4096, 8192, 16384, 32768}

\* The fields of a sector have their widths; a FAT volume has its csize in a byte, and a
\* sector has as many entries of a GPT as there is room for.
Numbers(w, fields) == \A x \in fields : w[x] \in 0 .. Word - 1
SectorTyped(w) ==
    /\ w.kind = "fat" => /\ Numbers(w, {"bps", "fatsz", "nfats", "rootent", "tsect", "nrsv", "ver", "fsinfo", "root"})
                         /\ w.csize \in 0 .. CountWord - 1
    /\ w.kind = "exfat" => /\ Numbers(w, {"ver", "dataofs", "fatofs", "fsize", "nfats", "nclst", "root"})
                           /\ w.tsect \in Nat /\ 2 ^ w.bshift \in Nat /\ 2 ^ w.cshift \in Nat
                           /\ 2 ^ w.cshift < CountWord \/ (2 ^ w.cshift) % CountWord = 0
    /\ w.kind = "mbr" => w.part \in [1 .. 4 -> Nat]
    /\ w.kind = "gpt" => w.n \in Nat /\ w.at \in Nat /\ w.per \in Nat \ {0}
    /\ w.kind = "dir" => w.bitmap \in Int
Written == Heap \cup UNION {{m.sector[s] : s \in DOMAIN m.sector} : m \in Media}
ASSUME MediaTyped ==
    /\ \A w \in Written : SectorTyped(w)
    /\ \A p \in {w \in Written : w.kind = "ptes"}, g \in {w \in Written : w.kind = "gpt"} :
          p.lba \in [1 .. g.per -> Nat]

\* A sector FatFs can do holds whole directory entries, and the most sectors a cluster has
\* are bytes that 32 bits count: 2^12 times 2^16 - 1 of them.
SectorSizes == {s \in BlockSizes : s >= MinSS /\ s <= MaxSS /\ PowerOf2(s)}
ASSUME SectorsShort == \A s \in SectorSizes : s % SZDIRE = 0 /\ s * (CountWord - 1) < Word

VARIABLES
    medium,
    ok, devok,            \* SCSIBlock::ok, SCSIDevice::ok
    status,               \* the last command's
    block_size, capacity,
    pc,                   \* where the constructor or mount_volume is
    win, winsect,         \* what fs->win holds, and the sector it is said to be
    at,                   \* i of find_volume's loops, so and i of the search for the bitmap
    table,                \* mbr_pt
    vbr,                  \* the parameters as read from the boot sector
    fs,                   \* FATFS
    res,                  \* what mount_volume answered last
    cdb,                  \* the last READ or WRITE sent for a call, and what was asked for
    faults, calls

unit == <<ok, devok, status, block_size, capacity>>
window == <<win, winsect>>
vars == <<medium, unit, pc, window, at, table, vbr, fs, res, cdb, faults, calls>>

None == [kind |-> "none"]
NoSector == -1
Unknown == -1        \* 0xFFFFFFFF as a count or a cluster
EndOfChain == -1     \* 0xFFFFFFFF as a link
NoEntry == -1        \* a directory sector without the bitmap's entry
NoFs == [type |-> "none", ss |-> 0, bsect |-> 0, n_fats |-> 0, fsize |-> 0, csize |-> 0, n_rootdir |-> 0,
         n_fatent |-> 0, fatbase |-> 0, dirbase |-> 0, database |-> 0, bitbase |-> 0,
         free |-> 0, last |-> 0]
Content(sect) == IF sect \in DOMAIN medium.sector THEN medium.sector[sect] ELSE None

-----------------------------------------------------------------------------
(* TransferCommand, as ScsiTransport has it: done, failed, or lost for good *)

Outcomes ==
    IF ~devok THEN {[status |-> "failed", devok |-> FALSE, fault |-> 0]}
    ELSE {[status |-> "success", devok |-> TRUE, fault |-> 0]} \cup
         (IF faults = MaxFaults THEN {}
          ELSE {[status |-> "failed", devok |-> TRUE, fault |-> 1],
                [status |-> "failed", devok |-> FALSE, fault |-> 1]})
Command(o) ==
    /\ status' = o.status
    /\ devok' = o.devok
    /\ faults' = faults + o.fault

-----------------------------------------------------------------------------
(* SCSIBlock::SCSIBlock *)

Mounting == <<medium, window, at, table, vbr, fs, res, cdb, calls>>

\* The switch on the sense key: proceed with REQUEST SENSE's status, try again (after
\* NOT READY and ABORTED COMMAND), or give up.
TestUnitReady ==
    /\ pc = "ready"
    /\ \E o \in Outcomes :
        /\ Command(o)
        /\ pc' = IF o.status = "success" THEN "capacity10" ELSE "sense"
    /\ UNCHANGED <<ok, block_size, capacity, Mounting>>

RequestSense ==
    /\ pc = "sense"
    /\ \E o \in Outcomes :
        /\ Command(o)
        /\ IF o.status = "success"
           THEN \E key \in {"proceed", "again", "fatal"} :
                   /\ ok' = (key # "fatal")
                   /\ pc' = CASE key = "proceed" -> "capacity10"
                              [] key = "again" -> "retry"
                              [] key = "fatal" -> "mount"
           ELSE ok' = FALSE /\ pc' = "mount"
    /\ UNCHANGED <<block_size, capacity, Mounting>>

\* A unit that is not ready the second time is left as it is: ok, and without a size.
TestAgain ==
    /\ pc = "retry"
    /\ \E o \in Outcomes :
        /\ Command(o)
        /\ pc' = IF o.status = "success" THEN "capacity10" ELSE "mount"
    /\ UNCHANGED <<ok, block_size, capacity, Mounting>>

\* No size, or one that does not fit: READ CAPACITY (16) is asked.
Saturated(lba) == ~(lba > 0 /\ lba < Word - 1)
Measured(lba, bytes) ==
    /\ capacity' = lba * bytes
    /\ block_size' = bytes
    /\ ok' = (lba * bytes # 0)
ReadCapacity10 ==
    /\ pc = "capacity10"
    /\ \E o \in Outcomes :
        /\ Command(o)
        /\ IF o.status # "success"
           THEN ok' = FALSE /\ pc' = "mount" /\ UNCHANGED <<block_size, capacity>>
           ELSE \E bytes \in BlockSizes :
                LET lba == IF medium.size > Word THEN Word - 1 ELSE medium.size - 1 IN
                IF Saturated(lba)
                THEN pc' = "capacity16" /\ UNCHANGED <<ok, block_size, capacity>>
                ELSE pc' = "mount" /\ Measured(lba, bytes)
    /\ UNCHANGED Mounting
ReadCapacity16 ==
    /\ pc = "capacity16"
    /\ \E o \in Outcomes :
        /\ Command(o)
        /\ IF o.status # "success"
           THEN ok' = FALSE /\ UNCHANGED <<block_size, capacity>>
           ELSE \E bytes \in BlockSizes : Measured(medium.size - 1, bytes)
    /\ pc' = "mount"
    /\ UNCHANGED Mounting

-----------------------------------------------------------------------------
(* move_window, on a window that is never dirty here, and check_fs *)

\* What may become of a read: the sector is there, or not read and not noticed, or
\* refused with RES_PARERR by a unit known to be gone.  check_fs reads in any case,
\* move_window what is not in the window yet.
Reads(sect) ==
    IF ~devok THEN {[err |-> TRUE, win |-> win, winsect |-> NoSector, devok |-> FALSE, fault |-> 0]}
    ELSE {[err |-> FALSE, win |-> Content(sect), winsect |-> sect, devok |-> TRUE, fault |-> 0]} \cup
         (IF faults = MaxFaults THEN {}
          ELSE {[err |-> FALSE, win |-> win, winsect |-> sect, devok |-> d, fault |-> 1] : d \in BOOLEAN})
Loads(sect) ==
    IF sect = winsect THEN {[err |-> FALSE, win |-> win, winsect |-> sect, devok |-> devok, fault |-> 0]}
    ELSE Reads(sect)
Loaded(l) ==
    /\ win' = l.win
    /\ winsect' = l.winsect
    /\ devok' = l.devok
    /\ faults' = faults + l.fault

\* What check_fs makes of it: 0 a FAT boot sector, 1 an exFAT one, 2 another boot sector, 3 none.
Class(w) == CASE w.kind = "fat" -> 0
              [] w.kind = "exfat" -> 1
              [] w.kind \in {"mbr", "pmbr", "boot"} -> 2
              [] OTHER -> 3

\* A mount that fails: UpdateDrives drops the Drive.
Answer(r) ==
    /\ res' = r
    /\ pc' = "disposed"
    /\ fs' = NoFs

-----------------------------------------------------------------------------
(* find_volume *)

\* Mutant: the volume is taken to start at sector 0.
FoundAtStart(l) ==
    /\ pc' = IF l.win.kind = "exfat" THEN "exfat" ELSE "fat"
    /\ vbr' = l.win
    /\ fs' = [fs EXCEPT !.bsect = 0]
    /\ UNCHANGED <<at, table, res>>
Found(l) ==
    /\ pc' = IF l.win.kind = "exfat" THEN "exfat" ELSE "fat"
    /\ vbr' = l.win
    /\ fs' = [fs EXCEPT !.bsect = l.winsect]
    /\ UNCHANGED <<at, table, res>>
Goes(p, i) ==
    /\ pc' = p
    /\ at' = i
    /\ UNCHANGED <<table, vbr, fs, res>>
Fails(r) == Answer(r) /\ UNCHANGED <<at, table, vbr>>
Beside == <<medium, ok, status, block_size, capacity, cdb, calls>>

\* Drive::Mount and mount_volume's start: the unit has to be ok, and to have a
\* sector size FatFs can do; a size of 0, as TestAgain leaves it, is none.
\* Mutant: only the upper limit is looked at.
SizeTaken(s) == s <= MaxSS
SizeFits(s) == s >= MinSS /\ s <= MaxSS /\ PowerOf2(s)
Mount ==
    /\ pc = "mount"
    /\ CASE ~(ok /\ devok) -> Answer("DriveInitializationFailure")
         [] ok /\ devok /\ ~SizeFits(block_size % CountWord) -> Answer("FR_DISK_ERR")
         [] OTHER -> /\ pc' = "sector0"
                     /\ fs' = [fs EXCEPT !.ss = block_size % CountWord]
                     /\ UNCHANGED res
    /\ UNCHANGED <<medium, unit, window, at, table, vbr, cdb, faults, calls>>

Sector0 ==
    /\ pc = "sector0"
    /\ \E l \in Reads(0) :
        /\ Loaded(l)
        /\ CASE l.err -> Fails("FR_DISK_ERR")
             [] ~l.err /\ Class(l.win) < 2 -> Found(l)
             [] ~l.err /\ Class(l.win) = 3 -> Fails("FR_NO_FILESYSTEM")
             [] ~l.err /\ l.win.kind = "pmbr" -> Goes("gpt", 0)
             [] OTHER -> /\ pc' = "mbr"
                         /\ table' = IF l.win.kind = "mbr" THEN l.win.part ELSE <<0, 0, 0, 0>>
                         /\ at' = 1
                         /\ UNCHANGED <<vbr, fs, res>>
    /\ UNCHANGED Beside

\* The header: its place, and how many entries there are of what size.
GptHeader ==
    /\ pc = "gpt"
    /\ \E l \in Loads(1) :
        /\ Loaded(l)
        /\ CASE l.err -> Fails("FR_DISK_ERR")
             [] ~l.err /\ l.win.kind = "gpt" -> /\ pc' = "entry" /\ at' = 0 /\ table' = <<l.win.n, l.win.at, l.win.per>>
                                                /\ UNCHANGED <<vbr, fs, res>>
             [] OTHER -> Fails("FR_NO_FILESYSTEM")
    /\ UNCHANGED Beside

\* The next entry of the partition table: its sector is loaded anew, since check_fs
\* has put the boot sector of the last one in the window.  0 marks no basic data.
GptEntry ==
    /\ pc = "entry"
    /\ IF at = table[1]
       THEN Fails("FR_NO_FILESYSTEM") /\ UNCHANGED <<window, devok, faults>>
       ELSE \E l \in Loads(table[2] + at \div table[3]) :
            /\ Loaded(l)
            /\ CASE l.err -> Fails("FR_DISK_ERR")
                 [] ~l.err /\ l.win.kind = "ptes" /\ l.win.lba[(at % table[3]) + 1] # 0 ->
                        /\ vbr' = [kind |-> "look", lba |-> l.win.lba[(at % table[3]) + 1]]
                        /\ pc' = "partition"
                        /\ at' = at + 1
                        /\ UNCHANGED <<table, fs, res>>
                 [] OTHER -> Goes("entry", at + 1)
    /\ UNCHANGED Beside

\* Mutant: exFAT is passed over.
PastExfat(c) == c >= 1
Past(c) == c >= 2
GptPartition ==
    /\ pc = "partition"
    /\ \E l \in Reads(vbr.lba) :
        /\ Loaded(l)
        /\ CASE l.err -> Goes("entry", at)
             [] ~l.err /\ Past(Class(l.win)) -> Goes("entry", at)
             [] OTHER -> IF Class(l.win) < 2 THEN Found(l) ELSE Fails("FR_NO_FILESYSTEM")
    /\ UNCHANGED Beside

MbrPartition ==
    /\ pc = "mbr"
    /\ IF at > 4
       THEN Fails("FR_NO_FILESYSTEM") /\ UNCHANGED <<window, devok, faults>>
       ELSE IF table[at] = 0
       THEN Goes("mbr", at + 1) /\ UNCHANGED <<window, devok, faults>>
       ELSE \E l \in Reads(table[at]) :
            /\ Loaded(l)
            /\ CASE l.err -> IF at = 4 THEN Fails("FR_DISK_ERR") ELSE Goes("mbr", at + 1)
                 [] ~l.err /\ Past(Class(l.win)) -> Goes("mbr", at + 1)
                 [] OTHER -> IF Class(l.win) < 2 THEN Found(l) ELSE Fails("FR_NO_FILESYSTEM")
    /\ UNCHANGED Beside

-----------------------------------------------------------------------------
(* The parameters of a FAT volume *)

Ceil(n, d) == (n + d - 1) \div d
PerDir == fs.ss \div SZDIRE
Fasize(v) == (v.fatsz * v.nfats) % Word
Sysect(v) == (v.nrsv + Fasize(v) + v.rootent \div PerDir) % Word
Nclst(v) == (v.tsect - Sysect(v)) \div v.csize
SubType(n) == CASE n <= MaxFat12 -> "fat12"
                [] n > MaxFat12 /\ n <= MaxFat16 -> "fat16"
                [] OTHER -> "fat32"
\* szbfat, in bytes, of n entries.  Mutant: the two reserved ones are left out.
FatBytesShort(t, n) == CASE t = "fat32" -> (n - 2) * 4
                         [] t = "fat16" -> (n - 2) * 2
                         [] OTHER -> ((n - 2) * 3) \div 2
FatBytes(t, n) == CASE t = "fat32" -> n * 4
                    [] t = "fat16" -> n * 2
                    [] OTHER -> (n * 3) \div 2 + (n % 2)

FatSound(v) ==
    /\ v.bps = fs.ss
    /\ v.nfats \in {1, 2}
    /\ PowerOf2(v.csize)
    /\ v.rootent % PerDir = 0
    /\ v.nrsv # 0
    /\ v.tsect >= Sysect(v)
    /\ Nclst(v) \in 1 .. MaxFat32
    /\ LET t == SubType(Nclst(v)) IN
       /\ IF t = "fat32" THEN v.ver = 0 /\ v.rootent = 0 ELSE v.rootent # 0
       /\ v.fatsz >= Ceil(FatBytes(t, Nclst(v) + 2), fs.ss)

FatLaid(v) ==
    [fs EXCEPT !.n_fats = v.nfats, !.fsize = v.fatsz, !.csize = v.csize, !.n_rootdir = v.rootent,
               !.n_fatent = Nclst(v) + 2,
               !.fatbase = fs.bsect + v.nrsv,
               !.database = fs.bsect + Sysect(v),
               !.dirbase = IF SubType(Nclst(v)) = "fat32" THEN v.root ELSE fs.bsect + v.nrsv + Fasize(v),
               !.free = Unknown, !.last = Unknown]

Mounted(f) ==
    /\ fs' = f
    /\ res' = "FR_OK"
    /\ pc' = "idle"

FatVolume ==
    /\ pc = "fat"
    /\ CASE ~FatSound(vbr) -> Answer("FR_NO_FILESYSTEM")
         [] FatSound(vbr) /\ SubType(Nclst(vbr)) = "fat32" /\ vbr.fsinfo = 1 ->
                /\ fs' = FatLaid(vbr)
                /\ pc' = "fsinfo"
                /\ UNCHANGED res
         [] OTHER -> Mounted([FatLaid(vbr) EXCEPT !.type = SubType(Nclst(vbr))])
    /\ UNCHANGED <<medium, unit, window, at, table, vbr, cdb, faults, calls>>

\* A read that is refused, or a sector that is no FSINFO: the counts stay unknown.
FsInfo ==
    /\ pc = "fsinfo"
    /\ \E l \in Loads(fs.bsect + 1) :
        /\ Loaded(l)
        /\ Mounted(IF ~l.err /\ l.win.kind = "fsinfo"
                   THEN [fs EXCEPT !.type = "fat32", !.free = l.win.free, !.last = l.win.last]
                   ELSE [fs EXCEPT !.type = "fat32"])
    /\ UNCHANGED <<at, table, vbr>>
    /\ UNCHANGED Beside

-----------------------------------------------------------------------------
(* The parameters of an exFAT volume *)

ExSound(v) ==
    /\ v.zeroed
    /\ v.ver = 1
    /\ 2 ^ v.bshift = fs.ss
    /\ v.nfats = 1
    /\ (2 ^ v.cshift) % CountWord # 0
    /\ v.nclst <= MaxExFat
    /\ v.tsect >= v.dataofs + ((v.nclst * 2 ^ v.cshift) % Word)

ExLaid(v) ==
    [fs EXCEPT !.n_fats = v.nfats, !.fsize = v.fsize, !.csize = 2 ^ v.cshift, !.n_fatent = v.nclst + 2,
               !.fatbase = fs.bsect + v.fatofs, !.database = fs.bsect + v.dataofs, !.dirbase = v.root,
               !.free = Unknown, !.last = Unknown]

\* 0 for a number that is none.
clst2sect(f, clst) ==
    IF clst < 2 \/ clst >= f.n_fatent THEN 0 ELSE f.database + f.csize * (clst - 2)

ExfatVolume ==
    /\ pc = "exfat"
    /\ IF ExSound(vbr)
       THEN /\ fs' = ExLaid(vbr)
            /\ pc' = "bitmap"
            /\ at' = 0
            /\ UNCHANGED res
       ELSE Answer("FR_NO_FILESYSTEM") /\ UNCHANGED at
    /\ UNCHANGED <<medium, unit, window, table, vbr, cdb, faults, calls>>

\* The next sector of the root directory's first cluster; the bitmap's entry names its
\* first cluster.  No other sector is taken to hold one.
BitmapOf(w) == IF w.kind = "dir" THEN w.bitmap ELSE NoEntry
FindBitmap ==
    /\ pc = "bitmap"
    /\ IF at >= fs.csize
       THEN Fails("FR_NO_FILESYSTEM") /\ UNCHANGED <<window, devok, faults>>
       ELSE \E l \in Loads(clst2sect(fs, fs.dirbase) + at) :
            /\ Loaded(l)
            /\ CASE l.err -> Fails("FR_DISK_ERR")
                 [] ~l.err /\ BitmapOf(l.win) = NoEntry -> Goes("bitmap", at + 1)
                 [] OTHER ->
                        IF BitmapOf(l.win) < 2 \/ BitmapOf(l.win) >= fs.n_fatent
                        THEN Fails("FR_NO_FILESYSTEM")
                        ELSE /\ fs' = [fs EXCEPT !.bitbase = fs.database + ((fs.csize * (BitmapOf(l.win) - 2)) % Word)]
                             /\ at' = BitmapOf(l.win)
                             /\ pc' = "contiguous"
                             /\ UNCHANGED <<table, vbr, res>>
    /\ UNCHANGED Beside

PerFat == fs.ss \div 4
Cell(w, c) == IF w.kind = "table" THEN w.next[(c % PerFat) + 1] ELSE 0
\* Whether the chain goes on in a straight line.
Straight(cv, c) == cv = c + 1
Contiguous ==
    /\ pc = "contiguous"
    /\ \E l \in Loads(fs.fatbase + at \div PerFat) :
        /\ Loaded(l)
        /\ CASE l.err -> Fails("FR_DISK_ERR")
             [] ~l.err /\ Cell(l.win, at) = EndOfChain ->
                    Mounted([fs EXCEPT !.type = "exfat"]) /\ UNCHANGED <<at, table, vbr>>
             [] ~l.err /\ Cell(l.win, at) # EndOfChain /\ Straight(Cell(l.win, at), at) ->
                    Goes("contiguous", at + 1)
             [] OTHER -> Fails("FR_NO_FILESYSTEM")
    /\ UNCHANGED Beside

-----------------------------------------------------------------------------
(* Calls on the mounted volume *)

\* Which command takes the address, in ReadSectors and in WriteSectors.  Mutant: the
\* short one always does.
ShortAlways(sect, count) == TRUE
Short(sect, count) == sect + count <= Word - 1
Cdb(sect, count) ==
    IF Short(sect, count)
    THEN [lba |-> sect % Word, count |-> count % CountWord, bytes |-> (block_size * (count % CountWord)) % Word]
    ELSE [lba |-> sect, count |-> count, bytes |-> (block_size * count) % Word]

\* Sectors a call asks for: the corners of the areas.
Asked == {[sect |-> s, count |-> 1] : s \in {fs.fatbase, fs.database}} \cup
         {[sect |-> clst2sect(fs, c), count |-> fs.csize] : c \in {2, fs.n_fatent - 1}}

\* mount_volume of a mounted volume: the unit has to be ok still.
Access ==
    /\ pc = "idle"
    /\ calls < MaxCalls
    /\ calls' = calls + 1
    /\ fs.type # "none" /\ ok /\ devok
    /\ \E a \in Asked, o \in Outcomes :
        /\ Command(o)
        /\ cdb' = <<a, Cdb(a.sect, a.count)>>
    /\ res' = "FR_OK"
    /\ UNCHANGED <<medium, ok, block_size, capacity, pc, window, at, table, vbr, fs>>

\* It is not: the volume is no more, and disk_initialize cannot bring it back.
Refused ==
    /\ pc = "idle"
    /\ calls < MaxCalls
    /\ calls' = calls + 1
    /\ ~(fs.type # "none" /\ ok /\ devok)
    /\ fs' = [fs EXCEPT !.type = "none"]
    /\ res' = "FR_NOT_READY"
    /\ UNCHANGED <<medium, unit, pc, window, at, table, vbr, cdb, faults>>

-----------------------------------------------------------------------------
\* The FATFS of a Drive is memory as it comes from the heap.
Init ==
    /\ medium \in Media
    /\ ok = TRUE /\ devok = TRUE /\ status = "success"
    /\ block_size = 0 /\ capacity = 0
    /\ pc = "ready"
    /\ win \in {None} \cup Heap /\ winsect = NoSector
    /\ at = 0 /\ table = <<>> /\ vbr = None
    /\ fs = NoFs /\ res = "none" /\ cdb = <<>>
    /\ faults = 0 /\ calls = 0

Next ==
    \/ TestUnitReady \/ RequestSense \/ TestAgain \/ ReadCapacity10 \/ ReadCapacity16
    \/ Mount \/ Sector0 \/ GptHeader \/ GptEntry \/ GptPartition \/ MbrPartition
    \/ FatVolume \/ FsInfo \/ ExfatVolume \/ FindBitmap \/ Contiguous
    \/ Access \/ Refused

Spec == Init /\ [][Next]_vars

-----------------------------------------------------------------------------
(* Properties *)

\* Types, and the order of the constructor and the mount: a size is there only after
\* the unit has answered for it, and a mount that succeeds has found a volume.
TypeOK ==
    /\ medium \in Media
    /\ ok \in BOOLEAN /\ devok \in BOOLEAN /\ status \in {"success", "failed"}
    /\ block_size \in BlockSizes \cup {0}
    /\ pc \in {"ready", "sense", "retry", "capacity10", "capacity16", "mount", "sector0", "gpt", "entry",
               "partition", "mbr", "fat", "fsinfo", "exfat", "bitmap", "contiguous", "idle", "disposed"}
    /\ (block_size # 0 => pc \notin {"ready", "sense", "retry", "capacity10", "capacity16"})
    /\ (res = "FR_OK" => fs.type # "none")
    /\ fs.type \in {"none", "fat12", "fat16", "fat32", "exfat"}
    /\ faults \in 0 .. MaxFaults /\ calls \in 0 .. MaxCalls

\* A unit that never said how large it is, or whose blocks FatFs cannot do, is not read
\* from, although a failed second TEST UNIT READY leaves SCSIBlock::ok set.
UnsizedNeverRead ==
    winsect # NoSector => ok /\ capacity # 0 /\ block_size >= MinSS /\ block_size <= MaxSS

\* Where find_volume is to look for boot sectors, in this order; 0 is an entry not used,
\* and no volume unless the medium as a whole is one.
GptAt(e, h) == LET p == Content(h.at + e \div h.per) IN IF p.kind = "ptes" THEN p.lba[(e % h.per) + 1] ELSE 0
Locations ==
    LET zero == Content(0) head == Content(1) IN
    CASE Class(zero) < 2 -> <<0>>
      [] zero.kind = "mbr" -> zero.part
      [] zero.kind = "pmbr" /\ head.kind = "gpt" -> [e \in 1 .. head.n |-> GptAt(e - 1, head)]
      [] OTHER -> <<>>
Volumes == {i \in DOMAIN Locations : Class(Content(Locations[i])) < 2}
First(i) == i \in Volumes /\ \A j \in Volumes : i <= j

\* While nothing fails, the volume mounted is the first FAT or exFAT one of the medium:
\* not a later one, not one behind a partition of another kind that ended the search.
FirstVolumeTaken ==
    faults = 0 /\ res = "FR_OK" => \E i \in Volumes : First(i) /\ fs.bsect = Locations[i]

\* A well formatted FAT volume: its areas fit into it one behind the other, each
\* cluster has its entry in the FAT, and the rest is as the types want it.
WellFormed(v, ss) ==
    LET areas == v.nrsv + v.fatsz * v.nfats + (v.rootent * SZDIRE) \div ss
        n == (v.tsect - areas) \div v.csize
        bits == IF n <= MaxFat12 THEN 12 ELSE IF n <= MaxFat16 THEN 16 ELSE 32 IN
    /\ v.bps = ss /\ v.nrsv > 0 /\ v.nfats \in {1, 2} /\ PowerOf2(v.csize)
    /\ (v.rootent * SZDIRE) % ss = 0
    /\ v.tsect >= areas + v.csize /\ n <= MaxFat32
    /\ (n + 2) * bits <= v.fatsz * ss * 8
    /\ IF bits = 32 THEN v.rootent = 0 /\ v.ver = 0 ELSE v.rootent > 0

\* While nothing fails, a ready unit whose first volume is a well formatted FAT volume
\* is mounted: no check of mount_volume is too strict.
WellFormedMounts ==
    faults = 0 /\ pc = "disposed" /\ ok /\ SizeFits(block_size) =>
        \A i \in Volumes : LET v == Content(Locations[i]) IN
            First(i) /\ v.kind = "fat" => ~WellFormed(v, block_size)

\* Where find_volume looks and what check_fs and mount_volume refuse, together: the
\* volume the medium has first is the one mounted.
FirstVolumeMounts == FirstVolumeTaken /\ WellFormedMounts

\* The parameters a volume is mounted with, and its counts of free clusters, are those
\* of the sector they are said to be from, even when reads fail unnoticed.  The one way
\* out is the very first read: what is used then is what the heap left in the buffer.
MountTrue ==
    res = "FR_OK" =>
        /\ vbr = Content(fs.bsect) \/ (fs.bsect = 0 /\ faults > 0 /\ vbr \in Heap)
        /\ (fs.free # Unknown => Content(fs.bsect + 1).free = fs.free /\ Content(fs.bsect + 1).last = fs.last)

Bits(type) == CASE type = "fat12" -> 12 [] type = "fat16" -> 16 [] OTHER -> 32
\* The areas of a mounted volume lie inside it, its sectors are those of the unit; on a
\* FAT volume they follow each other and the FAT has an entry for each cluster.  Not
\* checked by the code, and not claimed: the order on FAT volumes with 2^32 sectors or
\* more before the clusters, and the end of exFAT volumes with as many in them (product
\* and sum wrap); the place and the number of entries of an exFAT volume's FAT.
AreasInVolume ==
    fs.type # "none" =>
        /\ fs.ss = block_size
        /\ IF fs.type = "exfat"
           THEN (fs.n_fatent - 2) * fs.csize < Word =>
                    fs.database + (fs.n_fatent - 2) * fs.csize <= fs.bsect + vbr.tsect
           ELSE /\ fs.bsect < fs.fatbase
                /\ fs.n_fatent * Bits(fs.type) <= fs.fsize * fs.ss * 8
                /\ fs.database + (fs.n_fatent - 2) * fs.csize <= fs.bsect + vbr.tsect
                /\ vbr.nrsv + fs.n_fats * fs.fsize + fs.n_rootdir \div PerDir < Word =>
                       /\ (fs.type # "fat32" => fs.fatbase + fs.n_fats * fs.fsize = fs.dirbase)
                       /\ fs.fatbase + fs.n_fats * fs.fsize + fs.n_rootdir \div PerDir = fs.database

Link(c) == Cell(Content(fs.fatbase + c \div PerFat), c)
\* The bitmap of an exFAT volume mounted without a failure starts where the entry in
\* the root directory says, and its chain has no gap: load_bitmap's arithmetic on
\* sectors is right.
BitmapContiguous ==
    (fs.type = "exfat" /\ faults = 0) =>
        \E s \in 0 .. fs.csize - 1 :
            LET b == BitmapOf(Content(clst2sect(fs, fs.dirbase) + s)) IN
            /\ b # NoEntry
            /\ (fs.csize * (b - 2) < Word => fs.bitbase = clst2sect(fs, b))
            /\ Link(at) = EndOfChain
            /\ \A c \in b .. at - 1 : Link(c) = c + 1

\* FAT, root directory and clusters are where the parameters put them, whatever reads
\* failed; the bitmap of exFAT is if none did.  The exceptions are those of the two parts.
LaidOut == AreasInVolume /\ BitmapContiguous

\* Below and above 2^32 sectors, the command sent names the sectors asked for, and the
\* bytes it moves are theirs.
AddressedExactly ==
    cdb # <<>> =>
        /\ cdb[2].lba = cdb[1].sect
        /\ cdb[2].count = cdb[1].count
        /\ cdb[2].bytes = cdb[1].count * block_size
=============================================================================
