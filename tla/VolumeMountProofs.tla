-------------------------- MODULE VolumeMountProofs --------------------------
(***************************************************************************)
(* Theorems about VolumeMount, for every medium whatever is on it: no unit *)
(* without a size is read, what a volume is mounted with is what its own   *)
(* sectors hold and its areas are where that puts them, whatever commands  *)
(* fail, and while none fails the volume is the first of the medium.       *)
(*                                                                         *)
(* That the parameters are those of the volume is not seen from a sector   *)
(* number, since a READ that fails unnoticed leaves old contents under a   *)
(* new number.  The invariant tells for each place of find_volume what     *)
(* kind of sector the window still has then, and that it is one that       *)
(* passes for nothing there.                                               *)
(***************************************************************************)
EXTENDS VolumeMount, FiniteSetTheorems, TLAPS

\* Division by a divisor that is not a literal, which SMT does not do by itself.
LEMMA DivMod ==
    ASSUME NEW p \in Nat, NEW b \in Nat, b > 0
    PROVE  \E d \in Nat, r \in Nat : d = p \div b /\ r = p % b /\ r < b /\ p = b * d + r
<1>1. p \div b \in Nat /\ p % b \in 0 .. b - 1 /\ p % b = p - b * (p \div b)
  OBVIOUS
<1>2. PICK d \in Nat, r \in 0 .. b - 1 : d = p \div b /\ r = p % b /\ r = p - b * d
  BY <1>1, Zenon
<1>3. r \in Nat /\ r < b /\ p = b * d + r
  BY <1>2
<1> QED
  BY <1>2, <1>3, Zenon

\* There is only one such quotient and remainder.
LEMMA DivUnique == ASSUME NEW p \in Nat, NEW b \in Nat, b > 0, NEW q \in Nat, NEW r \in Nat, r < b, p = b * q + r
    PROVE  p \div b = q /\ p % b = r
<1>1. PICK d \in Nat, s \in Nat : d = p \div b /\ s = p % b /\ s < b /\ p = b * d + s
  BY DivMod
<1>2. s < b /\ p = b * d + s
  BY <1>1, Zenon
<1>3. d = q
  <2>1. CASE d < q
    <3>1. d + 1 <= q
      BY <2>1
    <3>2. b * (d + 1) <= b * q
      BY <3>1
    <3> QED
      BY <3>2, <1>2
  <2>2. CASE q < d
    <3>1. q + 1 <= d
      BY <2>2
    <3>2. b * (q + 1) <= b * d
      BY <3>1
    <3> QED
      BY <3>2, <1>2
  <2> QED
    BY <2>1, <2>2
<1>4. s = r
  BY <1>2, <1>3
<1> QED
  BY <1>1, <1>3, <1>4, Zenon

Constructor == {"ready", "sense", "retry", "capacity10", "capacity16"}
Search == {"sector0", "gpt", "entry", "partition", "mbr"}
Layout == {"fat", "fsinfo", "exfat", "bitmap", "contiguous"}
Places == Constructor \cup {"mount"} \cup Search \cup Layout \cup {"idle", "disposed"}

\* A size comes from READ CAPACITY, and FatFs asks for sectors only after it has one.
Sized == ok /\ capacity # 0 /\ block_size >= MinSS /\ block_size <= MaxSS
SizeInv ==
    /\ pc \in Places
    /\ pc \in Constructor => block_size = 0
    /\ pc \in Constructor \cup {"mount"} => winsect = NoSector
    /\ pc \in Search \cup Layout \cup {"idle"} => Sized
    /\ winsect # NoSector => Sized
    /\ block_size \in BlockSizes \cup {0}
    /\ block_size # 0 /\ ok => capacity # 0

LEMMA SizeStep == SizeInv /\ [Next]_vars => SizeInv'
<1> SUFFICES ASSUME SizeInv, [Next]_vars PROVE SizeInv'
  OBVIOUS
<1> USE DEF SizeInv, Places, Constructor, Search, Layout, Sized
<1> USE DEF Beside, Goes, Fails, Found, Answer, Mounted
<1>1. CASE TestUnitReady
  BY <1>1 DEF TestUnitReady, Mounting, window
<1>2. CASE RequestSense
  BY <1>2 DEF RequestSense, Mounting, window
<1>3. CASE TestAgain
  BY <1>3 DEF TestAgain, Mounting, window
<1>4. CASE ReadCapacity10
  BY <1>4 DEF ReadCapacity10, Measured, Mounting, window
<1>5. CASE ReadCapacity16
  BY <1>5 DEF ReadCapacity16, Measured, Mounting, window
<1>6. CASE Mount
  <2>1. CASE ok /\ devok /\ SizeFits(block_size % CountWord)
    <3>1. block_size % CountWord >= MinSS /\ block_size % CountWord <= MaxSS
      BY <2>1 DEF SizeFits
    <3>2. block_size = block_size % CountWord
      BY <3>1, MountAssumption, BlocksShort
    <3> QED
      BY <1>6, <2>1, <3>1, <3>2, MountAssumption DEF Mount, unit, window
  <2>2. CASE ~(ok /\ devok /\ SizeFits(block_size % CountWord))
    BY <1>6, <2>2 DEF Mount, unit, window
  <2> QED
    BY <2>1, <2>2
<1>7. CASE Sector0
  BY <1>7 DEF Sector0
<1>8. CASE GptHeader
  BY <1>8 DEF GptHeader
<1>9. CASE GptEntry
  BY <1>9 DEF GptEntry, window
<1>10. CASE GptPartition
  BY <1>10 DEF GptPartition
<1>11. CASE MbrPartition
  BY <1>11 DEF MbrPartition, window
<1>12. CASE FatVolume
  BY <1>12 DEF FatVolume, unit, window
<1>13. CASE FsInfo
  BY <1>13 DEF FsInfo
<1>14. CASE ExfatVolume
  BY <1>14 DEF ExfatVolume, unit, window
<1>15. CASE FindBitmap
  BY <1>15 DEF FindBitmap, window
<1>16. CASE Contiguous
  BY <1>16 DEF Contiguous
<1>17. CASE Access
  BY <1>17 DEF Access, window
<1>18. CASE Refused
  BY <1>18 DEF Refused, unit, window
<1>19. CASE UNCHANGED vars
  BY <1>19 DEF vars, unit, window
<1> QED
  BY <1>1, <1>2, <1>3, <1>4, <1>5, <1>6, <1>7, <1>8, <1>9, <1>10, <1>11, <1>12, <1>13, <1>14,
     <1>15, <1>16, <1>17, <1>18, <1>19 DEF Next

\* A unit that never answered for its size, or whose blocks FatFs cannot do, is not read.
THEOREM UnsizedSafe == Spec => []UnsizedNeverRead
<1>1. Init => SizeInv
  BY DEF Init, SizeInv, Places, Constructor, Search, Layout
<1>2. SizeInv => UnsizedNeverRead
  BY DEF SizeInv, Sized, UnsizedNeverRead
<1> QED
  BY <1>1, <1>2, SizeStep, PTL DEF Spec

-----------------------------------------------------------------------------
(* What is mounted is what was read *)

\* The parameters are those of the sector they are said to be from, or were in the
\* buffer before the first read and that read failed.
VbrTrue == vbr = Content(fs.bsect) \/ (fs.bsect = 0 /\ faults > 0 /\ vbr \in Heap)
CountsTrue ==
    fs.free # Unknown => Content(fs.bsect + 1).free = fs.free /\ Content(fs.bsect + 1).last = fs.last

Shape(f) == f = [x \in DOMAIN NoFs |-> f[x]]

TruthInv ==
    /\ pc \in Places
    /\ faults \in 0 .. MaxFaults
    /\ Shape(fs)
    /\ pc \in Constructor \cup {"mount", "sector0"} => win \in {None} \cup Heap
    /\ pc = "gpt" => win.kind = "pmbr"
    /\ pc = "partition" => win.kind = "ptes"
    /\ pc = "mbr" => Class(win) >= 2
    /\ pc \in Layout \cup {"idle"} => VbrTrue
    /\ pc \in {"fat", "fsinfo"} => win.kind # "fsinfo"
    /\ pc \in {"fsinfo", "bitmap", "contiguous"} => fs.free = Unknown
    /\ pc = "idle" => CountsTrue
    /\ res = "FR_OK" => pc = "idle"

\* A read leaves the sector in the window, or the window as it was.
LEMMA ReadsWhat ==
    ASSUME NEW sect, NEW l \in Reads(sect), faults \in 0 .. MaxFaults
    PROVE  /\ faults + l.fault \in 0 .. MaxFaults
           /\ \/ l.win = Content(sect)
              \/ l.win = win /\ (l.err \/ faults + l.fault > 0)
           /\ ~l.err => l.winsect = sect
  BY MountAssumption DEF Reads
LEMMA LoadsWhat ==
    ASSUME NEW sect, NEW l \in Loads(sect), faults \in 0 .. MaxFaults
    PROVE  /\ faults + l.fault \in 0 .. MaxFaults
           /\ l.win = Content(sect) \/ l.win = win
  BY ReadsWhat DEF Loads

LEMMA FaultsBounded ==
    ASSUME NEW o \in Outcomes, faults \in 0 .. MaxFaults PROVE faults + o.fault \in faults .. MaxFaults
  BY MountAssumption DEF Outcomes

\* What find_volume and the layout of the areas do to the FATFS.
LEMMA Placed ==
    ASSUME Shape(fs), NEW x
    PROVE  /\ Shape([fs EXCEPT !.bsect = x]) /\ [fs EXCEPT !.bsect = x].bsect = x
           /\ Shape([fs EXCEPT !.ss = x])
           /\ Shape([fs EXCEPT !.type = x])
           /\ [fs EXCEPT !.type = x].bsect = fs.bsect /\ [fs EXCEPT !.type = x].free = fs.free
           /\ [fs EXCEPT !.type = x].last = fs.last
  BY DEF Shape, NoFs
LEMMA LaidFat ==
    ASSUME Shape(fs), NEW v
    PROVE  Shape(FatLaid(v)) /\ FatLaid(v).bsect = fs.bsect /\ FatLaid(v).free = Unknown
  BY ZenonT(30) DEF Shape, NoFs, FatLaid
LEMMA LaidExfat ==
    ASSUME Shape(fs), NEW v
    PROVE  Shape(ExLaid(v)) /\ ExLaid(v).bsect = fs.bsect /\ ExLaid(v).free = Unknown
  BY ZenonT(30) DEF Shape, NoFs, ExLaid
LEMMA Completed ==
    ASSUME Shape(fs), NEW x
    PROVE  /\ Shape([fs EXCEPT !.bitbase = x]) /\ [fs EXCEPT !.bitbase = x].bsect = fs.bsect
           /\ [fs EXCEPT !.bitbase = x].free = fs.free
  BY DEF Shape, NoFs
LEMMA NoFsShape == Shape(NoFs)
  BY DEF Shape, NoFs

\* The window goes by a boot sector only in the step that read it.
LEMMA FoundTruth ==
    ASSUME TruthInv, UNCHANGED medium, NEW l, Found(l), Loaded(l), faults' \in 0 .. MaxFaults, res # "FR_OK",
           l.win.kind \in {"fat", "exfat"},
           l.win = Content(l.winsect) \/ (l.winsect = 0 /\ faults' > 0 /\ l.win \in Heap)
    PROVE  TruthInv'
<1>1. Shape(fs') /\ fs'.bsect = l.winsect
  BY Placed DEF TruthInv, Found
<1>2. VbrTrue'
  BY <1>1 DEF VbrTrue, Found, Content
<1> QED
  BY <1>1, <1>2 DEF TruthInv, Found, Loaded, Places, Constructor, Search, Layout
LEMMA FailTruth ==
    ASSUME TruthInv, NEW r, r # "FR_OK", Answer(r), faults' \in 0 .. MaxFaults PROVE TruthInv'
  BY NoFsShape DEF TruthInv, Answer, Places, Constructor, Search, Layout
LEMMA GoesTruth ==
    ASSUME TruthInv, pc \in Search, faults' \in 0 .. MaxFaults, UNCHANGED <<fs, res>>,
           pc' \in Search \ {"sector0"},
           pc' = "gpt" => win'.kind = "pmbr",
           pc' = "partition" => win'.kind = "ptes",
           pc' = "mbr" => Class(win') >= 2
    PROVE  TruthInv'
<1>1. Shape(fs')
  BY DEF TruthInv
<1> QED
  BY <1>1 DEF TruthInv, Places, Constructor, Search, Layout

\* What check_fs says of a sector, and what that says of its kind.
LEMMA ClassKind ==
    ASSUME NEW w
    PROVE  /\ Class(w) \in 0 .. 3
           /\ Class(w) < 2 <=> w.kind \in {"fat", "exfat"}
           /\ Class(w) = 2 <=> w.kind \in {"mbr", "pmbr", "boot"}
  BY DEF Class

LEMMA TruthStep == TruthInv /\ [Next]_vars => TruthInv'
<1> SUFFICES ASSUME TruthInv, [Next]_vars PROVE TruthInv'
  OBVIOUS
<1> USE DEF Places, Constructor, Search, Layout
<1>0. /\ faults \in 0 .. MaxFaults /\ Shape(fs) /\ (res = "FR_OK" => pc = "idle")
      /\ pc \in Layout \cup {"idle"} => VbrTrue
  BY DEF TruthInv
<1>a. UNCHANGED medium => \A sect : Content(sect)' = Content(sect)
  BY DEF Content
<1>1. CASE TestUnitReady
  BY <1>1, FaultsBounded DEF TestUnitReady, Command, Mounting, window, TruthInv, Shape
<1>2. CASE RequestSense
  BY <1>2, FaultsBounded DEF RequestSense, Command, Mounting, window, TruthInv, Shape
<1>3. CASE TestAgain
  BY <1>3, FaultsBounded DEF TestAgain, Command, Mounting, window, TruthInv, Shape
<1>4. CASE ReadCapacity10
  BY <1>4, FaultsBounded DEF ReadCapacity10, Command, Mounting, window, TruthInv, Shape
<1>5. CASE ReadCapacity16
  BY <1>5, FaultsBounded DEF ReadCapacity16, Command, Mounting, window, TruthInv, Shape
<1>6. CASE Mount
  <2>1. CASE pc' = "sector0"
    <3>1. Shape(fs') /\ UNCHANGED <<win, faults, res>> /\ pc = "mount"
      BY <1>0, <1>6, <2>1, Placed DEF Mount, Answer, window
    <3> QED
      BY <1>0, <2>1, <3>1 DEF TruthInv
  <2>2. CASE pc' # "sector0"
    <3>1. \/ Answer("DriveInitializationFailure")
          \/ Answer("FR_DISK_ERR")
      BY <1>6, <2>2 DEF Mount
    <3> QED
      BY <1>0, <1>6, <3>1, FailTruth DEF Mount
  <2> QED
    BY <2>1, <2>2
<1>7. CASE Sector0
  <2>1. pc = "sector0" /\ UNCHANGED medium /\ (win \in {None} \cup Heap)
    BY <1>7 DEF Sector0, Beside, TruthInv
  <2>2. PICK l \in Reads(0) :
          /\ Loaded(l)
          /\ \/ \E r : r # "FR_OK" /\ Answer(r)
             \/ ~l.err /\ Class(l.win) < 2 /\ Found(l)
             \/ ~l.err /\ l.win.kind = "pmbr" /\ Goes("gpt", 0)
             \/ ~l.err /\ ~(Class(l.win) < 2) /\ pc' = "mbr" /\ UNCHANGED <<fs, res>>
    BY <1>7 DEF Sector0, Fails
  <2>3. faults' \in 0 .. MaxFaults
    BY <1>0, <2>2, ReadsWhat DEF Loaded
  <2>4. CASE \E r : r # "FR_OK" /\ Answer(r)
    BY <2>3, <2>4, FailTruth
  <2>5. CASE ~l.err /\ Class(l.win) < 2 /\ Found(l)
    <3>1. l.winsect = 0 /\ (l.win = Content(0) \/ (faults' > 0 /\ l.win = win))
      BY <1>0, <2>2, <2>5, ReadsWhat DEF Loaded
    <3>2. l.win.kind \in {"fat", "exfat"}
      BY <2>5, ClassKind
    <3>3. l.win = win => l.win \in Heap
      BY <2>1, <3>2 DEF None
    <3>4. res # "FR_OK"
      BY <1>0, <2>1
    <3> QED
      BY <2>1, <2>2, <2>3, <2>5, <3>1, <3>2, <3>3, <3>4, FoundTruth
  <2>6. CASE ~l.err /\ l.win.kind = "pmbr" /\ Goes("gpt", 0)
    BY <2>1, <2>2, <2>3, <2>6, GoesTruth DEF Goes, Loaded
  <2>7. CASE ~l.err /\ ~(Class(l.win) < 2) /\ pc' = "mbr" /\ UNCHANGED <<fs, res>>
    <3>1. Class(win') >= 2
      BY <2>2, <2>7, ClassKind DEF Loaded
    <3> QED
      BY <2>1, <2>3, <2>7, <3>1, GoesTruth
  <2> QED
    BY <2>2, <2>4, <2>5, <2>6, <2>7
<1>8. CASE GptHeader
  <2>1. PICK l \in Loads(1) :
          /\ Loaded(l)
          /\ \/ \E r : r # "FR_OK" /\ Answer(r)
             \/ pc' = "entry" /\ UNCHANGED <<fs, res>>
    BY <1>8 DEF GptHeader, Fails
  <2>2. faults' \in 0 .. MaxFaults /\ pc = "gpt"
    BY <1>0, <1>8, <2>1, LoadsWhat DEF Loaded, GptHeader
  <2> QED
    BY <2>1, <2>2, FailTruth, GoesTruth
<1>9. CASE GptEntry
  <2>1. pc = "entry"
    BY <1>9 DEF GptEntry
  <2>2. CASE at = table[1]
    BY <1>0, <1>9, <2>2, FailTruth DEF GptEntry, Fails
  <2>3. CASE at # table[1]
    <3>1. PICK l \in Loads(table[2] + at \div table[3]) :
            /\ Loaded(l)
            /\ \/ \E r : r # "FR_OK" /\ Answer(r)
               \/ pc' = "entry" /\ UNCHANGED <<fs, res>>
               \/ pc' = "partition" /\ l.win.kind = "ptes" /\ UNCHANGED <<fs, res>>
      BY <1>9, <2>3 DEF GptEntry, Fails, Goes
    <3>2. faults' \in 0 .. MaxFaults /\ win' = l.win
      BY <1>0, <3>1, LoadsWhat DEF Loaded
    <3> QED
      BY <2>1, <3>1, <3>2, FailTruth, GoesTruth
  <2> QED
    BY <2>2, <2>3
<1>10. CASE GptPartition
  <2>1. pc = "partition" /\ win.kind = "ptes" /\ UNCHANGED medium
    BY <1>10 DEF GptPartition, TruthInv, Beside
  <2>2. PICK l \in Reads(vbr.lba) :
          /\ Loaded(l)
          /\ \/ \E r : r # "FR_OK" /\ Answer(r)
             \/ pc' = "entry" /\ UNCHANGED <<fs, res>>
             \/ ~l.err /\ Class(l.win) < 2 /\ Found(l)
    BY <1>10 DEF GptPartition, Fails, Goes
  <2>3. faults' \in 0 .. MaxFaults
    BY <1>0, <2>2, ReadsWhat DEF Loaded
  <2>4. CASE ~l.err /\ Class(l.win) < 2 /\ Found(l)
    <3>1. l.win.kind \in {"fat", "exfat"}
      BY <2>4, ClassKind
    <3>2. l.win = Content(l.winsect)
      BY <1>0, <2>1, <2>2, <2>4, <3>1, ReadsWhat
    <3>3. res # "FR_OK"
      BY <1>0, <2>1
    <3> QED
      BY <2>1, <2>2, <2>3, <2>4, <3>1, <3>2, <3>3, FoundTruth
  <2> QED
    BY <2>1, <2>2, <2>3, <2>4, FailTruth, GoesTruth
<1>11. CASE MbrPartition
  <2>1. pc = "mbr" /\ Class(win) >= 2 /\ UNCHANGED medium
    BY <1>11 DEF MbrPartition, TruthInv, Beside
  <2>2. CASE at > 4 \/ table[at] = 0
    <3>1. UNCHANGED <<win, faults>>
      BY <1>11, <2>2 DEF MbrPartition, window
    <3>2. (\E r : r # "FR_OK" /\ Answer(r)) \/ (pc' = "mbr" /\ UNCHANGED <<fs, res>>)
      BY <1>11, <2>2 DEF MbrPartition, Fails, Goes
    <3>3. Class(win') >= 2
      BY <2>1, <3>1 DEF Class
    <3> QED
      BY <1>0, <2>1, <3>1, <3>2, <3>3, FailTruth, GoesTruth
  <2>3. CASE ~(at > 4 \/ table[at] = 0)
    <3>1. PICK l \in Reads(table[at]) :
            /\ Loaded(l)
            /\ \/ \E r : r # "FR_OK" /\ Answer(r)
               \/ pc' = "mbr" /\ (l.err \/ Past(Class(l.win))) /\ UNCHANGED <<fs, res>>
               \/ ~l.err /\ Class(l.win) < 2 /\ Found(l)
      BY <1>11, <2>3 DEF MbrPartition, Fails, Goes
    <3>2. faults' \in 0 .. MaxFaults /\ win' = l.win
      BY <1>0, <3>1, ReadsWhat DEF Loaded
    <3>3. CASE pc' = "mbr" /\ (l.err \/ Past(Class(l.win))) /\ UNCHANGED <<fs, res>>
      <4>1. Class(l.win) >= 2
        BY <2>1, <3>3, ReadsWhat DEF Past, Reads
      <4>2. Class(win') >= 2
        BY <3>2, <4>1
      <4> QED
        BY <2>1, <3>2, <3>3, <4>2, GoesTruth
    <3>4. CASE ~l.err /\ Class(l.win) < 2 /\ Found(l)
      <4>1. l.win.kind \in {"fat", "exfat"}
        BY <3>4, ClassKind
      <4>2. l.win # win
        BY <2>1, <3>4, ClassKind
      <4>3. l.win = Content(l.winsect)
        BY <1>0, <3>1, <3>4, <4>2, ReadsWhat
      <4>4. res # "FR_OK"
        BY <1>0, <2>1
      <4> QED
        BY <2>1, <3>1, <3>2, <3>4, <4>1, <4>3, <4>4, FoundTruth
    <3> QED
      BY <3>1, <3>2, <3>3, <3>4, FailTruth
  <2> QED
    BY <2>2, <2>3
<1>12. CASE FatVolume
  <2>1. /\ pc = "fat" /\ UNCHANGED <<medium, win, faults, vbr>> /\ win.kind # "fsinfo"
    BY <1>12 DEF FatVolume, window, TruthInv
  <2>2. \/ Answer("FR_NO_FILESYSTEM")
        \/ fs' = FatLaid(vbr) /\ pc' = "fsinfo" /\ res' = res
        \/ fs' = [FatLaid(vbr) EXCEPT !.type = SubType(Nclst(vbr))] /\ res' = "FR_OK" /\ pc' = "idle"
    BY <1>12 DEF FatVolume, Mounted
  <2>3. CASE Answer("FR_NO_FILESYSTEM")
    BY <1>0, <2>1, <2>3, FailTruth
  <2>4. CASE ~Answer("FR_NO_FILESYSTEM")
    <3>1. Shape(fs') /\ fs'.bsect = fs.bsect /\ fs'.free = Unknown
      <4>1. \E x : fs' = FatLaid(vbr) \/ fs' = [FatLaid(vbr) EXCEPT !.type = x]
        BY <2>2, <2>4
      <4>2. Shape(FatLaid(vbr)) /\ FatLaid(vbr).bsect = fs.bsect /\ FatLaid(vbr).free = Unknown
        BY <1>0, LaidFat
      <4> QED
        BY <4>1, <4>2 DEF Shape, NoFs
    <3>2. VbrTrue'
      BY <1>0, <1>a, <2>1, <3>1 DEF VbrTrue
    <3> QED
      BY <1>0, <2>1, <2>2, <2>4, <3>1, <3>2 DEF TruthInv, CountsTrue
  <2> QED
    BY <2>3, <2>4
<1>13. CASE FsInfo
  <2>1. pc = "fsinfo" /\ UNCHANGED <<medium, vbr>> /\ win.kind # "fsinfo" /\ fs.free = Unknown
    BY <1>13 DEF FsInfo, Beside, TruthInv
  <2>2. PICK l \in Loads(fs.bsect + 1) :
          /\ Loaded(l) /\ res' = "FR_OK" /\ pc' = "idle"
          /\ \/ /\ l.win.kind = "fsinfo"
                /\ fs' = [fs EXCEPT !.type = "fat32", !.free = l.win.free, !.last = l.win.last]
             \/ fs' = [fs EXCEPT !.type = "fat32"]
    BY <1>13 DEF FsInfo, Mounted
  <2>3. faults' \in faults .. MaxFaults /\ (l.win.kind = "fsinfo" => l.win = Content(fs.bsect + 1))
    BY <1>0, <2>1, <2>2, LoadsWhat, MountAssumption DEF Loaded, Loads, Reads
  <2>4. Shape(fs') /\ fs'.bsect = fs.bsect
    BY <1>0, <2>2 DEF Shape, NoFs
  <2>5. CountsTrue'
    <3>1. CASE fs' = [fs EXCEPT !.type = "fat32"]
      BY <1>0, <2>1, <3>1, Placed DEF CountsTrue
    <3>2. CASE /\ l.win.kind = "fsinfo"
               /\ fs' = [fs EXCEPT !.type = "fat32", !.free = l.win.free, !.last = l.win.last]
      <4>1. fs'.free = l.win.free /\ fs'.last = l.win.last
        BY <1>0, <3>2 DEF Shape, NoFs
      <4> QED
        BY <1>a, <2>1, <2>3, <2>4, <3>2, <4>1 DEF CountsTrue
    <3> QED
      BY <2>2, <3>1, <3>2
  <2>6. VbrTrue'
    BY <1>0, <1>a, <2>1, <2>3, <2>4 DEF VbrTrue
  <2> QED
    BY <1>0, <2>2, <2>3, <2>4, <2>5, <2>6 DEF TruthInv
<1>14. CASE ExfatVolume
  <2>1. pc = "exfat" /\ UNCHANGED <<medium, win, faults, vbr>>
    BY <1>14 DEF ExfatVolume, window
  <2>2. \/ Answer("FR_NO_FILESYSTEM")
        \/ fs' = ExLaid(vbr) /\ pc' = "bitmap" /\ res' = res
    BY <1>14 DEF ExfatVolume
  <2>3. CASE Answer("FR_NO_FILESYSTEM")
    BY <1>0, <2>1, <2>3, FailTruth
  <2>4. CASE ~Answer("FR_NO_FILESYSTEM")
    <3>1. Shape(fs') /\ fs'.bsect = fs.bsect /\ fs'.free = Unknown
      BY <1>0, <2>2, <2>4, LaidExfat
    <3>2. VbrTrue'
      BY <1>0, <1>a, <2>1, <3>1 DEF VbrTrue
    <3> QED
      BY <1>0, <2>1, <2>2, <2>4, <3>1, <3>2 DEF TruthInv
  <2> QED
    BY <2>3, <2>4
<1>15. CASE FindBitmap
  <2>1. pc = "bitmap" /\ UNCHANGED medium /\ fs.free = Unknown
    BY <1>15 DEF FindBitmap, Beside, TruthInv
  <2>2. faults' \in faults .. MaxFaults
    <3>1. CASE at >= fs.csize
      BY <1>0, <1>15, <3>1 DEF FindBitmap
    <3>2. CASE ~(at >= fs.csize)
      <4>1. \E l \in Loads(clst2sect(fs, fs.dirbase) + at) : faults' = faults + l.fault
        BY <1>15, <3>2 DEF FindBitmap, Loaded
      <4> QED
        BY <1>0, <4>1, MountAssumption DEF Loads, Reads
    <3> QED
      BY <3>1, <3>2
  <2>3. \/ \E r : r # "FR_OK" /\ Answer(r)
        \/ pc' = "bitmap" /\ UNCHANGED <<vbr, fs, res>>
        \/ /\ \E x : fs' = [fs EXCEPT !.bitbase = x]
           /\ pc' = "contiguous" /\ UNCHANGED <<vbr, res>>
    BY <1>15 DEF FindBitmap, Fails, Goes
  <2>4. CASE \E r : r # "FR_OK" /\ Answer(r)
    BY <1>0, <2>2, <2>4, FailTruth
  <2>5. CASE ~ \E r : r # "FR_OK" /\ Answer(r)
    <3>1. Shape(fs') /\ fs'.bsect = fs.bsect /\ fs'.free = Unknown
      BY <1>0, <2>1, <2>3, <2>5, Completed
    <3>2. VbrTrue'
      BY <1>0, <1>a, <2>1, <2>2, <2>3, <2>5, <3>1 DEF VbrTrue
    <3> QED
      BY <1>0, <2>1, <2>2, <2>3, <2>5, <3>1, <3>2 DEF TruthInv
  <2> QED
    BY <2>4, <2>5
<1>16. CASE Contiguous
  <2>1. pc = "contiguous" /\ UNCHANGED medium /\ fs.free = Unknown
    BY <1>16 DEF Contiguous, Beside, TruthInv
  <2>2. PICK l \in Loads(fs.fatbase + at \div PerFat) :
          /\ faults' = faults + l.fault
          /\ \/ \E r : r # "FR_OK" /\ Answer(r)
             \/ pc' = "contiguous" /\ UNCHANGED <<vbr, fs, res>>
             \/ fs' = [fs EXCEPT !.type = "exfat"] /\ res' = "FR_OK" /\ pc' = "idle" /\ UNCHANGED vbr
    BY <1>16 DEF Contiguous, Fails, Goes, Mounted, Loaded
  <2>3. faults' \in faults .. MaxFaults
    BY <1>0, <2>2, MountAssumption DEF Loads, Reads
  <2>4. CASE \E r : r # "FR_OK" /\ Answer(r)
    BY <1>0, <2>3, <2>4, FailTruth
  <2>5. CASE ~ \E r : r # "FR_OK" /\ Answer(r)
    <3>1. Shape(fs') /\ fs'.bsect = fs.bsect /\ fs'.free = Unknown
      BY <1>0, <2>1, <2>2, <2>5, Placed
    <3>2. VbrTrue'
      BY <1>0, <1>a, <2>1, <2>2, <2>3, <2>5, <3>1 DEF VbrTrue
    <3> QED
      BY <1>0, <2>1, <2>2, <2>3, <2>5, <3>1, <3>2 DEF TruthInv, CountsTrue
  <2> QED
    BY <2>4, <2>5
<1>17. CASE Access
  <2>1. pc = "idle" /\ UNCHANGED <<medium, pc, win, vbr, fs>> /\ faults' \in faults .. MaxFaults
    BY <1>0, <1>17, FaultsBounded DEF Access, Command, window
  <2>2. VbrTrue' /\ CountsTrue'
    BY <1>0, <1>a, <2>1 DEF VbrTrue, CountsTrue, TruthInv
  <2> QED
    BY <1>0, <2>1, <2>2 DEF TruthInv, Shape
<1>18. CASE Refused
  <2>1. pc = "idle" /\ UNCHANGED <<medium, pc, win, vbr, faults>> /\ fs' = [fs EXCEPT !.type = "none"]
    BY <1>18 DEF Refused, window
  <2>2. Shape(fs') /\ fs'.bsect = fs.bsect /\ fs'.free = fs.free /\ fs'.last = fs.last
    BY <1>0, <2>1, Placed
  <2>3. VbrTrue' /\ CountsTrue'
    BY <1>0, <1>a, <2>1, <2>2 DEF VbrTrue, CountsTrue, TruthInv
  <2> QED
    BY <1>0, <2>1, <2>2, <2>3 DEF TruthInv
<1>19. CASE UNCHANGED vars
  <2>1. UNCHANGED <<medium, pc, win, vbr, fs, faults, res>>
    BY <1>19 DEF vars, window
  <2> QED
    BY <1>a, <2>1 DEF TruthInv, VbrTrue, CountsTrue, Class, Shape
<1> QED
  BY <1>1, <1>2, <1>3, <1>4, <1>5, <1>6, <1>7, <1>8, <1>9, <1>10, <1>11, <1>12, <1>13, <1>14,
     <1>15, <1>16, <1>17, <1>18, <1>19 DEF Next

\* The parameters and the counts of a mounted volume are those of its own boot sector
\* and of the sector after it, on every medium and under every failure.
THEOREM MountedTruly == Spec => []MountTrue
<1>1. Init => TruthInv
  BY MountAssumption, NoFsShape DEF Init, TruthInv, Places, Constructor, Search, Layout
<1>2. TruthInv => MountTrue
  BY DEF TruthInv, VbrTrue, CountsTrue, MountTrue
<1> QED
  BY <1>1, <1>2, TruthStep, PTL DEF Spec

-----------------------------------------------------------------------------
(* Types *)

FsTypes == {"none", "fat12", "fat16", "fat32", "exfat"}
TypeInv ==
    /\ medium \in Media /\ ok \in BOOLEAN /\ devok \in BOOLEAN /\ status \in {"success", "failed"}
    /\ calls \in 0 .. MaxCalls
    /\ fs.type \in FsTypes
    /\ res = "FR_OK" => fs.type # "none"

\* Any step but those that end a mount leaves the type of the volume alone.
LEMMA TypeKept ==
    ASSUME Shape(fs), NEW x, NEW v
    PROVE  /\ [fs EXCEPT !.bsect = x].type = fs.type /\ [fs EXCEPT !.ss = x].type = fs.type
           /\ [fs EXCEPT !.bitbase = x].type = fs.type
           /\ FatLaid(v).type = fs.type /\ ExLaid(v).type = fs.type
  BY DEF Shape, NoFs, FatLaid, ExLaid
LEMMA ReadsType ==
    ASSUME NEW sect, devok \in BOOLEAN
    PROVE  \A l \in Loads(sect) \cup Reads(sect) : l.devok \in BOOLEAN
<1>1. ASSUME NEW l \in Reads(sect) PROVE l.devok \in BOOLEAN
  <2>1. \/ l.devok = FALSE
        \/ l.devok = TRUE
        \/ \E d \in BOOLEAN : l.devok = d
    BY <1>1 DEF Reads
  <2> QED
    BY <2>1
<1>2. ASSUME NEW l \in Loads(sect), l \notin Reads(sect) PROVE l.devok \in BOOLEAN
  <2>1. l.devok = devok
    BY <1>2 DEF Loads
  <2> QED
    BY <2>1
<1> QED
  BY <1>1, <1>2
LEMMA OutcomesType == \A o \in Outcomes : o.devok \in BOOLEAN /\ o.status \in {"success", "failed"}
<1> SUFFICES ASSUME NEW o \in Outcomes PROVE o.devok \in BOOLEAN /\ o.status \in {"success", "failed"}
  OBVIOUS
<1>1. o.devok = TRUE \/ o.devok = FALSE
  BY DEF Outcomes
<1>2. o.status = "success" \/ o.status = "failed"
  BY DEF Outcomes
<1> QED
  BY <1>1, <1>2

LEMMA TypeStep == TruthInv /\ TypeInv /\ [Next]_vars => TypeInv'
<1> SUFFICES ASSUME TruthInv, TypeInv, [Next]_vars PROVE TypeInv'
  OBVIOUS
<1>0. Shape(fs) /\ (res = "FR_OK" => pc = "idle") /\ devok \in BOOLEAN /\ NoFs.type = "none"
  BY DEF TruthInv, TypeInv, NoFs
<1> USE DEF TypeInv, FsTypes, Beside, Goes, Fails, Found, Answer, Mounted
<1>1. CASE TestUnitReady
  BY <1>1, OutcomesType DEF TestUnitReady, Command, Mounting
<1>2. CASE RequestSense
  BY <1>2, OutcomesType DEF RequestSense, Command, Mounting
<1>3. CASE TestAgain
  BY <1>3, OutcomesType DEF TestAgain, Command, Mounting
<1>4. CASE ReadCapacity10
  BY <1>4, OutcomesType DEF ReadCapacity10, Measured, Command, Mounting
<1>5. CASE ReadCapacity16
  BY <1>5, OutcomesType DEF ReadCapacity16, Measured, Command, Mounting
<1>6. CASE Mount
  BY <1>0, <1>6 DEF Mount, unit, Shape, NoFs
<1>7. CASE Sector0
  BY <1>0, <1>7, ReadsType DEF Sector0, Loaded, Shape, NoFs
<1>8. CASE GptHeader
  BY <1>0, <1>8, ReadsType DEF GptHeader, Loaded
<1>9. CASE GptEntry
  BY <1>0, <1>9, ReadsType DEF GptEntry, Loaded
<1>10. CASE GptPartition
  BY <1>0, <1>10, ReadsType DEF GptPartition, Loaded, Shape, NoFs
<1>11. CASE MbrPartition
  BY <1>0, <1>11, ReadsType DEF MbrPartition, Loaded, Shape, NoFs
<1>12. CASE FatVolume
  BY <1>0, <1>12, TypeKept, ZenonT(30) DEF FatVolume, FatLaid, SubType, Shape, NoFs, unit
<1>13. CASE FsInfo
  BY <1>0, <1>13, ReadsType DEF FsInfo, Loaded, Shape, NoFs
<1>14. CASE ExfatVolume
  BY <1>0, <1>14, TypeKept DEF ExfatVolume, unit
<1>15. CASE FindBitmap
  BY <1>0, <1>15, ReadsType DEF FindBitmap, Loaded, Shape, NoFs
<1>16. CASE Contiguous
  BY <1>0, <1>16, ReadsType DEF Contiguous, Loaded, Shape, NoFs
<1>17. CASE Access
  BY <1>17, OutcomesType, MountAssumption DEF Access, Command
<1>18. CASE Refused
  BY <1>0, <1>18, MountAssumption DEF Refused, unit, Shape, NoFs
<1>19. CASE UNCHANGED vars
  BY <1>19 DEF vars, unit
<1> QED
  BY <1>1, <1>2, <1>3, <1>4, <1>5, <1>6, <1>7, <1>8, <1>9, <1>10, <1>11, <1>12, <1>13, <1>14,
     <1>15, <1>16, <1>17, <1>18, <1>19 DEF Next

\* Types, and that a mount that answers FR_OK has found a volume.
THEOREM TypeCorrect == Spec => []TypeOK
<1>1. Init => SizeInv /\ TruthInv /\ TypeInv
  BY MountAssumption, NoFsShape
     DEF Init, SizeInv, TruthInv, TypeInv, FsTypes, Places, Constructor, Search, Layout, NoFs
<1>2. SizeInv /\ TruthInv /\ TypeInv => TypeOK
  BY DEF SizeInv, TruthInv, TypeInv, FsTypes, Places, Constructor, Search, Layout, TypeOK
<1> QED
  BY <1>1, <1>2, SizeStep, TruthStep, TypeStep, PTL DEF Spec

-----------------------------------------------------------------------------
(* Where the areas are *)

\* What the parameters of each kind of volume make of the FATFS.
FatPlaced ==
    /\ FatSound(vbr)
    /\ fs.n_fats = vbr.nfats /\ fs.fsize = vbr.fatsz /\ fs.csize = vbr.csize /\ fs.n_rootdir = vbr.rootent
    /\ fs.n_fatent = Nclst(vbr) + 2
    /\ fs.fatbase = fs.bsect + vbr.nrsv
    /\ fs.database = fs.bsect + Sysect(vbr)
    /\ SubType(Nclst(vbr)) # "fat32" => fs.dirbase = fs.bsect + vbr.nrsv + Fasize(vbr)
ExPlaced ==
    /\ ExSound(vbr)
    /\ fs.csize = 2 ^ vbr.cshift
    /\ fs.n_fatent = vbr.nclst + 2
    /\ fs.fatbase = fs.bsect + vbr.fatofs
    /\ fs.database = fs.bsect + vbr.dataofs

IsFat == vbr \in Written /\ vbr.kind = "fat"
IsExfat == vbr \in Written /\ vbr.kind = "exfat"
\* The numbers find_volume and mount_volume go by, and the areas they end with.
PlaceInv ==
    /\ pc \in Places /\ Shape(fs) /\ medium \in Media
    /\ win \in Written \cup {None} /\ at \in Nat
    /\ pc \in {"entry", "partition"} => \E g \in Written : g.kind = "gpt" /\ table = <<g.n, g.at, g.per>>
    /\ pc = "partition" => vbr.lba \in Nat
    /\ pc = "mbr" => table \in [1 .. 4 -> Nat] /\ at # 0
    /\ pc \in Search \cup Layout \cup {"idle"} => fs.ss = block_size /\ block_size \in SectorSizes
    /\ pc \in Layout \cup {"idle"} => fs.bsect \in Nat
    /\ pc \in {"fat", "fsinfo"} => IsFat
    /\ pc \in {"exfat", "bitmap", "contiguous"} => IsExfat
    /\ pc = "fsinfo" => FatPlaced /\ SubType(Nclst(vbr)) = "fat32"
    /\ pc \in {"bitmap", "contiguous"} => ExPlaced
    /\ fs.type # "none" => /\ pc = "idle"
                           /\ \/ fs.type = "exfat" /\ IsExfat /\ ExPlaced
                              \/ fs.type = SubType(Nclst(vbr)) /\ IsFat /\ FatPlaced

\* What is on the medium, and what the window holds after a read.
LEMMA ContentKind == ASSUME medium \in Media, NEW s PROVE Content(s) \in Written \cup {None}
  BY DEF Content, Written
LEMMA ReadsKind ==
    ASSUME medium \in Media, win \in Written \cup {None}, NEW s, NEW l, l \in Reads(s) \/ l \in Loads(s)
    PROVE  l.win \in Written \cup {None} /\ (~l.err => l.winsect = s)
<1>1. Content(s) \in Written \cup {None}
  BY ContentKind
<1>2. ASSUME l \in Reads(s) PROVE l.win \in Written \cup {None} /\ (~l.err => l.winsect = s)
  BY <1>1, <1>2 DEF Reads
<1>3. ASSUME l \in Loads(s), l \notin Reads(s) PROVE l.win = win /\ (~l.err => l.winsect = s)
  BY <1>3 DEF Loads
<1> QED
  BY <1>2, <1>3

\* Setting a field of the FATFS leaves the others.
LEMMA Fields ==
    ASSUME Shape(fs), NEW x
    PROVE  /\ \A y \in DOMAIN NoFs \ {"ss"} : [fs EXCEPT !.ss = x][y] = fs[y]
           /\ \A y \in DOMAIN NoFs \ {"type"} : [fs EXCEPT !.type = x][y] = fs[y]
           /\ \A y \in DOMAIN NoFs \ {"bsect"} : [fs EXCEPT !.bsect = x][y] = fs[y]
           /\ \A y \in DOMAIN NoFs \ {"bitbase"} : [fs EXCEPT !.bitbase = x][y] = fs[y]
           /\ [fs EXCEPT !.ss = x].ss = x /\ [fs EXCEPT !.type = x].type = x
           /\ [fs EXCEPT !.bsect = x].bsect = x /\ [fs EXCEPT !.bitbase = x].bitbase = x
  BY DEF Shape, NoFs

\* The ways on from a search for a volume: it fails, goes on, or has found one.
LEMMA FailPlace ==
    ASSUME PlaceInv, NEW r, Answer(r), UNCHANGED medium, win' \in Written \cup {None}, at' \in Nat
    PROVE  PlaceInv'
<1>1. pc' = "disposed" /\ fs' = NoFs
  BY DEF Answer
<1>2. fs'.type = "none" /\ Shape(fs')
  BY <1>1, NoFsShape DEF NoFs
<1> QED
  BY <1>1, <1>2 DEF PlaceInv, Places, Constructor, Search, Layout
LEMMA GoPlace ==
    ASSUME PlaceInv, pc \in Search, UNCHANGED <<medium, fs, block_size>>, win' \in Written \cup {None}, at' \in Nat,
           pc' \in Search,
           pc' \in {"entry", "partition"} => \E g \in Written : g.kind = "gpt" /\ table' = <<g.n, g.at, g.per>>,
           pc' = "partition" => vbr'.lba \in Nat,
           pc' = "mbr" => table' \in [1 .. 4 -> Nat] /\ at' # 0
    PROVE  PlaceInv'
<1>1. Shape(fs') /\ fs'.type = "none" /\ fs'.ss = block_size' /\ block_size' \in SectorSizes
  BY DEF PlaceInv, Places, Constructor, Search, Layout
<1> QED
  BY <1>1 DEF PlaceInv, Places, Constructor, Search, Layout
LEMMA FoundPlace ==
    ASSUME PlaceInv, pc \in Search, UNCHANGED <<medium, block_size>>, NEW s \in Nat, NEW l, ~l.err,
           l \in Reads(s), Loaded(l), Class(l.win) < 2, Found(l)
    PROVE  PlaceInv'
<1>1. /\ Shape(fs) /\ fs.ss = block_size /\ block_size \in SectorSizes /\ fs.type = "none" /\ medium \in Media
      /\ win \in Written \cup {None} /\ at \in Nat
  BY DEF PlaceInv, Places, Constructor, Search, Layout
<1>2. l.win \in Written \cup {None} /\ l.winsect = s /\ l.win.kind \in {"fat", "exfat"} /\ win' = l.win
  BY <1>1, ReadsKind, ClassKind DEF Loaded
<1>3. l.win \in Written
  BY <1>2 DEF None
<1>4. fs' = [fs EXCEPT !.bsect = s] /\ vbr' = l.win /\ at' = at
      /\ pc' = IF l.win.kind = "exfat" THEN "exfat" ELSE "fat"
  BY <1>2 DEF Found
<1>5. Shape(fs') /\ fs'.ss = block_size /\ fs'.type = "none" /\ fs'.bsect \in Nat
  BY <1>1, <1>4 DEF Shape, NoFs
<1> QED
  BY <1>1, <1>2, <1>3, <1>4, <1>5 DEF PlaceInv, Places, Constructor, Search, Layout, IsFat, IsExfat

\* The areas of a FAT and of an exFAT volume as they are laid out.
LEMMA LaidFatPlaced ==
    ASSUME Shape(fs), FatSound(vbr), NEW f, f = FatLaid(vbr) \/ f = [FatLaid(vbr) EXCEPT !.type = SubType(Nclst(vbr))]
    PROVE  /\ Shape(f) /\ f.ss = fs.ss /\ f.bsect = fs.bsect
           /\ f = FatLaid(vbr) => f.type = fs.type
           /\ f # FatLaid(vbr) => f.type = SubType(Nclst(vbr))
           /\ fs' = f /\ UNCHANGED vbr => FatPlaced'
<1> DEFINE g == FatLaid(vbr)
<1>a. Shape(g) /\ g.ss = fs.ss /\ g.bsect = fs.bsect /\ g.type = fs.type
  BY ZenonT(30) DEF Shape, NoFs, FatLaid
<1>b. /\ g.n_fats = vbr.nfats /\ g.fsize = vbr.fatsz /\ g.csize = vbr.csize /\ g.n_rootdir = vbr.rootent
      /\ g.n_fatent = Nclst(vbr) + 2
  BY ZenonT(30) DEF Shape, NoFs, FatLaid
<1>c. /\ g.fatbase = fs.bsect + vbr.nrsv
      /\ g.database = fs.bsect + Sysect(vbr)
      /\ SubType(Nclst(vbr)) # "fat32" => g.dirbase = fs.bsect + vbr.nrsv + Fasize(vbr)
  BY ZenonT(30) DEF Shape, NoFs, FatLaid
<1> HIDE DEF g
<1>1. /\ Shape(f) /\ f.ss = fs.ss /\ f.bsect = fs.bsect
      /\ f = FatLaid(vbr) => f.type = fs.type
      /\ f # FatLaid(vbr) => f.type = SubType(Nclst(vbr))
  <2>1. f = g \/ f = [g EXCEPT !.type = SubType(Nclst(vbr))]
    BY DEF g
  <2>2. /\ Shape(f) /\ f.ss = fs.ss /\ f.bsect = fs.bsect
        /\ f = g => f.type = fs.type
        /\ f # g => f.type = SubType(Nclst(vbr))
    BY <1>a, <2>1 DEF Shape, NoFs
  <2> QED
    BY <2>2 DEF g
<1>2. /\ f.n_fats = vbr.nfats /\ f.fsize = vbr.fatsz /\ f.csize = vbr.csize /\ f.n_rootdir = vbr.rootent
      /\ f.n_fatent = Nclst(vbr) + 2
      /\ f.fatbase = fs.bsect + vbr.nrsv
      /\ f.database = fs.bsect + Sysect(vbr)
      /\ SubType(Nclst(vbr)) # "fat32" => f.dirbase = fs.bsect + vbr.nrsv + Fasize(vbr)
  <2>1. f = g \/ f = [g EXCEPT !.type = SubType(Nclst(vbr))]
    BY DEF g
  <2>2. /\ f.n_fats = g.n_fats /\ f.fsize = g.fsize /\ f.csize = g.csize /\ f.n_rootdir = g.n_rootdir
        /\ f.n_fatent = g.n_fatent /\ f.fatbase = g.fatbase /\ f.database = g.database /\ f.dirbase = g.dirbase
    BY <1>a, <2>1 DEF Shape, NoFs
  <2> QED
    BY <1>b, <1>c, <2>2, Zenon
<1>3. ASSUME fs' = f, UNCHANGED vbr
      PROVE  /\ PerDir' = PerDir /\ Fasize(vbr)' = Fasize(vbr) /\ Sysect(vbr)' = Sysect(vbr)
             /\ Nclst(vbr)' = Nclst(vbr) /\ FatSound(vbr)'
  BY <1>1, <1>3 DEF PerDir, Fasize, Sysect, Nclst, FatSound
<1> QED
  BY <1>1, <1>2, <1>3 DEF FatPlaced
LEMMA LaidExfatPlaced ==
    ASSUME Shape(fs), ExSound(vbr), fs' = ExLaid(vbr), UNCHANGED vbr
    PROVE  Shape(fs') /\ fs'.ss = fs.ss /\ fs'.bsect = fs.bsect /\ fs'.type = fs.type /\ ExPlaced'
<1>1. /\ Shape(fs') /\ fs'.ss = fs.ss /\ fs'.bsect = fs.bsect /\ fs'.type = fs.type
      /\ fs'.csize = 2 ^ vbr.cshift /\ fs'.n_fatent = vbr.nclst + 2
      /\ fs'.fatbase = fs.bsect + vbr.fatofs /\ fs'.database = fs.bsect + vbr.dataofs
  BY ZenonT(30) DEF Shape, NoFs, ExLaid
<1> QED
  BY <1>1 DEF ExPlaced, ExSound
\* What is set afterwards is not what they are placed by.
SamePlace ==
    /\ UNCHANGED <<vbr, medium, block_size>>
    /\ \A x \in DOMAIN NoFs \ {"type", "free", "last", "bitbase"} : fs'[x] = fs[x]
LEMMA SamePlaced ==
    ASSUME SamePlace
    PROVE  /\ FatPlaced' = FatPlaced /\ ExPlaced' = ExPlaced /\ fs'.ss = fs.ss /\ fs'.bsect = fs.bsect
           /\ Nclst(vbr)' = Nclst(vbr) /\ IsFat' = IsFat /\ IsExfat' = IsExfat
<1>1. /\ fs'.ss = fs.ss /\ fs'.bsect = fs.bsect /\ fs'.n_fats = fs.n_fats /\ fs'.fsize = fs.fsize
      /\ fs'.csize = fs.csize /\ fs'.n_rootdir = fs.n_rootdir /\ fs'.n_fatent = fs.n_fatent
      /\ fs'.fatbase = fs.fatbase /\ fs'.database = fs.database /\ fs'.dirbase = fs.dirbase /\ vbr' = vbr
  BY DEF SamePlace, NoFs
<1>2. PerDir' = PerDir
  BY <1>1 DEF PerDir
<1>3. Fasize(vbr)' = Fasize(vbr)
  BY <1>1 DEF Fasize
<1>4. Sysect(vbr)' = Sysect(vbr)
  BY <1>1, <1>2, <1>3 DEF Sysect
<1>5. Nclst(vbr)' = Nclst(vbr)
  BY <1>1, <1>4 DEF Nclst
<1>6. FatSound(vbr)' = FatSound(vbr)
  BY <1>1, <1>2, <1>4, <1>5, Zenon DEF FatSound
<1>7. ExSound(vbr)' = ExSound(vbr)
  BY <1>1, Zenon DEF ExSound
<1> QED
  BY <1>1, <1>3, <1>4, <1>5, <1>6, <1>7, Zenon DEF FatPlaced, ExPlaced, IsFat, IsExfat

\* Whatever fails, the numbers stay those of some sector, and the areas those of the volume.
LEMMA PlaceStep == SizeInv /\ TruthInv /\ PlaceInv /\ [Next]_vars => PlaceInv'
<1> SUFFICES ASSUME SizeInv, TruthInv, PlaceInv, [Next]_vars PROVE PlaceInv'
  OBVIOUS
<1>0. /\ Shape(fs) /\ medium \in Media /\ win \in Written \cup {None} /\ at \in Nat
      /\ pc # "idle" => fs.type = "none"
  BY DEF PlaceInv
<1>a. ASSUME pc \in Constructor, pc' \in Constructor \cup {"mount"}, UNCHANGED Mounting PROVE PlaceInv'
  BY <1>a DEF Mounting, window, PlaceInv, Places, Constructor, Search, Layout, Shape
<1>1. CASE TestUnitReady
  BY <1>1, <1>a DEF TestUnitReady, Constructor
<1>2. CASE RequestSense
  BY <1>2, <1>a DEF RequestSense, Constructor
<1>3. CASE TestAgain
  BY <1>3, <1>a DEF TestAgain, Constructor
<1>4. CASE ReadCapacity10
  BY <1>4, <1>a DEF ReadCapacity10, Constructor
<1>5. CASE ReadCapacity16
  BY <1>5, <1>a DEF ReadCapacity16, Constructor
<1>6. CASE Mount
  <2>1. pc = "mount" /\ UNCHANGED <<medium, win, at, block_size>>
    BY <1>6 DEF Mount, unit, window
  <2>2. CASE \E r : Answer(r)
    BY <1>0, <2>1, <2>2, FailPlace
  <2>3. CASE ~\E r : Answer(r)
    <3>1. SizeFits(block_size % CountWord) /\ pc' = "sector0" /\ fs' = [fs EXCEPT !.ss = block_size % CountWord]
      BY <1>6, <2>3 DEF Mount
    <3>2. block_size \in SectorSizes /\ block_size % CountWord = block_size
      <4>1. block_size \in BlockSizes \cup {0} /\ CountWord \in Nat \ {0} /\ MinSS \in Nat \ {0}
        BY MountAssumption DEF SizeInv
      <4>2. block_size # 0 /\ block_size # CountWord
        BY <3>1, <4>1 DEF SizeFits
      <4>3. block_size \in 0 .. CountWord - 1 /\ block_size \in BlockSizes
        BY <4>1, <4>2, BlocksShort
      <4>4. block_size % CountWord = block_size
        BY <4>1, <4>3
      <4> QED
        BY <3>1, <4>3, <4>4 DEF SizeFits, SectorSizes
    <3>3. Shape(fs') /\ fs'.ss = block_size /\ fs'.type = "none"
      BY <1>0, <2>1, <3>1, <3>2 DEF Shape, NoFs
    <3> QED
      BY <1>0, <2>1, <3>1, <3>2, <3>3 DEF PlaceInv, Places, Constructor, Search, Layout
  <2> QED
    BY <2>2, <2>3
<1>7. CASE Sector0
  <2>1. pc = "sector0" /\ UNCHANGED <<medium, block_size>>
    BY <1>7 DEF Sector0, Beside
  <2>2. PICK l \in Reads(0) :
          /\ Loaded(l)
          /\ \/ UNCHANGED at /\ \E r : Answer(r)
             \/ ~l.err /\ Class(l.win) < 2 /\ Found(l)
             \/ Goes("gpt", 0)
             \/ /\ pc' = "mbr" /\ at' = 1 /\ UNCHANGED fs
                /\ table' = IF l.win.kind = "mbr" THEN l.win.part ELSE <<0, 0, 0, 0>>
    BY <1>7 DEF Sector0, Fails
  <2>3. l.win \in Written \cup {None} /\ win' = l.win
    BY <1>0, <2>2, ReadsKind DEF Loaded
  <2>4. CASE UNCHANGED at /\ \E r : Answer(r)
    BY <1>0, <2>1, <2>3, <2>4, FailPlace
  <2>5. CASE ~l.err /\ Class(l.win) < 2 /\ Found(l)
    BY <2>1, <2>2, <2>5, FoundPlace DEF Search
  <2>6. CASE Goes("gpt", 0)
    BY <2>1, <2>3, <2>6, GoPlace DEF Search, Goes
  <2>7. CASE /\ pc' = "mbr" /\ at' = 1 /\ UNCHANGED fs
             /\ table' = IF l.win.kind = "mbr" THEN l.win.part ELSE <<0, 0, 0, 0>>
    <3>1. table' \in [1 .. 4 -> Nat]
      <4>1. l.win.kind = "mbr" => l.win.part \in [1 .. 4 -> Nat]
        BY <2>3, MediaTyped DEF SectorTyped, None
      <4>2. <<0, 0, 0, 0>> \in [1 .. 4 -> Nat]
        OBVIOUS
      <4> QED
        BY <2>7, <4>1, <4>2
    <3> QED
      BY <2>1, <2>3, <2>7, <3>1, GoPlace DEF Search
  <2> QED
    BY <2>2, <2>4, <2>5, <2>6, <2>7
<1>8. CASE GptHeader
  <2>1. pc = "gpt" /\ UNCHANGED <<medium, block_size>>
    BY <1>8 DEF GptHeader, Beside
  <2>2. PICK l \in Loads(1) :
          /\ Loaded(l)
          /\ \/ UNCHANGED at /\ \E r : Answer(r)
             \/ l.win.kind = "gpt" /\ pc' = "entry" /\ at' = 0 /\ table' = <<l.win.n, l.win.at, l.win.per>> /\ UNCHANGED fs
    BY <1>8 DEF GptHeader, Fails
  <2>3. l.win \in Written \cup {None} /\ win' = l.win
    BY <1>0, <2>2, ReadsKind DEF Loaded
  <2>4. CASE UNCHANGED at /\ \E r : Answer(r)
    BY <1>0, <2>1, <2>3, <2>4, FailPlace
  <2>5. CASE l.win.kind = "gpt" /\ pc' = "entry" /\ at' = 0 /\ table' = <<l.win.n, l.win.at, l.win.per>> /\ UNCHANGED fs
    <3>1. l.win \in Written
      BY <2>3, <2>5 DEF None
    <3> QED
      BY <2>1, <2>3, <2>5, <3>1, GoPlace DEF Search
  <2> QED
    BY <2>2, <2>4, <2>5
<1>9. CASE GptEntry
  <2>1. /\ pc = "entry" /\ UNCHANGED <<medium, block_size>>
        /\ \E g \in Written : g.kind = "gpt" /\ table = <<g.n, g.at, g.per>>
    BY <1>9 DEF GptEntry, Beside, PlaceInv
  <2>2. CASE at = table[1]
    BY <1>0, <1>9, <2>1, <2>2, FailPlace DEF GptEntry, Fails, window
  <2>3. CASE at # table[1]
    <3>1. PICK l \in Loads(table[2] + at \div table[3]) :
            /\ Loaded(l)
            /\ \/ UNCHANGED at /\ \E r : Answer(r)
               \/ /\ l.win.kind = "ptes" /\ pc' = "partition" /\ at' = at + 1 /\ UNCHANGED <<table, fs>>
                  /\ vbr' = [kind |-> "look", lba |-> l.win.lba[(at % table[3]) + 1]]
               \/ Goes("entry", at + 1)
      BY <1>9, <2>3 DEF GptEntry, Fails
    <3>2. l.win \in Written \cup {None} /\ win' = l.win
      BY <1>0, <3>1, ReadsKind DEF Loaded
    <3>3. CASE UNCHANGED at /\ \E r : Answer(r)
      BY <1>0, <2>1, <3>2, <3>3, FailPlace
    <3>4. CASE /\ l.win.kind = "ptes" /\ pc' = "partition" /\ at' = at + 1 /\ UNCHANGED <<table, fs>>
               /\ vbr' = [kind |-> "look", lba |-> l.win.lba[(at % table[3]) + 1]]
      <4>1. PICK g \in Written : g.kind = "gpt" /\ table = <<g.n, g.at, g.per>>
        BY <2>1
      <4>2. l.win \in Written
        BY <3>2, <3>4 DEF None
      <4>3. l.win.lba \in [1 .. g.per -> Nat] /\ g.per \in Nat \ {0}
        BY <3>4, <4>1, <4>2, MediaTyped DEF SectorTyped
      <4>4. (at % g.per) + 1 \in 1 .. g.per
        BY <1>0, <4>3
      <4>5. vbr'.lba \in Nat
        BY <3>4, <4>1, <4>3, <4>4
      <4>6. at' \in Nat
        BY <1>0, <3>4
      <4> QED
        BY <2>1, <3>2, <3>4, <4>5, <4>6, GoPlace DEF Search
    <3>5. CASE Goes("entry", at + 1)
      <4>1. at' \in Nat
        BY <1>0, <3>5 DEF Goes
      <4> QED
        BY <2>1, <3>2, <3>5, <4>1, GoPlace DEF Search, Goes
    <3> QED
      BY <3>1, <3>3, <3>4, <3>5
  <2> QED
    BY <2>2, <2>3
<1>10. CASE GptPartition
  <2>1. /\ pc = "partition" /\ UNCHANGED <<medium, block_size>> /\ vbr.lba \in Nat
        /\ \E g \in Written : g.kind = "gpt" /\ table = <<g.n, g.at, g.per>>
    BY <1>10 DEF GptPartition, Beside, PlaceInv
  <2>2. PICK l \in Reads(vbr.lba) :
          /\ Loaded(l)
          /\ \/ UNCHANGED at /\ \E r : Answer(r)
             \/ ~l.err /\ Class(l.win) < 2 /\ Found(l)
             \/ Goes("entry", at)
    BY <1>10 DEF GptPartition, Fails
  <2>3. l.win \in Written \cup {None} /\ win' = l.win
    BY <1>0, <2>2, ReadsKind DEF Loaded
  <2>4. CASE UNCHANGED at /\ \E r : Answer(r)
    BY <1>0, <2>1, <2>3, <2>4, FailPlace
  <2>5. CASE ~l.err /\ Class(l.win) < 2 /\ Found(l)
    BY <2>1, <2>2, <2>5, FoundPlace DEF Search
  <2>6. CASE Goes("entry", at)
    BY <1>0, <2>1, <2>3, <2>6, GoPlace DEF Search, Goes
  <2> QED
    BY <2>2, <2>4, <2>5, <2>6
<1>11. CASE MbrPartition
  <2>1. pc = "mbr" /\ UNCHANGED <<medium, block_size>> /\ table \in [1 .. 4 -> Nat] /\ at # 0
    BY <1>11 DEF MbrPartition, Beside, PlaceInv
  <2>2. at + 1 \in Nat /\ at + 1 # 0
    BY <1>0
  <2>3. CASE at > 4 \/ table[at] = 0
    <3>1. UNCHANGED win /\ ((UNCHANGED at /\ \E r : Answer(r)) \/ Goes("mbr", at + 1))
      BY <1>11, <2>3 DEF MbrPartition, Fails, window
    <3> QED
      BY <1>0, <2>1, <2>2, <3>1, FailPlace, GoPlace DEF Search, Goes
  <2>4. CASE ~(at > 4 \/ table[at] = 0)
    <3>1. PICK l \in Reads(table[at]) :
            /\ Loaded(l)
            /\ \/ UNCHANGED at /\ \E r : Answer(r)
               \/ ~l.err /\ Class(l.win) < 2 /\ Found(l)
               \/ Goes("mbr", at + 1)
      BY <1>11, <2>4 DEF MbrPartition, Fails
    <3>2. l.win \in Written \cup {None} /\ win' = l.win /\ table[at] \in Nat
      BY <1>0, <2>1, <2>4, <3>1, ReadsKind DEF Loaded
    <3>3. CASE UNCHANGED at /\ \E r : Answer(r)
      BY <1>0, <2>1, <3>2, <3>3, FailPlace
    <3>4. CASE ~l.err /\ Class(l.win) < 2 /\ Found(l)
      BY <2>1, <3>1, <3>2, <3>4, FoundPlace DEF Search
    <3>5. CASE Goes("mbr", at + 1)
      BY <2>1, <2>2, <3>2, <3>5, GoPlace DEF Search, Goes
    <3> QED
      BY <3>1, <3>3, <3>4, <3>5
  <2> QED
    BY <2>3, <2>4
<1>12. CASE FatVolume
  <2>1. /\ pc = "fat" /\ UNCHANGED <<medium, win, at, block_size, vbr>>
        /\ IsFat /\ fs.ss = block_size /\ block_size \in SectorSizes /\ fs.bsect \in Nat /\ fs.type = "none"
    BY <1>12 DEF FatVolume, unit, window, PlaceInv, Layout
  <2>2. \/ \E r : Answer(r)
        \/ /\ FatSound(vbr) /\ fs' = FatLaid(vbr) /\ pc' = "fsinfo" /\ SubType(Nclst(vbr)) = "fat32"
        \/ /\ FatSound(vbr) /\ pc' = "idle"
           /\ fs' = [FatLaid(vbr) EXCEPT !.type = SubType(Nclst(vbr))]
    BY <1>12 DEF FatVolume, Mounted
  <2>3. CASE \E r : Answer(r)
    BY <1>0, <2>1, <2>3, FailPlace
  <2>4. CASE /\ FatSound(vbr) /\ fs' = FatLaid(vbr) /\ pc' = "fsinfo" /\ SubType(Nclst(vbr)) = "fat32"
    <3>1. Shape(fs') /\ fs'.ss = fs.ss /\ fs'.bsect = fs.bsect /\ FatPlaced' /\ fs'.type = "none"
      BY <1>0, <2>1, <2>4, LaidFatPlaced
    <3>2. SubType(Nclst(vbr))' = SubType(Nclst(vbr))
      BY <2>1, <3>1 DEF Nclst, Sysect, Fasize, PerDir
    <3> QED
      BY <1>0, <2>1, <2>4, <3>1, <3>2 DEF PlaceInv, Places, Constructor, Search, Layout, IsFat
  <2>5. CASE /\ FatSound(vbr) /\ pc' = "idle"
             /\ fs' = [FatLaid(vbr) EXCEPT !.type = SubType(Nclst(vbr))]
    <3>1. Shape(fs') /\ fs'.ss = fs.ss /\ fs'.bsect = fs.bsect /\ FatPlaced'
      BY <1>0, <2>1, <2>5, LaidFatPlaced
    <3>2. SubType(Nclst(vbr))' = SubType(Nclst(vbr))
      BY <2>1, <3>1 DEF Nclst, Sysect, Fasize, PerDir
    <3>3. fs'.type = SubType(Nclst(vbr))
      BY <1>0, <2>5, ZenonT(30) DEF Shape, NoFs, FatLaid
    <3> QED
      BY <1>0, <2>1, <2>5, <3>1, <3>2, <3>3 DEF PlaceInv, Places, Constructor, Search, Layout, IsFat
  <2> QED
    BY <2>2, <2>3, <2>4, <2>5
<1>13. CASE FsInfo
  <2>1. /\ pc = "fsinfo" /\ UNCHANGED <<medium, at, block_size, vbr>>
        /\ IsFat /\ fs.ss = block_size /\ block_size \in SectorSizes /\ fs.bsect \in Nat
        /\ FatPlaced /\ SubType(Nclst(vbr)) = "fat32"
    BY <1>13 DEF FsInfo, Beside, PlaceInv, Layout
  <2>2. PICK l \in Loads(fs.bsect + 1) : Loaded(l)
    BY <1>13 DEF FsInfo
  <2>3. win' \in Written \cup {None}
    BY <1>0, <2>2, ReadsKind DEF Loaded
  <2>4. pc' = "idle" /\ \E n, m : \/ fs' = [fs EXCEPT !.type = "fat32"]
                                  \/ fs' = [fs EXCEPT !.type = "fat32", !.free = n, !.last = m]
    BY <1>13 DEF FsInfo, Mounted
  <2>5. Shape(fs') /\ fs'.type = "fat32" /\ SamePlace
    BY <1>0, <2>1, <2>4 DEF Shape, NoFs, SamePlace
  <2>6. FatPlaced' /\ IsFat' /\ fs'.ss = fs.ss /\ fs'.bsect = fs.bsect /\ SubType(Nclst(vbr))' = "fat32"
    BY <2>1, <2>5, SamePlaced DEF SubType
  <2> QED
    BY <1>0, <2>1, <2>3, <2>4, <2>5, <2>6 DEF PlaceInv, Places, Constructor, Search, Layout
<1>14. CASE ExfatVolume
  <2>1. /\ pc = "exfat" /\ UNCHANGED <<medium, win, block_size, vbr>>
        /\ IsExfat /\ fs.ss = block_size /\ block_size \in SectorSizes /\ fs.bsect \in Nat /\ fs.type = "none"
    BY <1>14 DEF ExfatVolume, unit, window, PlaceInv, Layout
  <2>2. \/ UNCHANGED at /\ \E r : Answer(r)
        \/ ExSound(vbr) /\ fs' = ExLaid(vbr) /\ pc' = "bitmap" /\ at' = 0
    BY <1>14 DEF ExfatVolume
  <2>3. CASE UNCHANGED at /\ \E r : Answer(r)
    BY <1>0, <2>1, <2>3, FailPlace
  <2>4. CASE ExSound(vbr) /\ fs' = ExLaid(vbr) /\ pc' = "bitmap" /\ at' = 0
    <3>1. Shape(fs') /\ fs'.ss = fs.ss /\ fs'.bsect = fs.bsect /\ fs'.type = fs.type /\ ExPlaced'
      BY <1>0, <2>1, <2>4, LaidExfatPlaced
    <3> QED
      BY <1>0, <2>1, <2>4, <3>1 DEF PlaceInv, Places, Constructor, Search, Layout, IsExfat
  <2> QED
    BY <2>2, <2>3, <2>4
<1>15. CASE FindBitmap
  <2>1. /\ pc = "bitmap" /\ UNCHANGED <<medium, block_size>>
        /\ IsExfat /\ fs.ss = block_size /\ block_size \in SectorSizes /\ fs.bsect \in Nat
        /\ ExPlaced /\ fs.type = "none"
    BY <1>15 DEF FindBitmap, Beside, PlaceInv, Layout
  <2>2. CASE at >= fs.csize
    BY <1>0, <1>15, <2>1, <2>2, FailPlace DEF FindBitmap, Fails, window
  <2>3. CASE ~(at >= fs.csize)
    <3>1. PICK l \in Loads(clst2sect(fs, fs.dirbase) + at) :
            /\ Loaded(l)
            /\ \/ UNCHANGED at /\ \E r : Answer(r)
               \/ Goes("bitmap", at + 1)
               \/ /\ BitmapOf(l.win) # NoEntry /\ ~(BitmapOf(l.win) < 2)
                  /\ at' = BitmapOf(l.win) /\ pc' = "contiguous" /\ UNCHANGED vbr
                  /\ fs' = [fs EXCEPT !.bitbase = fs.database + ((fs.csize * (BitmapOf(l.win) - 2)) % Word)]
      BY <1>15, <2>3 DEF FindBitmap, Fails
    <3>2. l.win \in Written \cup {None} /\ win' = l.win
      BY <1>0, <3>1, ReadsKind DEF Loaded
    <3>3. CASE UNCHANGED at /\ \E r : Answer(r)
      BY <1>0, <2>1, <3>2, <3>3, FailPlace
    <3>4. CASE Goes("bitmap", at + 1)
      <4>1. UNCHANGED <<fs, vbr>> /\ pc' = "bitmap" /\ at' \in Nat
        BY <1>0, <3>4 DEF Goes
      <4>2. SamePlace
        BY <2>1, <4>1 DEF SamePlace
      <4>3. ExPlaced' /\ IsExfat'
        BY <2>1, <4>2, SamePlaced
      <4> QED
        BY <1>0, <2>1, <3>2, <4>1, <4>3 DEF PlaceInv, Places, Constructor, Search, Layout, Shape
    <3>5. CASE /\ BitmapOf(l.win) # NoEntry /\ ~(BitmapOf(l.win) < 2)
               /\ at' = BitmapOf(l.win) /\ pc' = "contiguous" /\ UNCHANGED vbr
               /\ fs' = [fs EXCEPT !.bitbase = fs.database + ((fs.csize * (BitmapOf(l.win) - 2)) % Word)]
      <4>1. at' \in Nat
        <5>1. BitmapOf(l.win) \in Int
          BY <3>2, MediaTyped DEF BitmapOf, SectorTyped, None, NoEntry
        <5> QED
          BY <3>5, <5>1
      <4>2. PICK x : fs' = [fs EXCEPT !.bitbase = x]
        BY <3>5
      <4>3. Shape(fs') /\ fs'.type = "none" /\ SamePlace
        BY <1>0, <2>1, <3>5, <4>2 DEF Shape, NoFs, SamePlace
      <4>4. ExPlaced' /\ IsExfat' /\ fs'.ss = fs.ss /\ fs'.bsect = fs.bsect
        BY <2>1, <4>3, SamePlaced
      <4> QED
        BY <1>0, <2>1, <3>2, <3>5, <4>1, <4>3, <4>4 DEF PlaceInv, Places, Constructor, Search, Layout
    <3> QED
      BY <3>1, <3>3, <3>4, <3>5
  <2> QED
    BY <2>2, <2>3
<1>16. CASE Contiguous
  <2>1. /\ pc = "contiguous" /\ UNCHANGED <<medium, block_size>>
        /\ IsExfat /\ fs.ss = block_size /\ block_size \in SectorSizes /\ fs.bsect \in Nat
        /\ ExPlaced /\ fs.type = "none"
    BY <1>16 DEF Contiguous, Beside, PlaceInv, Layout
  <2>2. PICK l \in Loads(fs.fatbase + at \div PerFat) :
          /\ Loaded(l)
          /\ \/ UNCHANGED at /\ \E r : Answer(r)
             \/ Goes("contiguous", at + 1)
             \/ pc' = "idle" /\ fs' = [fs EXCEPT !.type = "exfat"] /\ UNCHANGED <<at, vbr>>
    BY <1>16 DEF Contiguous, Fails, Mounted
  <2>3. l.win \in Written \cup {None} /\ win' = l.win
    BY <1>0, <2>2, ReadsKind DEF Loaded
  <2>4. CASE UNCHANGED at /\ \E r : Answer(r)
    BY <1>0, <2>1, <2>3, <2>4, FailPlace
  <2>5. CASE Goes("contiguous", at + 1)
    <3>1. UNCHANGED <<fs, vbr>> /\ pc' = "contiguous" /\ at' \in Nat
      BY <1>0, <2>5 DEF Goes
    <3>2. SamePlace
      BY <2>1, <3>1 DEF SamePlace
    <3>3. ExPlaced' /\ IsExfat'
      BY <2>1, <3>2, SamePlaced
    <3> QED
      BY <1>0, <2>1, <2>3, <3>1, <3>3 DEF PlaceInv, Places, Constructor, Search, Layout, Shape
  <2>6. CASE pc' = "idle" /\ fs' = [fs EXCEPT !.type = "exfat"] /\ UNCHANGED <<at, vbr>>
    <3>1. Shape(fs') /\ fs'.type = "exfat" /\ SamePlace
      BY <1>0, <2>1, <2>6 DEF Shape, NoFs, SamePlace
    <3>2. ExPlaced' /\ IsExfat' /\ fs'.ss = fs.ss /\ fs'.bsect = fs.bsect
      BY <2>1, <3>1, SamePlaced
    <3> QED
      BY <1>0, <2>1, <2>3, <2>6, <3>1, <3>2 DEF PlaceInv, Places, Constructor, Search, Layout
  <2> QED
    BY <2>2, <2>4, <2>5, <2>6
<1>b. ASSUME pc = "idle", UNCHANGED <<medium, pc, win, at, block_size, vbr>>, fs' = fs \/ fs' = [fs EXCEPT !.type = "none"]
      PROVE  PlaceInv'
  <2>1. Shape(fs') /\ SamePlace /\ (fs'.type = fs.type \/ fs'.type = "none")
    BY <1>0, <1>b DEF Shape, NoFs, SamePlace
  <2>2. /\ FatPlaced' = FatPlaced /\ ExPlaced' = ExPlaced /\ fs'.ss = fs.ss /\ fs'.bsect = fs.bsect
        /\ Nclst(vbr)' = Nclst(vbr) /\ IsFat' = IsFat /\ IsExfat' = IsExfat
    BY <2>1, SamePlaced
  <2>3. SubType(Nclst(vbr))' = SubType(Nclst(vbr))
    BY <2>2 DEF SubType
  <2> QED
    BY <1>0, <1>b, <2>1, <2>2, <2>3 DEF PlaceInv, Places, Constructor, Search, Layout
<1>17. CASE Access
  BY <1>17, <1>b DEF Access, window
<1>18. CASE Refused
  BY <1>18, <1>b DEF Refused, unit, window
<1>19. CASE UNCHANGED vars
  <2>1. UNCHANGED <<pc, medium, win, at, table, vbr, fs, block_size>>
    BY <1>19 DEF vars, unit, window
  <2>2. SamePlace
    BY <2>1 DEF SamePlace
  <2>3. /\ FatPlaced' = FatPlaced /\ ExPlaced' = ExPlaced /\ Nclst(vbr)' = Nclst(vbr)
        /\ IsFat' = IsFat /\ IsExfat' = IsExfat
    BY <2>2, SamePlaced
  <2>4. SubType(Nclst(vbr))' = SubType(Nclst(vbr))
    BY <2>3 DEF SubType
  <2> QED
    BY <2>1, <2>3, <2>4 DEF PlaceInv, Shape
<1> QED
  BY <1>1, <1>2, <1>3, <1>4, <1>5, <1>6, <1>7, <1>8, <1>9, <1>10, <1>11, <1>12, <1>13, <1>14,
     <1>15, <1>16, <1>17, <1>18, <1>19 DEF Next

\* The numbers of a boot sector.
LEMMA FatNumbers ==
    ASSUME IsFat
    PROVE  /\ \A x \in {"bps", "fatsz", "nfats", "rootent", "tsect", "nrsv", "ver", "fsinfo", "root"} : vbr[x] \in 0 .. Word - 1
           /\ vbr.csize \in 0 .. CountWord - 1
<1>1. SectorTyped(vbr) /\ vbr.kind = "fat"
  BY MediaTyped DEF IsFat
<1> QED
  BY <1>1, Zenon DEF SectorTyped, Numbers
\* The numbers that the areas are computed from.
LEMMA FatNats ==
    ASSUME IsFat
    PROVE  /\ vbr.fatsz \in Nat /\ vbr.nfats \in Nat /\ vbr.rootent \in Nat /\ vbr.tsect \in Nat /\ vbr.nrsv \in Nat
           /\ vbr.csize \in Nat /\ vbr.csize < CountWord /\ vbr.tsect < Word
<1>1. CountWord \in Nat /\ Word \in Nat
  BY MountAssumption
<1>2. /\ vbr.fatsz \in 0 .. Word - 1 /\ vbr.nfats \in 0 .. Word - 1 /\ vbr.rootent \in 0 .. Word - 1
      /\ vbr.tsect \in 0 .. Word - 1 /\ vbr.nrsv \in 0 .. Word - 1 /\ vbr.csize \in 0 .. CountWord - 1
  BY FatNumbers
<1> QED
  BY <1>1, <1>2
\* The numbers of an exFAT boot sector, as far as the areas need them.
LEMMA ExNats ==
    ASSUME IsExfat
    PROVE  /\ vbr.dataofs \in Nat /\ vbr.fatofs \in Nat /\ vbr.nclst \in Nat /\ vbr.tsect \in Nat
           /\ 2 ^ vbr.cshift \in Nat
           /\ 2 ^ vbr.cshift < CountWord \/ (2 ^ vbr.cshift) % CountWord = 0
<1>1. SectorTyped(vbr) /\ vbr.kind = "exfat"
  BY MediaTyped DEF IsExfat
<1>2. /\ vbr.dataofs \in 0 .. Word - 1 /\ vbr.fatofs \in 0 .. Word - 1 /\ vbr.nclst \in 0 .. Word - 1
      /\ vbr.tsect \in Nat /\ 2 ^ vbr.cshift \in Nat
      /\ 2 ^ vbr.cshift < CountWord \/ (2 ^ vbr.cshift) % CountWord = 0
  BY <1>1, Zenon DEF SectorTyped, Numbers
<1>3. Word \in Nat
  BY MountAssumption
<1>4. 0 .. Word - 1 \subseteq Nat
  BY <1>3
<1> QED
  BY <1>2, <1>4, Zenon

\* A sector is a whole number of directory entries.
LEMMA Entries ==
    ASSUME fs.ss \in SectorSizes
    PROVE  fs.ss \in Nat \ {0} /\ PerDir \in Nat \ {0} /\ fs.ss = SZDIRE * PerDir /\ SZDIRE \in Nat \ {0}
<1>1. fs.ss \in Nat \ {0} /\ SZDIRE \in Nat \ {0} /\ fs.ss % SZDIRE = 0
  <2>1. fs.ss \in BlockSizes /\ fs.ss >= MinSS
    BY DEF SectorSizes
  <2>2. BlockSizes \subseteq Nat /\ MinSS \in Nat \ {0} /\ SZDIRE \in Nat \ {0}
    BY MountAssumption
  <2>3. fs.ss % SZDIRE = 0
    BY SectorsShort, Zenon
  <2>4. PICK s \in Nat : s = fs.ss
    BY <2>1, <2>2
  <2>5. s >= MinSS
    BY <2>1, <2>4, Zenon
  <2>6. s # 0
    BY <2>2, <2>5
  <2> QED
    BY <2>2, <2>3, <2>4, <2>6
<1>b. fs.ss \in Nat /\ SZDIRE \in Nat /\ SZDIRE > 0
  <2>1. fs.ss \in Nat /\ SZDIRE \in Nat \ {0}
    BY <1>1
  <2> QED
    BY <2>1
<1>2. PICK d \in Nat, r \in Nat : d = fs.ss \div SZDIRE /\ r = fs.ss % SZDIRE /\ r < SZDIRE /\ fs.ss = SZDIRE * d + r
  BY <1>b, DivMod
<1>a. d \in Nat /\ r \in Nat
  BY <1>2, Zenon
<1>3. r = 0 /\ fs.ss = SZDIRE * d
  <2>1. r = 0
    BY <1>1, <1>2, Zenon
  <2>2. PICK g \in Nat : g = SZDIRE * d
    BY <1>1, <1>a
  <2>3. fs.ss = g + r
    BY <1>2, <2>2, Zenon
  <2>4. fs.ss = g
    BY <2>1, <2>3
  <2> QED
    BY <2>1, <2>2, <2>4, Zenon
<1>4. d # 0
  <2>1. SZDIRE * 0 = 0
    BY <1>1
  <2>2. fs.ss # 0
    BY <1>1
  <2> QED
    BY <1>3, <2>1, <2>2, Zenon
<1> QED
  BY <1>1, <1>2, <1>3, <1>4 DEF PerDir

\* What is before the clusters, and how many of them there are.
LEMMA FatSizes ==
    ASSUME IsFat, fs.ss \in SectorSizes, FatSound(vbr)
    PROVE  /\ Fasize(vbr) \in Nat /\ Sysect(vbr) \in Nat /\ Sysect(vbr) <= vbr.tsect /\ vbr.csize \in Nat \ {0}
           /\ Nclst(vbr) \in Nat \ {0} /\ Nclst(vbr) <= MaxFat32
           /\ \E m \in Nat : m = Nclst(vbr) * vbr.csize /\ Sysect(vbr) + m <= vbr.tsect
<1>1. Word \in Nat \ {0} /\ MaxFat32 \in Nat
  BY MountAssumption
<1>2. vbr.fatsz * vbr.nfats \in Nat
  BY FatNats
<1>3. Fasize(vbr) \in Nat
  <2>1. PICK p \in Nat : p = vbr.fatsz * vbr.nfats
    BY <1>2
  <2>2. p % Word \in Nat
    BY <1>1
  <2> QED
    BY <2>1, <2>2, Zenon DEF Fasize
<1>4. vbr.rootent \div PerDir \in Nat
  BY FatNats, Entries, DivMod
<1>5. Sysect(vbr) \in Nat
  <2>1. PICK p \in Nat : p = vbr.nrsv + Fasize(vbr) + vbr.rootent \div PerDir
    BY <1>3, <1>4, FatNats
  <2>2. p % Word \in Nat
    BY <1>1
  <2> QED
    BY <2>1, <2>2, Zenon DEF Sysect
<1>6. vbr.csize \in Nat \ {0}
  BY DEF FatSound, PowerOf2
<1>7. Sysect(vbr) <= vbr.tsect /\ Nclst(vbr) \in 1 .. MaxFat32
  BY Zenon, FatNats, <1>5 DEF FatSound
<1>8. vbr.tsect - Sysect(vbr) \in Nat
  BY <1>5, <1>7, FatNats
<1>9. PICK d \in Nat, r \in Nat : d = Nclst(vbr) /\ vbr.tsect - Sysect(vbr) = vbr.csize * d + r
  <2>1. \E d \in Nat, r \in Nat : /\ d = (vbr.tsect - Sysect(vbr)) \div vbr.csize
                                  /\ vbr.tsect - Sysect(vbr) = vbr.csize * d + r
    <3>1. vbr.csize \in Nat /\ vbr.csize > 0
      BY <1>6
    <3> QED
      BY <1>8, <3>1, DivMod, ZenonT(30)
  <2> QED
    BY <2>1 DEF Nclst
<1>10. PICK m \in Nat : m = vbr.csize * d /\ m = Nclst(vbr) * vbr.csize
  BY <1>6, <1>9
<1>11. Sysect(vbr) + m <= vbr.tsect
  <2>1. PICK e \in Nat : vbr.tsect - Sysect(vbr) = m + e
    BY <1>9, <1>10, Zenon
  <2> QED
    BY <1>5, <2>1, FatNats
<1> QED
  BY <1>1, <1>3, <1>5, <1>6, <1>7, <1>10, <1>11

\* A FAT of f sectors has room for n bytes.
LEMMA Ceiling ==
    ASSUME NEW n \in Nat, NEW d \in Nat, d > 0, NEW f \in Nat PROVE f >= Ceil(n, d) <=> n <= f * d
<1>1. n + d - 1 \in Nat
  OBVIOUS
<1>2. PICK q \in Nat, r \in Nat : q = (n + d - 1) \div d /\ r < d /\ n + d - 1 = d * q + r
  BY <1>1, DivMod
<1>a. q \in Nat /\ r \in Nat /\ r < d /\ n + d - 1 = d * q + r
  BY <1>2, Zenon
<1>3. Ceil(n, d) = q
  BY <1>2, Zenon DEF Ceil
<1>4. PICK u \in Nat, v \in Nat : u = d * q /\ v = d * f
  BY <1>a
<1>b. v = f * d
  BY <1>4
<1>5. n + d - 1 = u + r
  BY <1>a, <1>4, Zenon
<1>6. ASSUME f >= q PROVE n <= v
  <2>1. u <= v
    <3>1. d * q <= d * f
      BY <1>a, <1>6
    <3> QED
      BY <1>4, <3>1, Zenon
  <2> QED
    BY <1>a, <1>5, <2>1
<1>7. ASSUME n <= v PROVE f >= q
  <2>1. ASSUME f + 1 <= q PROVE FALSE
    <3>1. d * (f + 1) <= d * q /\ d * (f + 1) = d * f + d
      BY <1>a, <2>1
    <3>2. v + d <= u
      BY <1>4, <3>1, Zenon
    <3>3. r \in Nat /\ r < d
      BY <1>a, Zenon
    <3> QED
      BY <1>5, <1>7, <3>2, <3>3
  <2> QED
    BY <1>a, <2>1
<1>8. f >= q <=> n <= v
  BY <1>6, <1>7
<1> QED
  BY <1>3, <1>8, <1>b, Zenon
\* The bytes of m entries: the bits of them, rounded up.
LEMMA EntryBytes ==
    ASSUME NEW m \in Nat, NEW t \in {"fat12", "fat16", "fat32"}
    PROVE  FatBytes(t, m) \in Nat /\ \A b \in Nat : FatBytes(t, m) <= b <=> m * Bits(t) <= 8 * b
<1>1. CASE t = "fat32"
  BY <1>1 DEF FatBytes, Bits
<1>2. CASE t = "fat16"
  BY <1>2 DEF FatBytes, Bits
<1>3. CASE t = "fat12"
  <2>1. PICK h \in Nat, e \in Nat : h = m \div 2 /\ e = m % 2 /\ e < 2 /\ m = 2 * h + e
    BY DivMod
  <2>a. h \in Nat /\ e \in Nat /\ e < 2 /\ m = 2 * h + e
    BY <2>1, Zenon
  <2>b. m * 3 \in Nat /\ m * 3 = 2 * (3 * h + e) + e /\ 3 * h + e \in Nat
    BY <2>a
  <2>c. (m * 3) \div 2 = 3 * h + e
    BY <2>a, <2>b, DivUnique
  <2>2. FatBytes(t, m) = (3 * h + e) + e
    <3>1. FatBytes(t, m) = (m * 3) \div 2 + (m % 2)
      BY <1>3 DEF FatBytes
    <3> QED
      BY <2>1, <2>c, <3>1, Zenon
  <2>3. Bits(t) = 12
    BY <1>3 DEF Bits
  <2> QED
    BY <2>a, <2>2, <2>3
<1> QED
  BY <1>1, <1>2, <1>3

\* The FAT has an entry for every cluster, and for the two that are none.
LEMMA EntriesFit ==
    ASSUME NEW m \in Nat, NEW t \in {"fat12", "fat16", "fat32"}, NEW d \in Nat, d > 0, NEW f \in Nat
    PROVE  f >= Ceil(FatBytes(t, m), d) <=> m * Bits(t) <= f * d * 8
<1>0. FatBytes(t, m) \in Nat
  BY EntryBytes, Zenon
<1>1. FatBytes(t, m) \in Nat /\ f * d \in Nat
  BY <1>0
<1>2. f >= Ceil(FatBytes(t, m), d) <=> FatBytes(t, m) <= f * d
  BY <1>1, Ceiling
<1>3. FatBytes(t, m) <= f * d <=> m * Bits(t) <= 8 * (f * d)
  BY <1>1, EntryBytes
<1>4. 8 * (f * d) = f * d * 8
  <2>1. PICK g \in Nat : g = f * d
    BY <1>1
  <2>2. 8 * g = g * 8
    OBVIOUS
  <2> QED
    BY <2>1, <2>2, Zenon
<1> QED
  BY <1>2, <1>3, <1>4, Zenon

\* The clusters of an exFAT volume end inside it.
LEMMA ExAreas ==
    ASSUME IsExfat, ExPlaced, fs.bsect \in Nat, (fs.n_fatent - 2) * fs.csize < Word
    PROVE  fs.database + (fs.n_fatent - 2) * fs.csize <= fs.bsect + vbr.tsect
<1>1. PICK n \in Nat, k \in Nat : n = vbr.nclst /\ k = 2 ^ vbr.cshift
  BY ExNats, Zenon
<1>2. fs.csize = k /\ fs.n_fatent = n + 2
  BY <1>1, Zenon DEF ExPlaced
<1>3. fs.n_fatent - 2 = n
  BY <1>2
<1>4. PICK m \in Nat : m = n * k
  OBVIOUS
<1>5. (fs.n_fatent - 2) * fs.csize = m
  BY <1>2, <1>3, <1>4, Zenon
<1>6. m < Word /\ Word \in Nat \ {0}
  BY <1>5, MountAssumption
<1>7. m % Word = m
  BY <1>6
<1>8. vbr.tsect >= vbr.dataofs + ((vbr.nclst * 2 ^ vbr.cshift) % Word)
  BY Zenon DEF ExPlaced, ExSound
<1>9. vbr.tsect >= vbr.dataofs + m
  BY <1>1, <1>4, <1>7, <1>8, Zenon
<1>10. fs.database = fs.bsect + vbr.dataofs
  BY DEF ExPlaced
<1>11. fs.database + m <= fs.bsect + vbr.tsect
  BY <1>9, <1>10, ExNats
<1> QED
  BY <1>5, <1>11, Zenon

\* The areas of a FAT volume follow each other and end inside it.
LEMMA FatAreas ==
    ASSUME IsFat, FatPlaced, fs.bsect \in Nat, fs.ss \in SectorSizes
    PROVE  /\ fs.bsect < fs.fatbase
           /\ fs.n_fatent * Bits(SubType(Nclst(vbr))) <= fs.fsize * fs.ss * 8
           /\ fs.database + (fs.n_fatent - 2) * fs.csize <= fs.bsect + vbr.tsect
           /\ vbr.nrsv + fs.n_fats * fs.fsize + fs.n_rootdir \div PerDir < Word =>
                  /\ SubType(Nclst(vbr)) # "fat32" => fs.fatbase + fs.n_fats * fs.fsize = fs.dirbase
                  /\ fs.fatbase + fs.n_fats * fs.fsize + fs.n_rootdir \div PerDir = fs.database
<1> DEFINE n == Nclst(vbr)
           t == SubType(n)
<1>0. FatSound(vbr)
  BY DEF FatPlaced
<1>1. /\ Fasize(vbr) \in Nat /\ Sysect(vbr) \in Nat /\ Sysect(vbr) <= vbr.tsect /\ vbr.csize \in Nat \ {0}
      /\ n \in Nat \ {0}
  BY <1>0, FatSizes
<1>2. fs.bsect < fs.fatbase
  <2>1. vbr.nrsv \in Nat /\ vbr.nrsv # 0 /\ fs.fatbase = fs.bsect + vbr.nrsv
    BY <1>0, FatNats DEF FatPlaced, FatSound
  <2> QED
    BY <2>1
<1>3. fs.n_fatent * Bits(t) <= fs.fsize * fs.ss * 8
  <2>1. vbr.fatsz >= Ceil(FatBytes(t, n + 2), fs.ss)
    BY <1>0, Zenon DEF FatSound
  <2>2. t \in {"fat12", "fat16", "fat32"}
    BY DEF SubType
  <2>3. fs.ss \in Nat /\ fs.ss > 0
    <3>1. fs.ss \in Nat \ {0}
      BY Entries
    <3> QED
      BY <3>1
  <2>4. n + 2 \in Nat
    BY <1>1
  <2>5. vbr.fatsz \in Nat
    BY FatNats
  <2> HIDE DEF t
  <2>6. (n + 2) * Bits(t) <= vbr.fatsz * fs.ss * 8
    BY <2>1, <2>2, <2>3, <2>4, <2>5, EntriesFit, Zenon
  <2> QED
    BY <2>6, Zenon DEF FatPlaced
<1>4. fs.database + (fs.n_fatent - 2) * fs.csize <= fs.bsect + vbr.tsect
  <2>1. PICK m \in Nat : m = n * vbr.csize /\ Sysect(vbr) + m <= vbr.tsect
    BY <1>0, FatSizes
  <2>2. fs.n_fatent - 2 = n
    BY <1>1 DEF FatPlaced
  <2>3. (fs.n_fatent - 2) * fs.csize = m
    BY <2>1, <2>2, Zenon DEF FatPlaced
  <2>4. fs.database + m <= fs.bsect + vbr.tsect
    BY <1>1, <2>1, FatNats DEF FatPlaced
  <2> QED
    BY <2>3, <2>4, Zenon
<1>5. ASSUME vbr.nrsv + fs.n_fats * fs.fsize + fs.n_rootdir \div PerDir < Word
      PROVE  /\ t # "fat32" => fs.fatbase + fs.n_fats * fs.fsize = fs.dirbase
             /\ fs.fatbase + fs.n_fats * fs.fsize + fs.n_rootdir \div PerDir = fs.database
  <2>1. PICK a \in Nat : a = fs.n_fats * fs.fsize /\ a = vbr.fatsz * vbr.nfats
    <3>1. fs.n_fats = vbr.nfats /\ fs.fsize = vbr.fatsz /\ vbr.nfats \in Nat /\ vbr.fatsz \in Nat
      BY FatNats DEF FatPlaced
    <3> QED
      BY <3>1
  <2>2. PICK r \in Nat : r = fs.n_rootdir \div PerDir /\ r = vbr.rootent \div PerDir
    <3>1. vbr.rootent \in Nat /\ PerDir \in Nat /\ PerDir > 0
      <4>1. PerDir \in Nat \ {0}
        BY Entries
      <4> QED
        BY <4>1, FatNats
    <3>2. vbr.rootent \div PerDir \in Nat
      BY <3>1, DivMod
    <3> QED
      BY <3>2, Zenon DEF FatPlaced
  <2>3. PICK v \in Nat : v = vbr.nrsv
    BY FatNats
  <2>4. v + a + r < Word /\ Word \in Nat
    BY <1>5, <2>1, <2>2, <2>3, Zenon, MountAssumption
  <2>5. a % Word = a /\ (v + a + r) % Word = v + a + r
    BY <2>4
  <2>6. Fasize(vbr) = a
    BY <2>1, <2>5, Zenon DEF Fasize
  <2>7. Sysect(vbr) = v + a + r
    BY <2>2, <2>3, <2>5, <2>6, Zenon DEF Sysect
  <2>8. fs.fatbase = fs.bsect + v /\ fs.database = fs.bsect + (v + a + r) /\ (t # "fat32" => fs.dirbase = fs.bsect + v + a)
    BY <2>3, <2>6, <2>7, Zenon DEF FatPlaced
  <2>9. fs.fatbase + a + r = fs.database /\ (t # "fat32" => fs.fatbase + a = fs.dirbase)
    BY <2>8
  <2> QED
    BY <2>1, <2>2, <2>9, Zenon
<1> QED
  BY <1>2, <1>3, <1>4, <1>5

\* The areas of whatever is mounted are in order.
LEMMA Laid == PlaceInv => AreasInVolume
<1> SUFFICES ASSUME PlaceInv, fs.type # "none" PROVE AreasInVolume
  BY DEF AreasInVolume
<1>1. pc = "idle" /\ fs.ss = block_size /\ fs.ss \in SectorSizes /\ fs.bsect \in Nat
  BY DEF PlaceInv, Layout
<1>2. \/ fs.type = "exfat" /\ IsExfat /\ ExPlaced
      \/ fs.type = SubType(Nclst(vbr)) /\ IsFat /\ FatPlaced
  BY DEF PlaceInv
<1>3. CASE fs.type = "exfat" /\ IsExfat /\ ExPlaced
  BY <1>1, <1>3, ExAreas, Zenon DEF AreasInVolume
<1>4. CASE fs.type = SubType(Nclst(vbr)) /\ IsFat /\ FatPlaced
  <2>1. fs.type # "exfat"
    BY <1>4 DEF SubType
  <2> QED
    BY <1>1, <1>4, <2>1, FatAreas, Zenon DEF AreasInVolume
<1> QED
  BY <1>2, <1>3, <1>4

-----------------------------------------------------------------------------
(* The sectors that a call addresses *)

\* Neither form of the command cuts off an address or a count that fits.
LEMMA Exact ==
    ASSUME NEW s \in Nat, NEW n \in Nat, n < CountWord, block_size \in SectorSizes
    PROVE  Cdb(s, n).lba = s /\ Cdb(s, n).count = n /\ Cdb(s, n).bytes = n * block_size
<1>1. Word \in Nat \ {0} /\ CountWord \in Nat \ {0}
  BY MountAssumption
<1>2. PICK b \in Nat : b = block_size /\ b * (CountWord - 1) < Word
  BY SectorsShort, MountAssumption DEF SectorSizes
<1>3. b * n <= b * (CountWord - 1)
  BY <1>1
<1>4. PICK m \in Nat : m = b * n /\ m = n * b
  OBVIOUS
<1>5. m < Word
  <2>1. PICK g \in Nat : g = b * (CountWord - 1)
    BY <1>1
  <2>2. m <= g /\ g < Word
    BY <1>2, <1>3, <1>4, <2>1, Zenon
  <2> QED
    BY <1>1, <2>2
<1>6. m % Word = m /\ n % CountWord = n
  BY <1>1, <1>5
<1>7. CASE Short(s, n)
  <2>1. s % Word = s
    BY <1>1, <1>7 DEF Short
  <2>2. Cdb(s, n) = [lba |-> s % Word, count |-> n % CountWord, bytes |-> (block_size * (n % CountWord)) % Word]
    BY <1>7, Zenon DEF Cdb
  <2>3. block_size * (n % CountWord) = m /\ m = n * block_size
    BY <1>2, <1>4, <1>6, Zenon
  <2>4. Cdb(s, n) = [lba |-> s, count |-> n, bytes |-> m]
    BY <1>6, <2>1, <2>2, <2>3, Zenon
  <2> QED
    BY <2>3, <2>4
<1>8. CASE ~Short(s, n)
  <2>1. Cdb(s, n) = [lba |-> s, count |-> n, bytes |-> (block_size * n) % Word]
    BY <1>8, Zenon DEF Cdb
  <2>2. block_size * n = m /\ m = n * block_size
    BY <1>2, <1>4, Zenon
  <2>3. Cdb(s, n) = [lba |-> s, count |-> n, bytes |-> m]
    BY <1>6, <2>1, <2>2, Zenon
  <2> QED
    BY <2>2, <2>3
<1> QED
  BY <1>7, <1>8

\* A call asks for a sector and a count that are numbers.
LEMMA AskedFits ==
    ASSUME PlaceInv, fs.type # "none", NEW a \in Asked PROVE a.sect \in Nat /\ a.count \in Nat /\ a.count < CountWord
<1>1. /\ fs.bsect \in Nat
      /\ (IsExfat /\ ExPlaced) \/ (IsFat /\ FatPlaced /\ fs.ss \in SectorSizes)
  <2>1. pc = "idle" /\ ((IsExfat /\ ExPlaced) \/ (IsFat /\ FatPlaced))
    BY DEF PlaceInv
  <2>2. fs.bsect \in Nat /\ fs.ss \in SectorSizes
    BY <2>1 DEF PlaceInv
  <2> QED
    BY <2>1, <2>2
<1>2. CountWord \in Nat /\ CountWord > 1
  <2>1. CountWord \in Nat /\ MaxSS \in Nat \ {0}
    BY MountAssumption
  <2>2. MaxSS < CountWord
    BY BlocksShort
  <2> QED
    BY <2>1, <2>2
<1>3. fs.fatbase \in Nat /\ fs.database \in Nat /\ fs.csize \in Nat /\ fs.csize < CountWord /\ fs.n_fatent \in Nat
  <2>1. CASE IsExfat /\ ExPlaced
    <3>1. fs.csize \in Nat /\ fs.csize < CountWord
      BY <2>1, ExNats DEF ExPlaced, ExSound
    <3> QED
      BY <1>1, <2>1, <3>1, ExNats DEF ExPlaced
  <2>2. CASE IsFat /\ FatPlaced /\ fs.ss \in SectorSizes
    <3>1. Sysect(vbr) \in Nat /\ Nclst(vbr) \in Nat
      BY <2>2, FatSizes DEF FatPlaced
    <3> QED
      BY <1>1, <2>2, <3>1, FatNats DEF FatPlaced
  <2> QED
    BY <1>1, <2>1, <2>2
<1>4. ASSUME NEW c \in {2, fs.n_fatent - 1} PROVE clst2sect(fs, c) \in Nat
  <2>1. CASE c < 2 \/ c >= fs.n_fatent
    BY <2>1 DEF clst2sect
  <2>2. CASE ~(c < 2 \/ c >= fs.n_fatent)
    <3>1. c - 2 \in Nat
      BY <1>3, <2>2
    <3>2. fs.csize * (c - 2) \in Nat
      BY <1>3, <3>1
    <3> QED
      BY <1>3, <2>2, <3>2 DEF clst2sect
  <2> QED
    BY <2>1, <2>2
<1> QED
  BY <1>2, <1>3, <1>4 DEF Asked

CdbInv == cdb # <<>> => pc = "idle" /\ AddressedExactly
\* The last command stays exact, and a new one is.
LEMMA CdbStep == PlaceInv /\ CdbInv /\ [Next]_vars => CdbInv'
<1> SUFFICES ASSUME PlaceInv, CdbInv, [Next]_vars PROVE CdbInv'
  OBVIOUS
<1>1. ASSUME UNCHANGED cdb, pc # "idle" PROVE CdbInv'
  BY <1>1 DEF CdbInv
<1>2. CASE TestUnitReady \/ RequestSense \/ TestAgain \/ ReadCapacity10 \/ ReadCapacity16
  <2>a. ASSUME TestUnitReady \/ RequestSense \/ TestAgain PROVE UNCHANGED cdb /\ pc # "idle"
    BY <2>a DEF TestUnitReady, RequestSense, TestAgain, Mounting
  <2>b. ASSUME ReadCapacity10 PROVE UNCHANGED cdb /\ pc # "idle"
    BY <2>b DEF ReadCapacity10, Mounting
  <2>c. ASSUME ReadCapacity16 PROVE UNCHANGED cdb /\ pc # "idle"
    BY <2>c DEF ReadCapacity16, Mounting
  <2>1. UNCHANGED cdb /\ pc # "idle"
    BY <1>2, <2>a, <2>b, <2>c, Zenon
  <2> QED
    BY <1>1, <2>1
<1>3. CASE Mount \/ Sector0 \/ GptHeader \/ GptEntry \/ GptPartition \/ MbrPartition
  <2>1. UNCHANGED cdb /\ pc # "idle"
    BY <1>3 DEF Mount, Sector0, GptHeader, GptEntry, GptPartition, MbrPartition, Beside
  <2> QED
    BY <1>1, <2>1
<1>4. CASE FatVolume \/ FsInfo \/ ExfatVolume \/ FindBitmap \/ Contiguous
  <2>1. UNCHANGED cdb /\ pc # "idle"
    BY <1>4 DEF FatVolume, FsInfo, ExfatVolume, FindBitmap, Contiguous, Beside
  <2> QED
    BY <1>1, <2>1
<1>5. CASE Access
  <2>1. pc = "idle" /\ UNCHANGED <<pc, block_size>> /\ fs.type # "none"
    BY <1>5 DEF Access
  <2>2. PICK a \in Asked : cdb' = <<a, Cdb(a.sect, a.count)>>
    BY <1>5 DEF Access
  <2>3. block_size \in SectorSizes
    BY <2>1 DEF PlaceInv
  <2>4. a.sect \in Nat /\ a.count \in Nat /\ a.count < CountWord
    BY <2>1, AskedFits
  <2>5. Cdb(a.sect, a.count).lba = a.sect /\ Cdb(a.sect, a.count).count = a.count
        /\ Cdb(a.sect, a.count).bytes = a.count * block_size
    BY <2>3, <2>4, Exact
  <2>6. cdb'[1] = a /\ cdb'[2] = Cdb(a.sect, a.count) /\ block_size' = block_size
    BY <2>1, <2>2
  <2>7. AddressedExactly'
    BY <2>5, <2>6, Zenon DEF AddressedExactly
  <2> QED
    BY <2>1, <2>7 DEF CdbInv
<1>6. CASE Refused
  BY <1>6 DEF Refused, unit, CdbInv, AddressedExactly
<1>7. CASE UNCHANGED vars
  BY <1>7 DEF vars, unit, CdbInv, AddressedExactly
<1> QED
  BY <1>2, <1>3, <1>4, <1>5, <1>6, <1>7 DEF Next

\* What the constructor starts with.
LEMMA PlaceStart == Init => SizeInv /\ TruthInv /\ PlaceInv
<1> SUFFICES ASSUME Init PROVE SizeInv /\ TruthInv /\ PlaceInv
  OBVIOUS
<1>1. SizeInv
  BY DEF Init, SizeInv, Places, Constructor, Search, Layout
<1>2. TruthInv
  BY NoFsShape, MountAssumption DEF Init, TruthInv, Places, Constructor, Search, Layout
<1>3. fs = NoFs /\ NoFs.type = "none"
  BY DEF Init, NoFs
<1>4. PlaceInv
  BY <1>3, NoFsShape DEF Init, PlaceInv, Places, Constructor, Search, Layout, Written
<1> QED
  BY <1>1, <1>2, <1>4

\* Below and above 2^32 sectors the command names the sectors that were asked for.
THEOREM AddressesSafe == Spec => []AddressedExactly
<1>1. Init => CdbInv
  BY DEF Init, CdbInv
<1>2. CdbInv => AddressedExactly
  BY DEF CdbInv, AddressedExactly
<1> QED
  BY <1>1, <1>2, PlaceStart, SizeStep, TruthStep, PlaceStep, CdbStep, PTL DEF Spec

-----------------------------------------------------------------------------
(* What is found while nothing fails *)

Loading == {"gpt", "entry", "partition", "mbr"} \cup Layout
\* After the first read, the window has the sector it is said to be of.
CleanInv == faults = 0 => devok /\ (pc \in Loading => win = Content(winsect))
\* A read that does not fail finds the sector asked for, if there was no failure before.
LEMMA CleanLoads ==
    ASSUME CleanInv, TruthInv, NEW s, NEW l, l \in Reads(s) \/ (l \in Loads(s) /\ pc \in Loading), Loaded(l), faults' = 0
    PROVE  /\ l.err = FALSE /\ l.win = Content(s) /\ l.winsect = s /\ faults = 0
           /\ devok' = TRUE /\ win' = Content(s) /\ winsect' = s
<1>1. faults \in Nat /\ faults' = faults + l.fault
  BY MountAssumption DEF TruthInv, Loaded
<1>2. ASSUME l \in Reads(s) PROVE l.fault \in {0, 1}
  BY <1>2 DEF Reads
<1>3. ASSUME l \notin Reads(s)
      PROVE  l = [err |-> FALSE, win |-> win, winsect |-> s, devok |-> devok, fault |-> 0] /\ winsect = s /\ pc \in Loading
  BY <1>3 DEF Loads
<1>4. l.fault = 0 /\ faults = 0
  BY <1>1, <1>2, <1>3
<1>5. devok /\ (pc \in Loading => win = Content(winsect))
  BY <1>4 DEF CleanInv
<1>6. CASE l \in Reads(s)
  BY <1>4, <1>5, <1>6 DEF Reads, Loaded
<1>7. CASE l \notin Reads(s)
  <2>1. devok' = devok /\ win' = win
    BY <1>3, <1>7 DEF Loaded
  <2> QED
    BY <1>3, <1>4, <1>5, <1>7, <2>1 DEF Loaded
<1> QED
  BY <1>6, <1>7
LEMMA CleanCommand ==
    ASSUME CleanInv, TruthInv, NEW o \in Outcomes, Command(o), faults' = 0
    PROVE  o.status = "success" /\ devok' = TRUE /\ faults = 0
<1>1. faults \in Nat /\ faults' = faults + o.fault /\ o.fault \in {0, 1}
  BY MountAssumption DEF TruthInv, Command, Outcomes
<1>2. o.fault = 0 /\ faults = 0
  BY <1>1
<1> QED
  BY <1>2 DEF CleanInv, Command, Outcomes

LEMMA CleanStep == SizeInv /\ TruthInv /\ CleanInv /\ [Next]_vars => CleanInv'
<1> SUFFICES ASSUME SizeInv, TruthInv, CleanInv, [Next]_vars, faults' = 0
             PROVE  devok' /\ (pc' \in Loading => win' = Content(winsect)')
  BY DEF CleanInv
<1> USE DEF Loading, Layout
<1>a. UNCHANGED medium => Content(winsect)' = Content(winsect')
  BY DEF Content
<1>1. CASE TestUnitReady
  BY <1>1, CleanCommand DEF TestUnitReady
<1>2. CASE RequestSense
  BY <1>2, CleanCommand DEF RequestSense
<1>3. CASE TestAgain
  BY <1>3, CleanCommand DEF TestAgain
<1>4. CASE ReadCapacity10
  BY <1>4, CleanCommand DEF ReadCapacity10
<1>5. CASE ReadCapacity16
  BY <1>5, CleanCommand DEF ReadCapacity16
<1>6. CASE Mount
  BY <1>6 DEF Mount, unit, Answer, CleanInv
<1>7. CASE Sector0
  BY <1>7, <1>a, CleanLoads DEF Sector0, Beside
<1>8. CASE GptHeader
  BY <1>8, <1>a, CleanLoads DEF GptHeader, Beside
<1>9. CASE GptEntry
  <2>1. pc = "entry" /\ UNCHANGED medium
    BY <1>9 DEF GptEntry, Beside
  <2>2. CASE at = table[1]
    BY <1>9, <2>1, <2>2, <1>a DEF GptEntry, Fails, Answer, CleanInv, window
  <2>3. CASE at # table[1]
    BY <1>9, <2>1, <2>3, <1>a, CleanLoads DEF GptEntry
  <2> QED
    BY <2>2, <2>3
<1>10. CASE GptPartition
  BY <1>10, <1>a, CleanLoads DEF GptPartition, Beside
<1>11. CASE MbrPartition
  <2>1. pc = "mbr" /\ UNCHANGED medium
    BY <1>11 DEF MbrPartition, Beside
  <2>2. CASE at > 4 \/ table[at] = 0
    BY <1>11, <2>1, <2>2, <1>a DEF MbrPartition, CleanInv, window
  <2>3. CASE ~(at > 4 \/ table[at] = 0)
    BY <1>11, <2>1, <2>3, <1>a, CleanLoads DEF MbrPartition
  <2> QED
    BY <2>2, <2>3
<1>12. CASE FatVolume
  BY <1>12, <1>a DEF FatVolume, unit, window, CleanInv
<1>13. CASE FsInfo
  BY <1>13, <1>a, CleanLoads DEF FsInfo, Beside
<1>14. CASE ExfatVolume
  BY <1>14, <1>a DEF ExfatVolume, unit, window, CleanInv
<1>15. CASE FindBitmap
  <2>1. pc = "bitmap" /\ UNCHANGED medium
    BY <1>15 DEF FindBitmap, Beside
  <2>2. CASE at >= fs.csize
    BY <1>15, <2>1, <2>2, <1>a DEF FindBitmap, CleanInv, window
  <2>3. CASE ~(at >= fs.csize)
    BY <1>15, <2>1, <2>3, <1>a, CleanLoads DEF FindBitmap
  <2> QED
    BY <2>2, <2>3
<1>16. CASE Contiguous
  BY <1>16, <1>a, CleanLoads DEF Contiguous, Beside
<1>17. CASE Access
  BY <1>17, CleanCommand DEF Access
<1>18. CASE Refused
  BY <1>18 DEF Refused, unit, CleanInv
<1>19. CASE UNCHANGED vars
  BY <1>19, <1>a DEF vars, unit, window, CleanInv
<1> QED
  BY <1>1, <1>2, <1>3, <1>4, <1>5, <1>6, <1>7, <1>8, <1>9, <1>10, <1>11, <1>12, <1>13, <1>14,
     <1>15, <1>16, <1>17, <1>18, <1>19 DEF Next

-----------------------------------------------------------------------------
(* The bitmap of an exFAT volume *)

\* The clusters from the one that the root directory names up to the one looked at next
\* are in a row, and the first of them is where bitbase says.
InARow ==
    \E s \in 0 .. fs.csize - 1, b \in 2 .. fs.n_fatent - 1 :
        /\ b = BitmapOf(Content(clst2sect(fs, fs.dirbase) + s))
        /\ fs.bitbase = fs.database + ((fs.csize * (b - 2)) % Word)
        /\ at >= b
        /\ \A c \in b .. at - 1 : Link(c) = c + 1
BitmapInv ==
    faults = 0 => /\ pc = "contiguous" \/ fs.type = "exfat" => InARow
                  /\ fs.type = "exfat" => Link(at) = EndOfChain

\* Where clusters and their links are does not depend on the type and on bitbase.
LEMMA SameLinks ==
    ASSUME UNCHANGED medium, fs'.ss = fs.ss, fs'.csize = fs.csize, fs'.n_fatent = fs.n_fatent,
           fs'.database = fs.database, fs'.fatbase = fs.fatbase, fs'.dirbase = fs.dirbase
    PROVE  /\ \A c : Link(c)' = Link(c)
           /\ \A s : Content(clst2sect(fs, fs.dirbase) + s)' = Content(clst2sect(fs, fs.dirbase) + s)
<1>1. PerFat' = PerFat
  BY DEF PerFat
<1>2. \A s : Content(s)' = Content(s)
  BY DEF Content
<1>3. clst2sect(fs, fs.dirbase)' = clst2sect(fs, fs.dirbase)
  BY DEF clst2sect
<1>4. ASSUME NEW c PROVE Link(c)' = Link(c)
  BY <1>1, <1>2 DEF Link, Cell, Content
<1>5. ASSUME NEW s PROVE Content(clst2sect(fs, fs.dirbase) + s)' = Content(clst2sect(fs, fs.dirbase) + s)
  BY <1>3 DEF Content
<1> QED
  BY <1>4, <1>5

\* The link of the cluster looked at, once the links are known not to change.
LEMMA LinkHere == ASSUME \A c : Link(c)' = Link(c), at' = at PROVE Link(at)' = Link(at)
<1>1. PICK c : c = at
  OBVIOUS
<1>2. Link(at)' = Link(c)'
  BY <1>1 DEF Link, Cell, Content
<1>3. Link(c)' = Link(c)
  OBVIOUS
<1> QED
  BY <1>1, <1>2, <1>3, Zenon

\* Each link that is looked at makes the row longer by one, or ends it.
LEMMA BitmapStep ==
    SizeInv /\ TruthInv /\ PlaceInv /\ PlaceInv' /\ CleanInv /\ BitmapInv /\ [Next]_vars => BitmapInv'
<1> SUFFICES ASSUME SizeInv, TruthInv, PlaceInv, PlaceInv', CleanInv, BitmapInv, [Next]_vars,
                    faults' = 0, pc' = "contiguous" \/ fs'.type = "exfat"
             PROVE  InARow' /\ (fs'.type = "exfat" => Link(at)' = EndOfChain)
  BY DEF BitmapInv
<1>0. Shape(fs) /\ at \in Nat /\ pc' \in {"contiguous", "idle"} /\ (pc # "idle" => fs.type = "none")
  BY DEF PlaceInv
<1>1. CASE TestUnitReady \/ RequestSense \/ TestAgain \/ ReadCapacity10 \/ ReadCapacity16
  <2>1. CASE TestUnitReady \/ RequestSense \/ TestAgain
    BY <1>0, <2>1 DEF TestUnitReady, RequestSense, TestAgain
  <2>2. CASE ReadCapacity10
    <3>1. pc' \notin {"contiguous", "idle"}
      BY <2>2 DEF ReadCapacity10
    <3> QED
      BY <1>0, <3>1
  <2>3. CASE ReadCapacity16
    <3>1. pc' = "mount"
      BY <2>3, Zenon DEF ReadCapacity16
    <3> QED
      BY <1>0, <3>1
  <2> QED
    BY <1>1, <2>1, <2>2, <2>3
<1>2. CASE Mount \/ Sector0 \/ GptHeader \/ GptEntry \/ GptPartition \/ MbrPartition
  BY <1>0, <1>2 DEF Mount, Sector0, GptHeader, GptEntry, GptPartition, MbrPartition, Found, Goes, Fails, Answer
<1>3. CASE FatVolume
  <2>1. pc' = "idle" /\ fs' = [FatLaid(vbr) EXCEPT !.type = SubType(Nclst(vbr))]
    BY <1>0, <1>3 DEF FatVolume, Answer, Mounted
  <2>2. fs'.type = SubType(Nclst(vbr)) \/ fs'.type = "none"
    BY <1>0, <2>1 DEF FatLaid, Shape, NoFs
  <2> QED
    BY <1>0, <2>1, <2>2 DEF SubType
<1>4. CASE FsInfo
  <2>1. pc' = "idle" /\ fs'.type = "fat32"
    BY <1>0, <1>4 DEF FsInfo, Mounted, Shape, NoFs
  <2> QED
    BY <2>1
<1>5. CASE ExfatVolume
  BY <1>0, <1>5 DEF ExfatVolume, Answer
<1>6. CASE FindBitmap
  <2>1. pc = "bitmap" /\ UNCHANGED medium /\ pc' = "contiguous" /\ ~(at >= fs.csize)
    BY <1>0, <1>6 DEF FindBitmap, Fails, Answer, Goes, Beside
  <2>2. PICK l \in Loads(clst2sect(fs, fs.dirbase) + at) :
          /\ Loaded(l) /\ ~(BitmapOf(l.win) < 2 \/ BitmapOf(l.win) >= fs.n_fatent)
          /\ fs' = [fs EXCEPT !.bitbase = fs.database + ((fs.csize * (BitmapOf(l.win) - 2)) % Word)]
          /\ at' = BitmapOf(l.win)
    BY <1>0, <1>6, <2>1 DEF FindBitmap, Fails, Answer, Goes
  <2>3. l.win = Content(clst2sect(fs, fs.dirbase) + at)
    BY <2>1, <2>2, CleanLoads DEF Loading, Layout
  <2>4. fs.csize \in Nat /\ fs.n_fatent \in Nat
    BY <2>1, ExNats DEF PlaceInv, ExPlaced
  <2>5. BitmapOf(l.win) \in Int
    <3>1. l.win \in Written \cup {None}
      BY <2>2, ReadsKind DEF PlaceInv
    <3> QED
      BY <3>1, MediaTyped DEF BitmapOf, SectorTyped, None, NoEntry
  <2>6. at \in 0 .. fs.csize - 1 /\ BitmapOf(l.win) \in 2 .. fs.n_fatent - 1
    BY <1>0, <2>1, <2>2, <2>4, <2>5
  <2>7. /\ fs'.ss = fs.ss /\ fs'.csize = fs.csize /\ fs'.n_fatent = fs.n_fatent /\ fs'.database = fs.database
        /\ fs'.fatbase = fs.fatbase /\ fs'.dirbase = fs.dirbase /\ fs'.type = fs.type
        /\ fs'.bitbase = fs.database + ((fs.csize * (BitmapOf(l.win) - 2)) % Word)
    BY <1>0, <2>2, Fields DEF NoFs
  <2>8. Content(clst2sect(fs, fs.dirbase) + at) = l.win /\ UNCHANGED medium
    BY <2>1, <2>3
  <2>9. InARow'
    <3>0. PICK b \in 2 .. fs.n_fatent - 1, s \in 0 .. fs.csize - 1 : b = BitmapOf(l.win) /\ s = at
      BY <2>6
    <3>1. b \in 2 .. fs'.n_fatent - 1 /\ s \in 0 .. fs'.csize - 1 /\ at' = b
      BY <2>2, <2>7, <3>0
    <3>2. b = BitmapOf(Content(clst2sect(fs, fs.dirbase) + s)')
      <4>1. Content(clst2sect(fs, fs.dirbase) + s)' = Content(clst2sect(fs, fs.dirbase) + s)
        BY <2>7, <2>8, SameLinks
      <4> QED
        BY <2>8, <3>0, <4>1
    <3>3. fs'.bitbase = fs'.database + ((fs'.csize * (b - 2)) % Word)
      BY <2>7, <3>0, Zenon
    <3>4. b \in Int
      BY <2>5, <3>0
    <3>5. at' >= b /\ b .. at' - 1 = {}
      BY <3>1, <3>4
    <3>6. b = BitmapOf(Content(clst2sect(fs, fs.dirbase) + s))'
      BY <3>2 DEF BitmapOf
    <3> QED
      BY <3>1, <3>3, <3>5, <3>6, Zenon DEF InARow
  <2> QED
    BY <1>0, <2>1, <2>7, <2>9
<1>7. CASE Contiguous
  <2>1. pc = "contiguous" /\ UNCHANGED medium /\ fs.type = "none" /\ faults = 0
    BY <1>0, <1>7, CleanLoads DEF Contiguous, Beside, Loading, Layout
  <2>2. PICK l \in Loads(fs.fatbase + at \div PerFat) :
          /\ Loaded(l)
          /\ \/ Cell(l.win, at) = EndOfChain /\ fs' = [fs EXCEPT !.type = "exfat"] /\ at' = at
             \/ Cell(l.win, at) = at + 1 /\ fs' = fs /\ at' = at + 1
    BY <1>0, <1>7 DEF Contiguous, Fails, Answer, Goes, Mounted, Straight
  <2>3. Cell(l.win, at) = Link(at)
    BY <2>1, <2>2, CleanLoads DEF Link, Loading, Layout
  <2>4. /\ fs'.ss = fs.ss /\ fs'.csize = fs.csize /\ fs'.n_fatent = fs.n_fatent /\ fs'.database = fs.database
        /\ fs'.fatbase = fs.fatbase /\ fs'.dirbase = fs.dirbase /\ fs'.bitbase = fs.bitbase
    <3>1. CASE fs' = fs
      BY <3>1
    <3>2. CASE fs' = [fs EXCEPT !.type = "exfat"]
      BY <1>0, <3>2, Fields DEF NoFs
    <3> QED
      BY <2>2, <3>1, <3>2
  <2>5. InARow
    BY <2>1 DEF BitmapInv
  <2>6. PICK s \in 0 .. fs.csize - 1, b \in 2 .. fs.n_fatent - 1 :
          /\ b = BitmapOf(Content(clst2sect(fs, fs.dirbase) + s))
          /\ fs.bitbase = fs.database + ((fs.csize * (b - 2)) % Word)
          /\ at >= b
          /\ \A c \in b .. at - 1 : Link(c) = c + 1
    BY <2>5 DEF InARow
  <2>7. \A c : Link(c)' = Link(c)
    BY <2>1, <2>4, SameLinks
  <2>a. Content(clst2sect(fs, fs.dirbase) + s)' = Content(clst2sect(fs, fs.dirbase) + s)
    BY <2>1, <2>4, SameLinks
  <2>8. at' >= b /\ \A c \in b .. at' - 1 : Link(c)' = c + 1
    <3>1. b \in Int /\ at \in Int /\ at >= b
      BY <1>0, <2>6
    <3>2. CASE at' = at
      BY <2>6, <2>7, <3>2
    <3>3. CASE at' = at + 1 /\ Link(at) = at + 1
      <4>1. at' >= b /\ b .. at' - 1 = (b .. at - 1) \cup {at}
        BY <3>1, <3>3
      <4> QED
        BY <2>6, <2>7, <3>3, <4>1
    <3> QED
      BY <2>2, <2>3, <3>2, <3>3
  <2>9. s \in 0 .. fs'.csize - 1 /\ b \in 2 .. fs'.n_fatent - 1
        /\ fs'.bitbase = fs'.database + ((fs'.csize * (b - 2)) % Word)
    BY <2>4, <2>6, Zenon
  <2>10. InARow'
    <3>1. b = BitmapOf(Content(clst2sect(fs, fs.dirbase) + s))'
      BY <2>6, <2>a DEF BitmapOf
    <3> QED
      BY <2>8, <2>9, <3>1, Zenon DEF InARow
  <2>11. fs'.type = "exfat" => at' = at /\ Link(at) = EndOfChain
    BY <2>1, <2>2, <2>3
  <2>12. fs'.type = "exfat" => Link(at)' = EndOfChain
    BY <2>7, <2>11, LinkHere, Zenon
  <2> QED
    BY <2>10, <2>12
<1>a. ASSUME UNCHANGED <<medium, at, fs>>, pc' = pc, faults = 0
      PROVE  InARow' /\ (fs'.type = "exfat" => Link(at)' = EndOfChain)
  <2>1. InARow /\ (fs.type = "exfat" => Link(at) = EndOfChain)
    BY <1>a DEF BitmapInv
  <2>2. PICK s \in 0 .. fs.csize - 1, b \in 2 .. fs.n_fatent - 1 :
          /\ b = BitmapOf(Content(clst2sect(fs, fs.dirbase) + s))
          /\ fs.bitbase = fs.database + ((fs.csize * (b - 2)) % Word)
          /\ at >= b
          /\ \A c \in b .. at - 1 : Link(c) = c + 1
    BY <2>1 DEF InARow
  <2>3. \A c : Link(c)' = Link(c)
    BY <1>a, SameLinks
  <2>4. Content(clst2sect(fs, fs.dirbase) + s)' = Content(clst2sect(fs, fs.dirbase) + s)
    BY <1>a, SameLinks
  <2>5. b = BitmapOf(Content(clst2sect(fs, fs.dirbase) + s))'
    BY <2>2, <2>4 DEF BitmapOf
  <2>6. /\ s \in 0 .. fs'.csize - 1 /\ b \in 2 .. fs'.n_fatent - 1 /\ at' >= b
        /\ fs'.bitbase = fs'.database + ((fs'.csize * (b - 2)) % Word)
        /\ \A c \in b .. at' - 1 : Link(c)' = c + 1
    BY <1>a, <2>2, <2>3, Zenon
  <2>7. InARow'
    BY <2>5, <2>6, Zenon DEF InARow
  <2>8. fs'.type = "exfat" => Link(at)' = EndOfChain
    BY <1>a, <2>1, <2>3, LinkHere, Zenon
  <2> QED
    BY <2>7, <2>8
<1>8. CASE Access
  <2>1. faults = 0
    BY <1>8, CleanCommand DEF Access
  <2> QED
    BY <1>8, <1>a, <2>1 DEF Access
<1>9. CASE Refused
  <2>1. fs'.type = "none" /\ pc' = "idle"
    BY <1>0, <1>9 DEF Refused, Shape, NoFs
  <2> QED
    BY <2>1
<1>10. CASE UNCHANGED vars
  BY <1>10, <1>a DEF vars
<1> QED
  BY <1>1, <1>2, <1>3, <1>4, <1>5, <1>6, <1>7, <1>8, <1>9, <1>10 DEF Next
\* The row as it is mounted is the property: bitbase is the sector of its first cluster.
LEMMA BitmapPlaced == PlaceInv /\ BitmapInv => BitmapContiguous
<1> SUFFICES ASSUME PlaceInv, BitmapInv, fs.type = "exfat", faults = 0 PROVE BitmapContiguous
  BY DEF BitmapContiguous
<1>1. InARow /\ Link(at) = EndOfChain
  BY DEF BitmapInv
<1>2. PICK s \in 0 .. fs.csize - 1, b \in 2 .. fs.n_fatent - 1 :
        /\ b = BitmapOf(Content(clst2sect(fs, fs.dirbase) + s))
        /\ fs.bitbase = fs.database + ((fs.csize * (b - 2)) % Word)
        /\ at >= b
        /\ \A c \in b .. at - 1 : Link(c) = c + 1
  BY <1>1 DEF InARow
<1>3. fs.csize \in Nat /\ fs.n_fatent \in Nat
  <2>1. IsExfat /\ ExPlaced
    BY DEF PlaceInv, SubType
  <2> QED
    BY <2>1, ExNats DEF ExPlaced
<1>4. b # NoEntry
  BY <1>2, <1>3 DEF NoEntry
<1>5. ASSUME fs.csize * (b - 2) < Word PROVE fs.bitbase = clst2sect(fs, b)
  <2>1. b - 2 \in Nat /\ ~(b < 2 \/ b >= fs.n_fatent)
    BY <1>2, <1>3
  <2>2. PICK m \in Nat : m = fs.csize * (b - 2)
    BY <1>3, <2>1
  <2>3. m < Word /\ Word \in Nat
    BY <1>5, <2>2, MountAssumption
  <2>4. m % Word = m
    BY <2>3
  <2>5. fs.bitbase = fs.database + m
    BY <1>2, <2>2, <2>4, Zenon
  <2> QED
    BY <2>1, <2>2, <2>5, Zenon DEF clst2sect
<1> QED
  BY <1>1, <1>2, <1>4, <1>5, Zenon DEF BitmapContiguous

\* The areas of a mounted FAT volume lie in it one behind the other with an entry for each
\* cluster, and the clusters of an exFAT volume lie in it, unless their sectors number
\* 2^32 or more; the bitmap of exFAT, if nothing failed, is where the root directory has
\* it.  Nothing is said of the place and length of an exFAT volume's FAT.
THEOREM LaidSafe == Spec => []LaidOut
<1>1. Init => CleanInv /\ BitmapInv
  BY DEF Init, CleanInv, BitmapInv, Loading, Layout, NoFs
<1>2. PlaceInv /\ BitmapInv => LaidOut
  BY Laid, BitmapPlaced DEF LaidOut
<1> QED
  BY <1>1, <1>2, PlaceStart, SizeStep, TruthStep, PlaceStep, CleanStep, BitmapStep, PTL DEF Spec

-----------------------------------------------------------------------------
(* The volume that find_volume finds *)

\* What two products with a common factor have in common.
LEMMA SameProduct == ASSUME NEW z \in Nat, z > 0, NEW r \in Nat, NEW g \in Nat, z * r = z * g PROVE r = g
<1>1. ASSUME NEW x \in Nat, NEW y \in Nat, x < y PROVE z * x < z * y
  <2>1. z * (x + 1) <= z * y
    BY <1>1
  <2>2. z * (x + 1) = z * x + z
    OBVIOUS
  <2> QED
    BY <2>1, <2>2
<1> QED
  BY <1>1

\* A well formatted volume passes the tests of mount_volume.
LEMMA WellFormedSound ==
    ASSUME IsFat, fs.ss \in SectorSizes, WellFormed(vbr, fs.ss)
    PROVE  FatSound(vbr)
<1> DEFINE areas == vbr.nrsv + vbr.fatsz * vbr.nfats + (vbr.rootent * SZDIRE) \div fs.ss
           n == (vbr.tsect - areas) \div vbr.csize
           bits == IF n <= MaxFat12 THEN 12 ELSE IF n <= MaxFat16 THEN 16 ELSE 32
<1>1. /\ vbr.bps = fs.ss /\ vbr.nrsv > 0 /\ vbr.nfats \in {1, 2} /\ PowerOf2(vbr.csize)
      /\ (vbr.rootent * SZDIRE) % fs.ss = 0
      /\ vbr.tsect >= areas + vbr.csize /\ n <= MaxFat32
      /\ (n + 2) * bits <= vbr.fatsz * fs.ss * 8
      /\ IF bits = 32 THEN vbr.rootent = 0 /\ vbr.ver = 0 ELSE vbr.rootent > 0
  BY Zenon DEF WellFormed
<1> HIDE DEF areas, n, bits
<1>2. /\ vbr.fatsz \in Nat /\ vbr.nfats \in Nat /\ vbr.rootent \in Nat /\ vbr.tsect \in Nat /\ vbr.nrsv \in Nat
      /\ vbr.tsect < Word /\ Word \in Nat
  BY FatNats, MountAssumption
<1>3. PICK p \in Nat, d \in Nat, z \in Nat : p = PerDir /\ d = fs.ss /\ z = SZDIRE /\ d = z * p /\ p > 0 /\ d > 0 /\ z > 0
  <2>1. fs.ss \in Nat \ {0} /\ PerDir \in Nat \ {0} /\ SZDIRE \in Nat \ {0} /\ fs.ss = SZDIRE * PerDir
    BY Entries, Zenon
  <2>2. PICK p \in Nat \ {0}, d \in Nat \ {0}, z \in Nat \ {0} : p = PerDir /\ d = fs.ss /\ z = SZDIRE
    BY <2>1, Zenon
  <2>3. d = z * p
    BY <2>1, <2>2, Zenon
  <2>4. p > 0 /\ d > 0 /\ z > 0 /\ p \in Nat /\ d \in Nat /\ z \in Nat
    BY <2>2
  <2> QED
    BY <2>2, <2>3, <2>4, Zenon
<1>4. PICK q \in Nat : /\ q = (vbr.rootent * SZDIRE) \div fs.ss
                       /\ q = vbr.rootent \div PerDir /\ vbr.rootent % PerDir = 0
  <2>1. PICK r \in Nat, x \in Nat : r = vbr.rootent /\ x = vbr.rootent * SZDIRE /\ x = z * r
    <3>1. PICK r \in Nat : r = vbr.rootent
      BY <1>2
    <3>2. PICK x \in Nat : x = r * z /\ x = z * r
      OBVIOUS
    <3> QED
      BY <1>3, <3>1, <3>2, Zenon
  <2>2. PICK q \in Nat, e \in Nat : q = x \div d /\ e = x % d /\ x = d * q + e
    BY <1>3, DivMod
  <2>3. e = 0
    BY <1>1, <1>3, <2>1, <2>2, Zenon
  <2>4. PICK g \in Nat : g = p * q /\ d * q = z * g
    <3>1. PICK g \in Nat : g = p * q
      OBVIOUS
    <3>2. (z * p) * q = z * (p * q)
      OBVIOUS
    <3> QED
      BY <1>3, <3>1, <3>2, Zenon
  <2>5. z * r = z * g
    <3>1. PICK y \in Nat : y = d * q
      BY <1>3, <2>2
    <3>2. x = y + 0
      BY <2>2, <2>3, <3>1, Zenon
    <3>3. x = y
      BY <3>2
    <3> QED
      BY <2>1, <2>4, <3>1, <3>3, Zenon
  <2>6. r = g
    BY <1>3, <2>5, SameProduct, Zenon
  <2>7. r = p * q + 0
    <3>1. g = g + 0
      OBVIOUS
    <3> QED
      BY <2>4, <2>6, <3>1, Zenon
  <2>8. r \div p = q /\ r % p = 0
    BY <1>3, <2>7, DivUnique, ZenonT(30)
  <2> QED
    BY <1>3, <2>1, <2>2, <2>8, Zenon
<1>5. PICK a \in Nat : a = vbr.fatsz * vbr.nfats
  BY <1>2
<1>6. PICK v \in Nat, t \in Nat, k \in Nat : v = vbr.nrsv /\ t = vbr.tsect /\ k = vbr.csize /\ k > 0 /\ t < Word
  <2>1. vbr.csize \in Nat \ {0}
    BY <1>1 DEF PowerOf2
  <2>2. PICK k \in Nat : k = vbr.csize /\ k > 0
    BY <2>1
  <2> QED
    BY <1>2, <2>2
<1>7. areas = v + a + q /\ t >= v + a + q + k
  <2>1. areas = v + a + q
    BY <1>4, <1>5, <1>6, Zenon DEF areas
  <2>2. t >= areas + k
    BY <1>1, <1>6, Zenon
  <2> QED
    BY <2>1, <2>2, Zenon
<1>8. a % Word = a /\ (v + a + q) % Word = v + a + q
  <2>1. v + a + q < Word /\ a < Word
    BY <1>2, <1>6, <1>7
  <2> QED
    BY <1>2, <2>1
<1>9. Fasize(vbr) = a /\ Sysect(vbr) = v + a + q
  <2>1. Fasize(vbr) = a
    BY <1>5, <1>8, Zenon DEF Fasize
  <2> QED
    BY <1>4, <1>6, <1>8, <2>1, Zenon DEF Sysect
<1>10. Nclst(vbr) = n
  BY <1>6, <1>7, <1>9, Zenon DEF Nclst, n
<1>11. n \in Nat /\ n >= 1
  <2>1. PICK m \in Nat : m = t - (v + a + q) /\ m >= k
    BY <1>6, <1>7
  <2>2. PICK c \in Nat, e \in Nat : c = m \div k /\ e < k /\ m = k * c + e
    <3>1. m \in Nat /\ k \in Nat /\ k > 0
      BY <1>6, <2>1, Zenon
    <3> QED
      BY <3>1, DivMod
  <2>3. n = c
    BY <1>6, <1>7, <2>1, <2>2, Zenon DEF n
  <2>4. c # 0
    <3>1. k * 0 = 0
      OBVIOUS
    <3>2. ASSUME c = 0 PROVE m = 0 + e
      BY <2>2, <3>1, <3>2, Zenon
    <3>3. ASSUME m = 0 + e PROVE FALSE
      BY <2>1, <2>2, <3>3
    <3> QED
      BY <3>2, <3>3
  <2> QED
    BY <2>3, <2>4
<1>12. SubType(n) \in {"fat12", "fat16", "fat32"} /\ bits = Bits(SubType(n)) /\ (bits = 32 <=> SubType(n) = "fat32")
  BY <1>11, MountAssumption DEF bits, Bits, SubType
<1>13. vbr.fatsz >= Ceil(FatBytes(SubType(n), n + 2), fs.ss)
  <2>1. n + 2 \in Nat /\ fs.ss \in Nat /\ fs.ss > 0
    BY <1>3, <1>11
  <2>2. (n + 2) * Bits(SubType(n)) <= vbr.fatsz * fs.ss * 8
    BY <1>1, <1>12, Zenon
  <2> HIDE DEF n
  <2> QED
    BY <1>2, <1>12, <2>1, <2>2, EntriesFit, Zenon
<1>14. vbr.tsect >= Sysect(vbr)
  <2>1. t >= v + a + q
    BY <1>6, <1>7
  <2> QED
    BY <1>6, <1>9, <2>1, Zenon
<1>15. n \in 1 .. MaxFat32
  BY <1>1, <1>11, MountAssumption
<1>16. IF SubType(n) = "fat32" THEN vbr.ver = 0 /\ vbr.rootent = 0 ELSE vbr.rootent # 0
  BY <1>1, <1>2, <1>12
<1>17. vbr.nrsv # 0
  BY <1>1, <1>2
<1> QED
  BY <1>1, <1>4, <1>10, <1>13, <1>14, <1>15, <1>16, <1>17, Zenon DEF FatSound

-----------------------------------------------------------------------------
(* Which volume is the first *)

\* None of the first k places of Locations has a volume.
NonePassed(k) == \A j \in Volumes : k < j
\* The first volume of the medium is a well formatted FAT volume.
Mountable ==
    \E i \in Volumes : /\ First(i) /\ Content(Locations[i]).kind = "fat"
                       /\ WellFormed(Content(Locations[i]), block_size)
FirstInv ==
    faults = 0 =>
        /\ pc = "gpt" => Content(0).kind = "pmbr"
        /\ pc \in {"entry", "partition"} =>
               /\ Content(0).kind = "pmbr" /\ Content(1).kind = "gpt"
               /\ table = <<Content(1).n, Content(1).at, Content(1).per>>
               /\ at <= Content(1).n
        /\ pc = "entry" => NonePassed(at)
        /\ pc = "partition" => at >= 1 /\ NonePassed(at - 1) /\ vbr.lba = Locations[at]
        /\ pc = "mbr" => /\ \/ Content(0).kind = "mbr" /\ table = Content(0).part
                            \/ Content(0).kind = "boot" /\ table = <<0, 0, 0, 0>>
                         /\ at \in 1 .. 5 /\ NonePassed(at - 1)
        /\ pc \in Layout \cup {"idle"} => \E i \in Volumes : First(i) /\ fs.bsect = Locations[i]
        /\ pc = "disposed" /\ ok /\ SizeFits(block_size) => ~Mountable

\* Which volume is the first only depends on the medium.
LEMMA SameMedium ==
    ASSUME UNCHANGED medium
    PROVE  /\ Volumes' = Volumes /\ Locations' = Locations
           /\ \A s : Content(s)' = Content(s)
           /\ \A i : First(i)' = First(i)
           /\ UNCHANGED block_size => Mountable' = Mountable
<1>1. \A s : Content(s)' = Content(s)
  BY DEF Content
<1>2. Locations' = Locations
  BY <1>1 DEF Locations, GptAt, Class, Content
<1>3. Volumes' = Volumes
  BY <1>2 DEF Volumes, Class, Content
<1>4. \A i : First(i)' = First(i)
  BY <1>3 DEF First
<1>5. UNCHANGED block_size => Mountable' = Mountable
  BY <1>2, <1>3, <1>4 DEF Mountable, Content, First
<1> QED
  BY <1>1, <1>2, <1>3, <1>4, <1>5

\* Where find_volume looks, by what sector 0 is.
LEMMA WhereAt ==
    /\ Class(Content(0)) < 2 => Locations = <<0>>
    /\ Content(0).kind = "mbr" => Locations = Content(0).part
    /\ Content(0).kind = "pmbr" /\ Content(1).kind = "gpt" =>
           Locations = [e \in 1 .. Content(1).n |-> GptAt(e - 1, Content(1))]
    /\ ~(Class(Content(0)) < 2) /\ Content(0).kind # "mbr" /\ ~(Content(0).kind = "pmbr" /\ Content(1).kind = "gpt") =>
           Locations = <<>>
  BY DEF Locations, Class
LEMMA NoLocations == Locations = <<>> => Volumes = {}
  BY DEF Volumes

\* Entry 0 of the medium is no volume if its first sector is none.
LEMMA UnusedEntry == ASSUME Content(0).kind \in {"mbr", "pmbr", "boot"}, NEW i, Locations[i] = 0 PROVE i \notin Volumes
  BY DEF Volumes, Class

\* An entry that is not a volume is passed, and one that is a volume is the first.
LEMMA PassedNext ==
    ASSUME NEW k \in Nat, NonePassed(k), Volumes \subseteq Nat, k + 1 \notin Volumes PROVE NonePassed(k + 1)
<1> SUFFICES ASSUME NEW j \in Volumes PROVE k + 1 < j
  BY DEF NonePassed
<1>1. k < j /\ j \in Nat /\ j # k + 1
  BY DEF NonePassed
<1> QED
  BY <1>1
LEMMA FirstThere ==
    ASSUME NEW k \in Nat, NonePassed(k), Volumes \subseteq Nat, k + 1 \in Volumes PROVE First(k + 1)
<1> SUFFICES ASSUME NEW j \in Volumes PROVE k + 1 <= j
  BY DEF First
<1>1. k < j /\ j \in Nat
  BY DEF NonePassed
<1> QED
  BY <1>1
LEMMA FirstAlone == ASSUME Volumes \subseteq Nat, NEW i, NEW j, First(i), First(j) PROVE i = j
<1>1. i \in Nat /\ j \in Nat /\ i <= j /\ j <= i
  BY DEF First
<1> QED
  BY <1>1
\* The places where find_volume looks are numbered, so that one of them is the first.
LEMMA VolumesNumbered == ASSUME medium \in Media PROVE Volumes \subseteq Nat
<1>1. Content(0).kind = "mbr" => DOMAIN Content(0).part = 1 .. 4
  BY ContentKind, MediaTyped DEF SectorTyped, None
<1>2. CASE Class(Content(0)) < 2
  BY <1>2, WhereAt DEF Volumes
<1>3. CASE Content(0).kind = "mbr"
  BY <1>1, <1>3, WhereAt DEF Volumes
<1>4. CASE Content(0).kind = "pmbr" /\ Content(1).kind = "gpt"
  <2>1. Content(1).n \in Nat
    BY <1>4, ContentKind, MediaTyped DEF SectorTyped, None
  <2>2. DOMAIN Locations = 1 .. Content(1).n
    BY <1>4, WhereAt
  <2> QED
    BY <2>1, <2>2 DEF Volumes
<1> QED
  BY <1>2, <1>3, <1>4, WhereAt, NoLocations

\* The mount ends where there is no volume, or where the first one is not well formatted.
LEMMA GoneFirst == ASSUME UNCHANGED <<medium, block_size>>, pc' = "disposed", ~Mountable PROVE FirstInv'
  BY SameMedium DEF FirstInv, Layout
LEMMA NoVolume == Volumes = {} => ~Mountable
  BY DEF Mountable
\* The volume found is the first one, so that to refuse it is to refuse no well formatted one.
LEMMA Unfit ==
    ASSUME PlaceInv, TruthInv, FirstInv, faults = 0, pc \in Layout, IsExfat \/ (pc = "fat" /\ ~FatSound(vbr))
    PROVE  ~Mountable
<1> SUFFICES ASSUME Mountable PROVE FALSE
  OBVIOUS
<1>1. PICK i \in Volumes : First(i) /\ fs.bsect = Locations[i]
  BY DEF FirstInv
<1>2. PICK j \in Volumes : /\ First(j) /\ Content(Locations[j]).kind = "fat"
                           /\ WellFormed(Content(Locations[j]), block_size)
  BY DEF Mountable
<1>3. i = j
  BY <1>1, <1>2, VolumesNumbered, FirstAlone DEF PlaceInv
<1>4. vbr = Content(fs.bsect)
  BY DEF TruthInv, VbrTrue
<1>5. vbr.kind = "fat" /\ WellFormed(vbr, block_size)
  BY <1>1, <1>2, <1>3, <1>4
<1>6. pc = "fat" /\ ~FatSound(vbr) /\ IsFat
  BY <1>5 DEF IsExfat, PlaceInv
<1>7. fs.ss = block_size /\ fs.ss \in SectorSizes
  BY DEF PlaceInv
<1> QED
  BY <1>5, <1>6, <1>7, WellFormedSound

\* find_volume goes on, or has found the volume.
LEMMA FoundFirst ==
    ASSUME PlaceInv, pc \in Search, UNCHANGED <<medium, block_size>>, NEW i, First(i), NEW l, l.winsect = Locations[i], Found(l)
    PROVE  FirstInv'
<1>1. pc' \in {"fat", "exfat"} /\ fs'.bsect = Locations[i]
  BY DEF Found, PlaceInv, Shape, NoFs
<1>2. i \in Volumes' /\ First(i)' /\ fs'.bsect = Locations'[i]
  BY <1>1, SameMedium DEF First
<1> QED
  BY <1>1, <1>2 DEF FirstInv, Layout

\* Each place where find_volume looks is passed only without a volume.
LEMMA FirstStep ==
    SizeInv /\ TruthInv /\ PlaceInv /\ CleanInv /\ FirstInv /\ [Next]_vars => FirstInv'
<1> SUFFICES ASSUME SizeInv, TruthInv, PlaceInv, CleanInv, FirstInv, [Next]_vars, faults' = 0 PROVE FirstInv'
  BY DEF FirstInv
<1>0. at \in Nat /\ medium \in Media /\ Volumes \subseteq Nat /\ Shape(fs)
  BY VolumesNumbered DEF PlaceInv
<1>1. CASE TestUnitReady
  BY <1>1 DEF TestUnitReady, FirstInv, Layout
<1>2. CASE RequestSense
  <2>1. pc' \in {"capacity10", "retry", "mount"}
    BY <1>2 DEF RequestSense
  <2> QED
    BY <2>1 DEF FirstInv, Layout
<1>3. CASE TestAgain
  BY <1>3 DEF TestAgain, FirstInv, Layout
<1>4. CASE ReadCapacity10
  <2>1. pc' \in {"capacity16", "mount"}
    BY <1>4 DEF ReadCapacity10
  <2> QED
    BY <2>1 DEF FirstInv, Layout
<1>5. CASE ReadCapacity16
  BY <1>5 DEF ReadCapacity16, FirstInv, Layout
<1>6. CASE Mount
  <2>1. faults = 0 /\ devok /\ UNCHANGED <<ok, block_size>>
    BY <1>6 DEF Mount, unit, CleanInv
  <2>2. pc' = "sector0" \/ (pc' = "disposed" /\ ~(ok /\ SizeFits(block_size % CountWord)))
    BY <1>6, <2>1 DEF Mount, Answer
  <2>3. ASSUME SizeFits(block_size) PROVE block_size % CountWord = block_size
    <3>1. block_size <= MaxSS /\ MaxSS < CountWord /\ CountWord \in Nat /\ MaxSS \in Nat
      BY <2>3, BlocksShort, MountAssumption DEF SizeFits
    <3>2. block_size \in Nat
      BY MountAssumption DEF SizeInv
    <3> QED
      BY <3>1, <3>2
  <2> QED
    BY <2>1, <2>2, <2>3 DEF FirstInv, Layout
<1>7. CASE Sector0
  <2>1. pc = "sector0" /\ UNCHANGED <<medium, block_size>>
    BY <1>7 DEF Sector0, Beside
  <2>2. PICK l \in Reads(0) :
          /\ Loaded(l)
          /\ \/ l.err
             \/ Class(l.win) < 2 /\ Found(l)
             \/ Class(l.win) = 3 /\ pc' = "disposed"
             \/ l.win.kind = "pmbr" /\ Goes("gpt", 0)
             \/ /\ ~(Class(l.win) < 2) /\ Class(l.win) # 3 /\ l.win.kind # "pmbr" /\ pc' = "mbr" /\ at' = 1
                /\ table' = IF l.win.kind = "mbr" THEN l.win.part ELSE <<0, 0, 0, 0>>
    BY <1>7 DEF Sector0, Fails, Answer
  <2>3. l.err = FALSE /\ l.win = Content(0) /\ l.winsect = 0
    BY <2>2, CleanLoads
  <2>4. CASE Class(l.win) < 2 /\ Found(l)
    <3>1. Locations = <<0>>
      BY <2>3, <2>4, WhereAt
    <3>2. Volumes = {1}
      BY <2>3, <2>4, <3>1 DEF Volumes
    <3>3. First(1) /\ l.winsect = Locations[1]
      BY <2>3, <3>1, <3>2 DEF First
    <3> QED
      BY <2>1, <2>4, <3>3, FoundFirst DEF Search
  <2>5. CASE Class(l.win) = 3 /\ pc' = "disposed"
    <3>1. Locations = <<>>
      BY <2>3, <2>5, WhereAt DEF Class
    <3> QED
      BY <2>1, <2>5, <3>1, NoLocations, NoVolume, GoneFirst
  <2>6. CASE l.win.kind = "pmbr" /\ Goes("gpt", 0)
    BY <2>1, <2>3, <2>6, SameMedium DEF FirstInv, Layout, Goes
  <2>7. CASE /\ ~(Class(l.win) < 2) /\ Class(l.win) # 3 /\ l.win.kind # "pmbr" /\ pc' = "mbr" /\ at' = 1
             /\ table' = IF l.win.kind = "mbr" THEN l.win.part ELSE <<0, 0, 0, 0>>
    <3>1. \/ Content(0).kind = "mbr" /\ table' = Content(0).part
          \/ Content(0).kind = "boot" /\ table' = <<0, 0, 0, 0>>
      BY <2>3, <2>7 DEF Class
    <3>2. Content(0)' = Content(0) /\ Volumes' = Volumes
      BY <2>1, SameMedium
    <3>3. 0 \notin Volumes
      <4>1. DOMAIN Content(0).part = 1 .. 4 \/ Content(0).kind = "boot"
        BY <1>0, <3>1, ContentKind, MediaTyped DEF SectorTyped, None
      <4>2. CASE Content(0).kind = "mbr"
        BY <3>1, <4>1, <4>2, WhereAt DEF Volumes
      <4>3. CASE Content(0).kind = "boot"
        BY <4>3, WhereAt, NoLocations DEF Class
      <4> QED
        BY <3>1, <4>2, <4>3
    <3>4. \A j \in Volumes : at' - 1 < j
      BY <1>0, <2>7, <3>3
    <3> QED
      BY <2>7, <3>1, <3>2, <3>4 DEF FirstInv, NonePassed, Layout
  <2> QED
    BY <2>2, <2>3, <2>4, <2>5, <2>6, <2>7
<1>8. CASE GptHeader
  <2>1. pc = "gpt" /\ UNCHANGED <<medium, block_size>>
    BY <1>8 DEF GptHeader, Beside
  <2>2. PICK l \in Loads(1) :
          /\ Loaded(l)
          /\ \/ l.err
             \/ l.win.kind = "gpt" /\ pc' = "entry" /\ at' = 0 /\ table' = <<l.win.n, l.win.at, l.win.per>>
             \/ l.win.kind # "gpt" /\ pc' = "disposed"
    BY <1>8 DEF GptHeader, Fails, Answer
  <2>3. l.err = FALSE /\ l.win = Content(1) /\ faults = 0
    BY <2>1, <2>2, CleanLoads DEF Loading
  <2>4. Content(0).kind = "pmbr"
    BY <2>1, <2>3 DEF FirstInv
  <2>5. CASE l.win.kind = "gpt" /\ pc' = "entry" /\ at' = 0 /\ table' = <<l.win.n, l.win.at, l.win.per>>
    <3>1. Content(0)' = Content(0) /\ Content(1)' = Content(1) /\ Volumes' = Volumes
      BY <2>1, SameMedium
    <3>2. Content(1).n \in Nat
      BY <1>0, <2>3, <2>5, ContentKind, MediaTyped DEF SectorTyped, None
    <3>3. \A j \in Volumes : 0 < j
      <4>1. Volumes \subseteq 1 .. Content(1).n
        BY <2>3, <2>4, <2>5, WhereAt DEF Volumes
      <4> QED
        BY <3>2, <4>1
    <3> QED
      BY <2>3, <2>4, <2>5, <3>1, <3>2, <3>3 DEF FirstInv, NonePassed, Layout
  <2>6. CASE l.win.kind # "gpt" /\ pc' = "disposed"
    <3>1. Locations = <<>>
      BY <2>3, <2>4, <2>6, WhereAt DEF Class
    <3> QED
      BY <2>1, <2>6, <3>1, NoLocations, NoVolume, GoneFirst
  <2> QED
    BY <2>2, <2>3, <2>5, <2>6
<1>b. ASSUME pc \in {"entry", "partition"}, faults = 0
      PROVE  /\ Content(0).kind = "pmbr" /\ Content(1).kind = "gpt"
             /\ table = <<Content(1).n, Content(1).at, Content(1).per>> /\ at <= Content(1).n
             /\ Content(1).n \in Nat
             /\ Locations = [e \in 1 .. Content(1).n |-> GptAt(e - 1, Content(1))]
  <2>1. /\ Content(0).kind = "pmbr" /\ Content(1).kind = "gpt"
        /\ table = <<Content(1).n, Content(1).at, Content(1).per>> /\ at <= Content(1).n
    BY <1>b DEF FirstInv
  <2>2. Content(1).n \in Nat
    BY <1>0, <2>1, ContentKind, MediaTyped DEF SectorTyped, None
  <2> QED
    BY <2>1, <2>2, WhereAt
<1>9. CASE GptEntry
  <2>1. pc = "entry" /\ UNCHANGED <<medium, block_size>>
    BY <1>9 DEF GptEntry, Beside
  <2>2. CASE at = table[1]
    <3>1. faults = 0 /\ pc' = "disposed"
      BY <1>9, <2>2 DEF GptEntry, Fails, Answer
    <3>2. NonePassed(Content(1).n) /\ DOMAIN Locations = 1 .. Content(1).n /\ Content(1).n \in Nat
      BY <1>b, <2>1, <2>2, <3>1 DEF FirstInv
    <3>3. Volumes = {}
      BY <3>2 DEF NonePassed, Volumes
    <3> QED
      BY <2>1, <3>1, <3>3, NoVolume, GoneFirst
  <2>3. CASE at # table[1]
    <3>1. PICK l \in Loads(table[2] + at \div table[3]) :
            /\ Loaded(l)
            /\ \/ l.err
               \/ /\ l.win.kind = "ptes" /\ pc' = "partition" /\ at' = at + 1 /\ UNCHANGED <<table, fs>>
                  /\ vbr' = [kind |-> "look", lba |-> l.win.lba[(at % table[3]) + 1]]
               \/ /\ ~(l.win.kind = "ptes" /\ l.win.lba[(at % table[3]) + 1] # 0)
                  /\ Goes("entry", at + 1)
      BY <1>9, <2>3 DEF GptEntry
    <3>2. l.err = FALSE /\ l.win = Content(table[2] + at \div table[3]) /\ faults = 0
      BY <2>1, <3>1, CleanLoads DEF Loading
    <3>3. /\ Content(0).kind = "pmbr" /\ Content(1).kind = "gpt"
          /\ table = <<Content(1).n, Content(1).at, Content(1).per>> /\ at <= Content(1).n /\ Content(1).n \in Nat
          /\ Locations = [e \in 1 .. Content(1).n |-> GptAt(e - 1, Content(1))]
          /\ NonePassed(at)
      BY <1>b, <2>1, <3>2 DEF FirstInv
    <3>4. at + 1 \in 1 .. Content(1).n /\ (at + 1) - 1 = at
      BY <1>0, <2>3, <3>3
    <3>5. Locations[at + 1] = IF l.win.kind = "ptes" THEN l.win.lba[(at % table[3]) + 1] ELSE 0
      <4>1. Locations[at + 1] = GptAt(at, Content(1))
        BY <3>3, <3>4
      <4>2. table[2] = Content(1).at /\ table[3] = Content(1).per
        BY <3>3
      <4> QED
        BY <3>2, <4>1, <4>2, Zenon DEF GptAt
    <3>6. /\ Content(0)' = Content(0) /\ Content(1)' = Content(1) /\ Volumes' = Volumes /\ Locations' = Locations
      BY <2>1, SameMedium
    <3>7. CASE /\ l.win.kind = "ptes" /\ pc' = "partition" /\ at' = at + 1 /\ UNCHANGED <<table, fs>>
               /\ vbr' = [kind |-> "look", lba |-> l.win.lba[(at % table[3]) + 1]]
      <4>1. vbr'.lba = Locations'[at'] /\ at' >= 1 /\ at' - 1 = at /\ at' <= Content(1).n
        BY <1>0, <3>4, <3>5, <3>6, <3>7
      <4>2. \A j \in Volumes' : at' - 1 < j
        BY <3>3, <3>6, <4>1 DEF NonePassed
      <4> QED
        BY <3>3, <3>6, <3>7, <4>1, <4>2 DEF FirstInv, NonePassed, Layout
    <3>8. CASE /\ ~(l.win.kind = "ptes" /\ l.win.lba[(at % table[3]) + 1] # 0)
               /\ Goes("entry", at + 1)
      <4>1. Locations[at + 1] = 0
        BY <3>5, <3>8
      <4>2. at + 1 \notin Volumes
        BY <3>3, <4>1, UnusedEntry
      <4>3. NonePassed(at + 1)
        BY <1>0, <3>3, <4>2, PassedNext
      <4>4. pc' = "entry" /\ table' = table /\ at' = at + 1 /\ at' <= Content(1).n
        BY <3>4, <3>8 DEF Goes
      <4>5. \A j \in Volumes' : at' < j
        BY <3>6, <4>3, <4>4 DEF NonePassed
      <4> QED
        BY <3>3, <3>6, <4>4, <4>5 DEF FirstInv, NonePassed, Layout
    <3> QED
      BY <3>1, <3>2, <3>7, <3>8
  <2> QED
    BY <2>2, <2>3
<1>10. CASE GptPartition
  <2>1. pc = "partition" /\ UNCHANGED <<medium, block_size>>
    BY <1>10 DEF GptPartition, Beside
  <2>2. PICK l \in Reads(vbr.lba) :
          /\ Loaded(l)
          /\ \/ l.err
             \/ ~(Class(l.win) < 2) /\ Goes("entry", at)
             \/ Class(l.win) < 2 /\ Found(l)
    BY <1>10 DEF GptPartition, Past, Fails, Class
  <2>3. l.err = FALSE /\ l.win = Content(vbr.lba) /\ l.winsect = vbr.lba /\ faults = 0
    BY <2>1, <2>2, CleanLoads
  <2>4. /\ Content(0).kind = "pmbr" /\ Content(1).kind = "gpt"
        /\ table = <<Content(1).n, Content(1).at, Content(1).per>> /\ at <= Content(1).n /\ Content(1).n \in Nat
        /\ DOMAIN Locations = 1 .. Content(1).n
        /\ at >= 1 /\ NonePassed(at - 1) /\ vbr.lba = Locations[at]
    BY <1>b, <2>1, <2>3 DEF FirstInv
  <2>5. at - 1 \in Nat /\ (at - 1) + 1 = at /\ at \in 1 .. Content(1).n
    BY <1>0, <2>4
  <2>6. CASE ~(Class(l.win) < 2) /\ Goes("entry", at)
    <3>1. at \notin Volumes
      BY <2>3, <2>4, <2>6 DEF Volumes
    <3>2. NonePassed(at)
      BY <1>0, <2>4, <2>5, <3>1, PassedNext
    <3>3. Content(0)' = Content(0) /\ Content(1)' = Content(1) /\ Volumes' = Volumes
      BY <2>1, SameMedium
    <3>4. pc' = "entry" /\ UNCHANGED <<table, at>>
      BY <2>6 DEF Goes
    <3>5. \A j \in Volumes' : at' < j
      BY <3>2, <3>3, <3>4 DEF NonePassed
    <3> QED
      BY <2>4, <3>3, <3>4, <3>5 DEF FirstInv, NonePassed, Layout
  <2>7. CASE Class(l.win) < 2 /\ Found(l)
    <3>1. at \in Volumes
      BY <2>3, <2>4, <2>5, <2>7 DEF Volumes
    <3>2. First(at)
      BY <1>0, <2>4, <2>5, <3>1, FirstThere
    <3>3. PICK i : i = at
      OBVIOUS
    <3>4. First(i) /\ l.winsect = Locations[i]
      BY <2>3, <2>4, <3>2, <3>3
    <3> QED
      BY <2>1, <2>7, <3>4, FoundFirst DEF Search
  <2> QED
    BY <2>2, <2>3, <2>6, <2>7
<1>11. CASE MbrPartition
  <2>1. pc = "mbr" /\ UNCHANGED <<medium, block_size>> /\ (faults = 0 => devok)
    BY <1>11 DEF MbrPartition, Beside, CleanInv
  <2>2. faults = 0
    <3>1. CASE at > 4 \/ table[at] = 0
      BY <1>11, <3>1 DEF MbrPartition
    <3>2. CASE ~(at > 4 \/ table[at] = 0)
      BY <1>11, <3>2, CleanLoads DEF MbrPartition
    <3> QED
      BY <3>1, <3>2
  <2>3. /\ \/ Content(0).kind = "mbr" /\ table = Content(0).part
           \/ Content(0).kind = "boot" /\ table = <<0, 0, 0, 0>>
        /\ at \in 1 .. 5 /\ NonePassed(at - 1)
    BY <2>1, <2>2 DEF FirstInv
  <2>4. \/ Content(0).kind = "mbr" /\ Locations = table /\ DOMAIN Locations = 1 .. 4
        \/ Content(0).kind = "boot" /\ Volumes = {}
    <3>1. CASE Content(0).kind = "mbr"
      BY <1>0, <2>3, <3>1, WhereAt, ContentKind, MediaTyped DEF SectorTyped, None
    <3>2. CASE Content(0).kind = "boot"
      BY <3>2, WhereAt, NoLocations DEF Class
    <3> QED
      BY <2>3, <3>1, <3>2
  <2>5. Content(0)' = Content(0) /\ Volumes' = Volumes
    BY <2>1, SameMedium
  <2>6. at - 1 \in Nat /\ (at - 1) + 1 = at
    BY <2>3
  <2>a. ASSUME at \notin Volumes, at <= 4, pc' = "mbr", at' = at + 1, table' = table PROVE FirstInv'
    <3>1. NonePassed(at)
      BY <1>0, <2>3, <2>6, <2>a, PassedNext
    <3>2. at' \in 1 .. 5 /\ at' - 1 = at
      BY <2>3, <2>a
    <3>3. \A j \in Volumes' : at' - 1 < j
      BY <2>5, <3>1, <3>2 DEF NonePassed
    <3> QED
      BY <2>3, <2>5, <2>a, <3>2, <3>3 DEF FirstInv, NonePassed, Layout
  <2>7. CASE at > 4
    <3>1. pc' = "disposed"
      BY <1>11, <2>7 DEF MbrPartition, Fails, Answer
    <3>2. Volumes = {}
      <4>1. at - 1 = 4
        BY <2>3, <2>7
      <4> QED
        BY <2>3, <2>4, <4>1 DEF NonePassed, Volumes
    <3> QED
      BY <2>1, <3>1, <3>2, NoVolume, GoneFirst
  <2>8. CASE at <= 4 /\ table[at] = 0
    <3>1. pc' = "mbr" /\ at' = at + 1 /\ table' = table
      BY <1>11, <1>0, <2>8 DEF MbrPartition, Goes
    <3>2. at \notin Volumes
      BY <2>4, <2>8, UnusedEntry
    <3> QED
      BY <2>8, <2>a, <3>1, <3>2
  <2>9. CASE at <= 4 /\ table[at] # 0
    <3>1. PICK l \in Reads(table[at]) :
            /\ Loaded(l)
            /\ \/ l.err
               \/ ~(Class(l.win) < 2) /\ Goes("mbr", at + 1)
               \/ Class(l.win) < 2 /\ Found(l)
      BY <1>0, <1>11, <2>9 DEF MbrPartition, Past, Fails, Class
    <3>2. l.err = FALSE /\ l.win = Content(table[at]) /\ l.winsect = table[at]
      BY <3>1, CleanLoads
    <3>3. Content(0).kind = "mbr" /\ Locations = table /\ DOMAIN Locations = 1 .. 4
      BY <2>3, <2>4, <2>9
    <3>4. CASE ~(Class(l.win) < 2) /\ Goes("mbr", at + 1)
      <4>1. at \notin Volumes
        BY <3>2, <3>3, <3>4 DEF Volumes
      <4> QED
        BY <2>9, <2>a, <3>4, <4>1 DEF Goes
    <3>5. CASE Class(l.win) < 2 /\ Found(l)
      <4>1. at \in Volumes
        BY <2>3, <2>9, <3>2, <3>3, <3>5 DEF Volumes
      <4>2. First(at)
        BY <1>0, <2>3, <2>6, <4>1, FirstThere
      <4>3. PICK i : i = at
        OBVIOUS
      <4>4. First(i) /\ l.winsect = Locations[i]
        BY <3>2, <3>3, <4>2, <4>3
      <4> QED
        BY <2>1, <3>5, <4>4, FoundFirst DEF Search
    <3> QED
      BY <3>1, <3>2, <3>4, <3>5
  <2> QED
    BY <1>0, <2>7, <2>8, <2>9
<1>c. ASSUME faults = 0, pc \in Layout \cup {"idle"}, UNCHANGED <<medium, block_size>>, fs'.bsect = fs.bsect,
             pc' \in Layout \cup {"idle"}
      PROVE  FirstInv'
  <2>1. PICK i \in Volumes : First(i) /\ fs.bsect = Locations[i]
    BY <1>c DEF FirstInv
  <2>2. i \in Volumes' /\ First(i)' /\ fs'.bsect = Locations'[i]
    BY <1>c, <2>1, SameMedium
  <2> QED
    BY <1>c, <2>2 DEF FirstInv, Layout
<1>12. CASE FatVolume
  <2>1. pc = "fat" /\ UNCHANGED <<medium, block_size>> /\ faults = 0
    BY <1>12 DEF FatVolume, unit
  <2>2. CASE ~FatSound(vbr)
    BY <1>12, <2>1, <2>2, Unfit, GoneFirst DEF FatVolume, Answer, Layout
  <2>3. CASE FatSound(vbr)
    <3>1. /\ pc' \in {"fsinfo", "idle"}
          /\ fs' = FatLaid(vbr) \/ fs' = [FatLaid(vbr) EXCEPT !.type = SubType(Nclst(vbr))]
      BY <1>12, <2>3 DEF FatVolume, Mounted
    <3>2. fs'.bsect = fs.bsect
      BY <1>0, <2>3, <3>1, LaidFatPlaced
    <3> QED
      BY <1>c, <2>1, <3>1, <3>2 DEF Layout
  <2> QED
    BY <2>2, <2>3
<1>13. CASE FsInfo
  <2>1. pc = "fsinfo" /\ UNCHANGED <<medium, block_size>> /\ pc' = "idle" /\ faults = 0
    BY <1>13, CleanLoads DEF FsInfo, Beside, Mounted, Loading, Layout
  <2>2. fs'.bsect = fs.bsect
    BY <1>0, <1>13 DEF FsInfo, Mounted, Shape, NoFs
  <2> QED
    BY <1>c, <2>1, <2>2 DEF Layout
<1>14. CASE ExfatVolume
  <2>1. pc = "exfat" /\ UNCHANGED <<medium, block_size, vbr>> /\ faults = 0 /\ IsExfat
    BY <1>14 DEF ExfatVolume, unit, PlaceInv
  <2>2. CASE ~ExSound(vbr)
    BY <1>14, <2>1, <2>2, Unfit, GoneFirst DEF ExfatVolume, Answer, Layout
  <2>3. CASE ExSound(vbr)
    <3>1. pc' = "bitmap" /\ fs' = ExLaid(vbr)
      BY <1>14, <2>3 DEF ExfatVolume
    <3>2. fs'.bsect = fs.bsect
      BY <1>0, <2>1, <2>3, <3>1, LaidExfatPlaced
    <3> QED
      BY <1>c, <2>1, <3>1, <3>2 DEF Layout
  <2> QED
    BY <2>2, <2>3
<1>15. CASE FindBitmap
  <2>1. pc = "bitmap" /\ UNCHANGED <<medium, block_size>> /\ IsExfat
    BY <1>15 DEF FindBitmap, Beside, PlaceInv
  <2>2. faults = 0
    <3>1. CASE at >= fs.csize
      BY <1>15, <3>1 DEF FindBitmap
    <3>2. CASE ~(at >= fs.csize)
      BY <1>15, <2>1, <3>2, CleanLoads DEF FindBitmap, Loading, Layout
    <3> QED
      BY <3>1, <3>2
  <2>3. \/ pc' = "disposed"
        \/ pc' = "bitmap" /\ fs' = fs
        \/ pc' = "contiguous" /\ \E x : fs' = [fs EXCEPT !.bitbase = x]
    BY <1>15 DEF FindBitmap, Fails, Answer, Goes
  <2>4. pc' # "disposed" => fs'.bsect = fs.bsect
    BY <1>0, <2>3 DEF Shape, NoFs
  <2>5. ~Mountable
    BY <2>1, <2>2, Unfit DEF Layout
  <2> QED
    BY <1>c, <2>1, <2>2, <2>3, <2>4, <2>5, GoneFirst DEF Layout
<1>16. CASE Contiguous
  <2>1. pc = "contiguous" /\ UNCHANGED <<medium, block_size>> /\ IsExfat
    BY <1>16 DEF Contiguous, Beside, PlaceInv
  <2>2. faults = 0
    BY <1>16, <2>1, CleanLoads DEF Contiguous, Loading, Layout
  <2>3. \/ pc' = "disposed"
        \/ pc' = "contiguous" /\ fs' = fs
        \/ pc' = "idle" /\ fs' = [fs EXCEPT !.type = "exfat"]
    BY <1>16 DEF Contiguous, Fails, Answer, Goes, Mounted
  <2>4. pc' # "disposed" => fs'.bsect = fs.bsect
    BY <1>0, <2>3 DEF Shape, NoFs
  <2>5. ~Mountable
    BY <2>1, <2>2, Unfit DEF Layout
  <2> QED
    BY <1>c, <2>1, <2>2, <2>3, <2>4, <2>5, GoneFirst DEF Layout
<1>17. CASE Access
  <2>1. faults = 0
    BY <1>17, CleanCommand DEF Access
  <2> QED
    BY <1>17, <1>c, <2>1 DEF Access
<1>18. CASE Refused
  <2>1. pc = "idle" /\ UNCHANGED <<medium, block_size, pc>> /\ faults = 0 /\ fs'.bsect = fs.bsect
    BY <1>0, <1>18, Fields DEF Refused, unit, NoFs
  <2> QED
    BY <1>c, <2>1
<1>19. CASE UNCHANGED vars
  <2>1. UNCHANGED <<medium, pc, ok, block_size, at, table, vbr, fs, faults>>
    BY <1>19 DEF vars, unit
  <2>2. UNCHANGED <<Volumes, Locations, Mountable, Content(0), Content(1)>> /\ \A i : First(i)' = First(i)
    BY <2>1, SameMedium
  <2> QED
    BY <2>1, <2>2 DEF FirstInv, NonePassed
<1> QED
  BY <1>1, <1>2, <1>3, <1>4, <1>5, <1>6, <1>7, <1>8, <1>9, <1>10, <1>11, <1>12, <1>13, <1>14,
     <1>15, <1>16, <1>17, <1>18, <1>19 DEF Next
\* While nothing fails, the first volume of the medium is the one mounted, and it is
\* mounted if it is a well formatted FAT volume.
THEOREM FirstSafe == Spec => []FirstVolumeMounts
<1>1. Init => CleanInv /\ FirstInv
  BY DEF Init, CleanInv, FirstInv, Loading, Layout
<1>2. TruthInv /\ FirstInv => FirstVolumeMounts
  <2> SUFFICES ASSUME TruthInv, FirstInv PROVE FirstVolumeTaken /\ WellFormedMounts
    BY DEF FirstVolumeMounts
  <2>1. FirstVolumeTaken
    BY DEF TruthInv, FirstInv, FirstVolumeTaken
  <2>2. WellFormedMounts
    BY DEF FirstInv, Mountable, WellFormedMounts
  <2> QED
    BY <2>1, <2>2
<1> QED
  BY <1>1, <1>2, PlaceStart, SizeStep, TruthStep, PlaceStep, CleanStep, FirstStep, PTL DEF Spec
==============================================================================
