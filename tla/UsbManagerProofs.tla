--------------------------- MODULE UsbManagerProofs ---------------------------
(***************************************************************************)
(* Proofs about UsbManager for any number of interfaces, units and indices.*)
(* IInv is the inductive invariant: mutual exclusion, the shape of the     *)
(* drive list at each stage of UpdateDrives, and who owns which index.     *)
(***************************************************************************)
EXTENDS UsbManager, WellFoundedInduction, SequenceTheorems, TLAPS

\* A non-empty set of drives has a first one.
LEMMA LeastOf ==
    ASSUME NEW n \in Nat, NEW S \in SUBSET (1 .. n), S # {} PROVE \E i \in S : \A j \in S : i <= j
<1> DEFINE R == {ss \in Nat \X Nat : ss[1] < ss[2]}
<1>1. IsWellFoundedOn(R, Nat)
  BY NatLessThanWellFounded DEF OpToRel
<1>2. S \subseteq Nat
  OBVIOUS
<1>3. PICK i \in S : \A j \in S : <<j, i>> \notin R
  <2> HIDE DEF R
  <2> QED
    BY <1>1, <1>2, WFMin
<1>4. \A j \in S : ~(j < i)
  BY <1>2, <1>3
<1> QED
  BY <1>2, <1>4

Busy == {"setup", "lun", "mount", "probe", "close"}

\* Only the owner of the lock is inside UpdateDrives.
MutexInv == \A t \in Threads : pc[t] \in Critical => lock = t

\* Entries not yet visited hold drives; outside the pruning stage all do.
ListInv ==
    /\ \A t \in Threads : pc[t] = "prune" =>
         /\ scan[t] \in 1 .. Len(drives) + 1
         /\ \A k \in scan[t] .. Len(drives) : drives[k] \in Ifaces
    /\ (\A t \in Threads : pc[t] # "prune") =>
         \A k \in 1 .. Len(drives) : drives[k] \in Ifaces
    /\ \A t \in Threads : pc[t] \in Busy => cur[t] \in Ifaces
    /\ \A t \in Threads : pc[t] \in {"mount", "probe"} =>
         drives # <<>> /\ Last = cur[t]

\* A registered FATFS belongs to a mounted drive, or to the one being mounted.
RegistryInv ==
    /\ \A v \in Volumes : FatFs[v] \in Ifaces =>
         /\ drive[FatFs[v]].idx = v
         /\ usb[FatFs[v]] \in {"acquired", "orphan"}
         /\ \/ drive[FatFs[v]].mounted
            \/ \E t \in Threads : pc[t] = "probe" /\ cur[t] = FatFs[v]
    /\ \A t \in Threads : pc[t] \in Busy \ {"probe"} =>
         \A v \in Volumes : FatFs[v] # cur[t]
    /\ \A t \in Threads : pc[t] = "probe" =>
         LET i == cur[t] IN
         drive[i].idx \in Volumes /\ reserved[drive[i].idx] /\ FatFs[drive[i].idx] = i

\* The interface being worked on is acquired; nobody else may close it.
SessionInv ==
    \A t \in Threads : pc[t] \in Busy => usb[cur[t]] \in {"acquired", "orphan"}

IInv ==
    TypeOK /\ SessionInv /\ MutexInv /\ ListInv /\ FreeIndexUnregistered /\ MountedOwnsIndex /\ RegistryInv

LEMMA RecordTypes ==
    ASSUME TypeOK
    PROVE  /\ NoDrive \in DriveRecords
           /\ \A i \in Ifaces : Disposed(i) \in DriveRecords
           /\ \A i \in Ifaces, v \in Volumes : Placed(i, v) \in DriveRecords
           /\ \A i \in Ifaces : [drive[i] EXCEPT !.mounted = TRUE] \in DriveRecords
           /\ \A j \in Nat, s \in {"ok", "failed"} :
                [NoDrive EXCEPT !.live = TRUE, !.lun = j, !.scsi = s] \in DriveRecords
<1> USE DriveMaxAssumption DEF Volumes, Invalid
<1>1. drive \in [Ifaces -> DriveRecords]
  BY DEF TypeOK
<1>2. NoDrive \in DriveRecords
  BY DEF NoDrive, DriveRecords
<1>3. ASSUME NEW i \in Ifaces
      PROVE  /\ Disposed(i) \in DriveRecords
             /\ \A v \in Volumes : Placed(i, v) \in DriveRecords
             /\ [drive[i] EXCEPT !.mounted = TRUE] \in DriveRecords
  <2>1. drive[i] \in DriveRecords
    BY <1>1
  <2>2. Disposed(i) \in DriveRecords
    BY <2>1 DEF Disposed, DriveRecords
  <2>3. ASSUME NEW v \in Volumes PROVE Placed(i, v) \in DriveRecords
    BY <2>1 DEF Placed, DriveRecords
  <2>4. [drive[i] EXCEPT !.mounted = TRUE] \in DriveRecords
    BY <2>1 DEF DriveRecords
  <2> QED
    BY <2>2, <2>3, <2>4
<1>4. ASSUME NEW j \in Nat, NEW s \in {"ok", "failed"}
      PROVE [NoDrive EXCEPT !.live = TRUE, !.lun = j, !.scsi = s] \in DriveRecords
  BY DEF NoDrive, DriveRecords
<1> QED
  BY <1>2, <1>3, <1>4

LEMMA FreedType ==
    ASSUME TypeOK, NEW S
    PROVE  Freed(S) \in [Volumes -> Ifaces \cup {Null, Dangling}]
  BY DEF TypeOK, Freed

\* The smaller facts about Seq that the typing of the lists needs.
LEMMA SeqWidens == ASSUME NEW S, NEW T, S \subseteq T, NEW s \in Seq(S) PROVE s \in Seq(T)
  BY SeqMonotonic

LEMMA FrontType ==
    ASSUME NEW S, NEW s \in Seq(S)
    PROVE  SubSeq(s, 1, Len(s) - 1) \in Seq(S)
  BY SubSeqProperties, ElementOfSeq, LenProperties

\* pop_back, whichever way Mount failed.
LEMMA PopDriveType == ASSUME TypeOK, NEW t \in Threads, PopDrive(t) PROVE TypeOK'
<1> USE DEF TypeOK, usbVars, pruneVars, Goto, Labels
<1>1. drives' \in Seq(Ifaces \cup {Moved})
  BY FrontType, SMTT(30) DEF PopDrive
<1>2. drive' \in [Ifaces -> DriveRecords]
  BY RecordTypes DEF PopDrive
<1>3. FatFs' \in [Volumes -> Ifaces \cup {Null, Dangling}]
  BY FreedType DEF PopDrive
<1>4. lun' \in [Threads -> Nat] /\ pc' \in [Threads -> Labels]
  BY SMTT(30) DEF PopDrive
<1> QED
  BY <1>1, <1>2, <1>3, <1>4 DEF PopDrive

LEMMA TypeStep == IInv /\ [Next]_vars => TypeOK'
<1> SUFFICES ASSUME IInv, [Next]_vars PROVE TypeOK'
  OBVIOUS
<1> USE DEF TypeOK, usbVars, table, pruneVars, mountVars, locals, Goto, Leave, Labels
<1>. TypeOK BY DEF IInv
<1>1. ASSUME NEW i \in Ifaces, Plug(i) PROVE TypeOK'
  BY <1>1 DEF Plug, UsbStates
<1>2. ASSUME NEW i \in Ifaces, Unplug(i) PROVE TypeOK'
  BY <1>2 DEF Unplug, UsbStates
<1>3. ASSUME NEW t \in Threads, WakeStateChange(t) PROVE TypeOK'
  BY <1>3 DEF WakeStateChange
<1>4. ASSUME NEW t \in Threads, WakeAvailable(t) PROVE TypeOK'
  BY <1>4 DEF WakeAvailable
<1>5. ASSUME NEW t \in Threads, DoUpdateDrives(t) PROVE TypeOK'
  BY <1>5, SMTT(30) DEF DoUpdateDrives
<1>6. ASSUME NEW t \in Threads, Lock(t) PROVE TypeOK'
  BY <1>6 DEF Lock
<1>7. ASSUME NEW t \in Threads, QueryAcquired(t) PROVE TypeOK'
  BY <1>7 DEF QueryAcquired, Block, Answers
<1>8. ASSUME NEW t \in Threads, QueryAcquiredFails(t) PROVE TypeOK'
  <2>1. drive' \in [Ifaces -> DriveRecords]
    BY <1>8, RecordTypes DEF QueryAcquiredFails
  <2>2. FatFs' \in [Volumes -> Ifaces \cup {Null, Dangling}]
    BY <1>8, FreedType DEF QueryAcquiredFails
  <2> QED
    BY <1>8, <2>1, <2>2, EmptySeq DEF QueryAcquiredFails
<1>9. ASSUME NEW t \in Threads, PruneKeep(t) PROVE TypeOK'
  <2>1. drives[scan[t]] \in Ifaces
    BY <1>9 DEF PruneKeep
  <2>2. valid' \in [Threads -> Seq(Ifaces)]
    BY <1>9, <2>1, AppendProperties DEF PruneKeep, PushValid
  <2>3. drives' \in Seq(Ifaces \cup {Moved})
    <3>1. drives' = [drives EXCEPT ![scan[t]] = Moved]
      BY <1>9 DEF PruneKeep
    <3>2. scan[t] \in 1 .. Len(drives)
      BY <1>9 DEF PruneKeep, IInv, ListInv
    <3> QED
      BY <3>1, <3>2, ExceptSeq
  <2>4. scan' \in [Threads -> Nat]
    BY <1>9 DEF PruneKeep
  <2>5. UNCHANGED <<usbVars, block, mountVars, lock, pc, drive, reserved, FatFs, calls>>
    BY <1>9 DEF PruneKeep
  <2> QED
    BY <2>2, <2>3, <2>4, <2>5
<1>10. ASSUME NEW t \in Threads, PruneDrop(t) PROVE TypeOK'
  <2>1. drive' \in [Ifaces -> DriveRecords]
    BY <1>10, RecordTypes DEF PruneDrop
  <2>2. FatFs' \in [Volumes -> Ifaces \cup {Null, Dangling}]
    BY <1>10 DEF PruneDrop, Unregistered
  <2>3. reserved' \in [Volumes -> BOOLEAN]
    BY <1>10 DEF PruneDrop, Released
  <2>4. usb' \in [Ifaces -> UsbStates]
    BY <1>10 DEF PruneDrop, Closed, UsbStates
  <2> QED
    BY <1>10, <2>1, <2>2, <2>3, <2>4, SMTT(30) DEF PruneDrop
<1>11. ASSUME NEW t \in Threads, PruneDone(t) PROVE TypeOK'
  <2>1. drive' \in [Ifaces -> DriveRecords]
    BY <1>11, RecordTypes DEF PruneDone, Kept
  <2>2. FatFs' \in [Volumes -> Ifaces \cup {Null, Dangling}]
    BY <1>11, FreedType DEF PruneDone, Kept
  <2>3. drives' \in Seq(Ifaces \cup {Moved})
    <3>1. valid[t] \in Seq(Ifaces)
      OBVIOUS
    <3> QED
      BY <1>11, <3>1, SeqWidens DEF PruneDone, Kept
  <2>4. valid' \in [Threads -> Seq(Ifaces)]
    BY <1>11, EmptySeq DEF PruneDone, Kept
  <2> QED
    BY <1>11, <2>1, <2>2, <2>3, <2>4 DEF PruneDone, Kept
<1>12. ASSUME NEW t \in Threads, QueryAvailable(t) PROVE TypeOK'
  BY <1>12 DEF QueryAvailable, Block, Answers
<1>13. ASSUME NEW t \in Threads, QueryAvailableFails(t) PROVE TypeOK'
  BY <1>13 DEF QueryAvailableFails, Unlock
<1>14. ASSUME NEW t \in Threads, Return(t) PROVE TypeOK'
  BY <1>14 DEF Return, Unlock
<1>15. ASSUME NEW t \in Threads, NEW i \in Ifaces, AcquireUsbIf(t, i) PROVE TypeOK'
  BY <1>15 DEF AcquireUsbIf, UsbStates
<1>16. ASSUME NEW t \in Threads, NEW i \in Ifaces, AcquireUsbIfFails(t, i) PROVE TypeOK'
  BY <1>16 DEF AcquireUsbIfFails
<1>17. ASSUME NEW t \in Threads, Setup(t) PROVE TypeOK'
  BY <1>17, SMTT(30) DEF Setup
<1>18. ASSUME NEW t \in Threads, SetupFails(t) PROVE TypeOK'
  BY <1>18 DEF SetupFails
<1>19. ASSUME NEW t \in Threads, PushDrive(t) PROVE TypeOK'
  <2>1. cur[t] \in Ifaces
    BY <1>19 DEF PushDrive, IInv, ListInv, Busy
  <2>2. drive' \in [Ifaces -> DriveRecords]
    <3>1. PICK s \in {"ok", "failed"} :
            drive' = [drive EXCEPT ![cur[t]] =
                        [NoDrive EXCEPT !.live = TRUE, !.lun = lun[t], !.scsi = s]]
      BY <1>19 DEF PushDrive
    <3>2. [NoDrive EXCEPT !.live = TRUE, !.lun = lun[t], !.scsi = s] \in DriveRecords
      BY RecordTypes
    <3> QED
      BY <3>1, <3>2
  <2>3. drives' \in Seq(Ifaces \cup {Moved})
    BY <1>19, <2>1, AppendProperties DEF PushDrive
  <2> QED
    BY <1>19, <2>2, <2>3 DEF PushDrive
<1>20. ASSUME NEW t \in Threads, LunsExhausted(t) PROVE TypeOK'
  BY <1>20 DEF LunsExhausted
<1>21. ASSUME NEW t \in Threads, MountNoScsi(t) PROVE TypeOK'
  BY <1>21, PopDriveType DEF MountNoScsi
<1>22. ASSUME NEW t \in Threads, MountRegister(t) PROVE TypeOK'
  <2>1. Last \in Ifaces
    BY <1>22 DEF MountRegister, IInv, ListInv, Busy
  <2>2. PICK v \in Volumes : /\ reserved' = [reserved EXCEPT ![v] = TRUE]
                             /\ drive' = [drive EXCEPT ![Last] = Placed(Last, v)]
                             /\ FatFs' = [FatFs EXCEPT ![v] = Last]
    BY <1>22 DEF MountRegister
  <2>3. drive' \in [Ifaces -> DriveRecords]
    BY <2>1, <2>2, RecordTypes
  <2> QED
    BY <1>22, <2>1, <2>2, <2>3 DEF MountRegister
<1>23. ASSUME NEW t \in Threads, MountNoIndex(t) PROVE TypeOK'
  BY <1>23, SMTT(30) DEF MountNoIndex
<1>24. ASSUME NEW t \in Threads, MountSucceeds(t) PROVE TypeOK'
  BY <1>24, RecordTypes DEF MountSucceeds
<1>25. ASSUME NEW t \in Threads, MountFails(t) PROVE TypeOK'
  BY <1>25, PopDriveType DEF MountFails
<1>26. ASSUME NEW t \in Threads, CloseUsbIf(t) PROVE TypeOK'
  BY <1>26 DEF CloseUsbIf, UsbStates, Closed
<1>27. CASE UNCHANGED vars
  BY <1>27 DEF vars
<1> QED
  BY <1>1, <1>2, <1>3, <1>4, <1>5, <1>6, <1>7, <1>8, <1>9, <1>10, <1>11, <1>12, <1>13, <1>14, <1>15, <1>16, <1>17, <1>18, <1>19, <1>20, <1>21, <1>22, <1>23, <1>24, <1>25, <1>26, <1>27 DEF Next, Environment, Wake, UpdateDrives, Prune, Acquire, Mount

\* What mutual exclusion gives a thread inside UpdateDrives.
LEMMA Alone ==
    ASSUME IInv, NEW t \in Threads, pc[t] \in Critical,
           NEW s \in Threads, pc[s] \in Critical
    PROVE  s = t
  BY DEF IInv, MutexInv

\* Outside the pruning stage the whole list holds drives.
LEMMA NoneMoved ==
    ASSUME IInv, NEW t \in Threads, pc[t] \in Critical, pc[t] # "prune"
    PROVE  \A k \in 1 .. Len(drives) : drives[k] \in Ifaces
<1>1. \A s \in Threads : pc[s] # "prune"
  BY Alone DEF Critical, Labels
<1> QED
  BY <1>1 DEF IInv, ListInv

\* Freeing drives leaves the other registry slots as they were.
LEMMA FreedSlots ==
    ASSUME NEW S, S \subseteq Ifaces, NEW v \in Volumes
    PROVE  /\ FatFs[v] = Null => Freed(S)[v] = Null
           /\ \A i \in Ifaces : Freed(S)[v] = i <=> FatFs[v] = i /\ i \notin S
  BY PointerAssumption DEF Freed

\* The drive being mounted is the last of the list.
LEMMA Mounting ==
    ASSUME IInv, NEW t \in Threads, pc[t] \in {"mount", "probe"}
    PROVE  Last = cur[t] /\ Last \in Ifaces /\ drives # <<>>
  BY DEF IInv, ListInv, Busy

\* Taking the lock needs it free; only its owner gives it back.
LEMMA MutexStep == IInv /\ [Next]_vars => MutexInv'
<1> SUFFICES ASSUME IInv, [Next]_vars PROVE MutexInv'
  OBVIOUS
<1> USE DEF MutexInv, Critical, Labels, usbVars, table, pruneVars, mountVars, locals, Goto
<1>. /\ MutexInv /\ pc \in [Threads -> Labels]
  BY DEF IInv, TypeOK
<1>1. ASSUME NEW i \in Ifaces, Plug(i) PROVE MutexInv'
  BY <1>1 DEF Plug
<1>2. ASSUME NEW i \in Ifaces, Unplug(i) PROVE MutexInv'
  BY <1>2 DEF Unplug
<1>3. ASSUME NEW t \in Threads, WakeStateChange(t) PROVE MutexInv'
  BY <1>3 DEF WakeStateChange
<1>4. ASSUME NEW t \in Threads, WakeAvailable(t) PROVE MutexInv'
  BY <1>4 DEF WakeAvailable
<1>5. ASSUME NEW t \in Threads, DoUpdateDrives(t) PROVE MutexInv'
  BY <1>5 DEF DoUpdateDrives
<1>6. ASSUME NEW t \in Threads, Lock(t) PROVE MutexInv'
  BY <1>6, ThreadAssumption DEF Lock
<1>7. ASSUME NEW t \in Threads, QueryAcquired(t) PROVE MutexInv'
  BY <1>7 DEF QueryAcquired
<1>8. ASSUME NEW t \in Threads, QueryAcquiredFails(t) PROVE MutexInv'
  BY <1>8 DEF QueryAcquiredFails
<1>9. ASSUME NEW t \in Threads, PruneKeep(t) PROVE MutexInv'
  BY <1>9 DEF PruneKeep
<1>10. ASSUME NEW t \in Threads, PruneDrop(t) PROVE MutexInv'
  BY <1>10 DEF PruneDrop
<1>11. ASSUME NEW t \in Threads, PruneDone(t) PROVE MutexInv'
  BY <1>11 DEF PruneDone, Kept
<1>12. ASSUME NEW t \in Threads, QueryAvailable(t) PROVE MutexInv'
  BY <1>12 DEF QueryAvailable
<1>13. ASSUME NEW t \in Threads, QueryAvailableFails(t) PROVE MutexInv'
  BY <1>13 DEF QueryAvailableFails, Unlock, Leave
<1>14. ASSUME NEW t \in Threads, Return(t) PROVE MutexInv'
  BY <1>14 DEF Return, Unlock, Leave
<1>15. ASSUME NEW t \in Threads, NEW i \in Ifaces, AcquireUsbIf(t, i) PROVE MutexInv'
  BY <1>15 DEF AcquireUsbIf
<1>16. ASSUME NEW t \in Threads, NEW i \in Ifaces, AcquireUsbIfFails(t, i) PROVE MutexInv'
  BY <1>16 DEF AcquireUsbIfFails
<1>17. ASSUME NEW t \in Threads, Setup(t) PROVE MutexInv'
  BY <1>17 DEF Setup
<1>18. ASSUME NEW t \in Threads, SetupFails(t) PROVE MutexInv'
  BY <1>18 DEF SetupFails
<1>19. ASSUME NEW t \in Threads, PushDrive(t) PROVE MutexInv'
  BY <1>19 DEF PushDrive
<1>20. ASSUME NEW t \in Threads, LunsExhausted(t) PROVE MutexInv'
  BY <1>20 DEF LunsExhausted
<1>21. ASSUME NEW t \in Threads, MountNoScsi(t) PROVE MutexInv'
  BY <1>21 DEF MountNoScsi, PopDrive
<1>22. ASSUME NEW t \in Threads, MountRegister(t) PROVE MutexInv'
  BY <1>22 DEF MountRegister
<1>23. ASSUME NEW t \in Threads, MountNoIndex(t) PROVE MutexInv'
  BY <1>23 DEF MountNoIndex
<1>24. ASSUME NEW t \in Threads, MountSucceeds(t) PROVE MutexInv'
  BY <1>24 DEF MountSucceeds
<1>25. ASSUME NEW t \in Threads, MountFails(t) PROVE MutexInv'
  BY <1>25 DEF MountFails, PopDrive
<1>26. ASSUME NEW t \in Threads, CloseUsbIf(t) PROVE MutexInv'
  BY <1>26 DEF CloseUsbIf
<1>27. CASE UNCHANGED vars
  BY <1>27 DEF vars
<1> QED
  BY <1>1, <1>2, <1>3, <1>4, <1>5, <1>6, <1>7, <1>8, <1>9, <1>10, <1>11, <1>12, <1>13, <1>14,
     <1>15, <1>16, <1>17, <1>18, <1>19, <1>20, <1>21, <1>22, <1>23, <1>24, <1>25, <1>26, <1>27
     DEF Next, Environment, Wake, UpdateDrives, Prune, Acquire, Mount

\* An index is freed and its registry slot emptied in one step.
LEMMA FreeStep == IInv /\ [Next]_vars => FreeIndexUnregistered'
<1> SUFFICES ASSUME IInv, [Next]_vars PROVE FreeIndexUnregistered'
  OBVIOUS
<1> USE PointerAssumption
    DEF FreeIndexUnregistered, usbVars, table, pruneVars, mountVars, locals, Goto
<1>. /\ FreeIndexUnregistered /\ FatFs \in [Volumes -> Ifaces \cup {Null, Dangling}]
     /\ reserved \in [Volumes -> BOOLEAN]
     /\ drives \in Seq(Ifaces \cup {Moved})
  BY DEF IInv, TypeOK
<1>1. ASSUME NEW i \in Ifaces, Plug(i) PROVE FreeIndexUnregistered'
  BY <1>1 DEF Plug
<1>2. ASSUME NEW i \in Ifaces, Unplug(i) PROVE FreeIndexUnregistered'
  BY <1>2 DEF Unplug
<1>3. ASSUME NEW t \in Threads, WakeStateChange(t) PROVE FreeIndexUnregistered'
  BY <1>3 DEF WakeStateChange
<1>4. ASSUME NEW t \in Threads, WakeAvailable(t) PROVE FreeIndexUnregistered'
  BY <1>4 DEF WakeAvailable
<1>5. ASSUME NEW t \in Threads, DoUpdateDrives(t) PROVE FreeIndexUnregistered'
  BY <1>5 DEF DoUpdateDrives
<1>6. ASSUME NEW t \in Threads, Lock(t) PROVE FreeIndexUnregistered'
  BY <1>6 DEF Lock
<1>7. ASSUME NEW t \in Threads, QueryAcquired(t) PROVE FreeIndexUnregistered'
  BY <1>7 DEF QueryAcquired
<1>8. ASSUME NEW t \in Threads, QueryAcquiredFails(t) PROVE FreeIndexUnregistered'
  <2>1. {drives[k] : k \in 1 .. Len(drives)} \subseteq Ifaces
    BY <1>8, NoneMoved DEF QueryAcquiredFails, Critical, Labels
  <2> QED
    BY <1>8, <2>1, FreedSlots DEF QueryAcquiredFails
<1>9. ASSUME NEW t \in Threads, PruneKeep(t) PROVE FreeIndexUnregistered'
  BY <1>9 DEF PruneKeep
<1>10. ASSUME NEW t \in Threads, PruneDrop(t) PROVE FreeIndexUnregistered'
  BY <1>10 DEF PruneDrop, Released, Unregistered
<1>11. ASSUME NEW t \in Threads, PruneDone(t) PROVE FreeIndexUnregistered'
  <2>1. {drives[k] : k \in 1 .. Len(drives)} \ {Moved} \subseteq Ifaces
    BY ElementOfSeq
  <2> QED
    BY <1>11, <2>1, FreedSlots DEF PruneDone, Kept
<1>12. ASSUME NEW t \in Threads, QueryAvailable(t) PROVE FreeIndexUnregistered'
  BY <1>12 DEF QueryAvailable
<1>13. ASSUME NEW t \in Threads, QueryAvailableFails(t) PROVE FreeIndexUnregistered'
  BY <1>13 DEF QueryAvailableFails, Unlock, Leave
<1>14. ASSUME NEW t \in Threads, Return(t) PROVE FreeIndexUnregistered'
  BY <1>14 DEF Return, Unlock, Leave
<1>15. ASSUME NEW t \in Threads, NEW i \in Ifaces, AcquireUsbIf(t, i) PROVE FreeIndexUnregistered'
  BY <1>15 DEF AcquireUsbIf
<1>16. ASSUME NEW t \in Threads, NEW i \in Ifaces, AcquireUsbIfFails(t, i) PROVE FreeIndexUnregistered'
  BY <1>16 DEF AcquireUsbIfFails
<1>17. ASSUME NEW t \in Threads, Setup(t) PROVE FreeIndexUnregistered'
  BY <1>17 DEF Setup
<1>18. ASSUME NEW t \in Threads, SetupFails(t) PROVE FreeIndexUnregistered'
  BY <1>18 DEF SetupFails
<1>19. ASSUME NEW t \in Threads, PushDrive(t) PROVE FreeIndexUnregistered'
  BY <1>19 DEF PushDrive
<1>20. ASSUME NEW t \in Threads, LunsExhausted(t) PROVE FreeIndexUnregistered'
  BY <1>20 DEF LunsExhausted
<1>21. ASSUME NEW t \in Threads, MountNoScsi(t) PROVE FreeIndexUnregistered'
  BY <1>21, Mounting, FreedSlots, SMTT(30) DEF MountNoScsi, PopDrive
<1>22. ASSUME NEW t \in Threads, MountRegister(t) PROVE FreeIndexUnregistered'
  BY <1>22 DEF MountRegister
<1>23. ASSUME NEW t \in Threads, MountNoIndex(t) PROVE FreeIndexUnregistered'
  BY <1>23 DEF MountNoIndex
<1>24. ASSUME NEW t \in Threads, MountSucceeds(t) PROVE FreeIndexUnregistered'
  BY <1>24 DEF MountSucceeds
<1>25. ASSUME NEW t \in Threads, MountFails(t) PROVE FreeIndexUnregistered'
  BY <1>25, Mounting, FreedSlots, SMTT(30) DEF MountFails, PopDrive
<1>26. ASSUME NEW t \in Threads, CloseUsbIf(t) PROVE FreeIndexUnregistered'
  BY <1>26 DEF CloseUsbIf
<1>27. CASE UNCHANGED vars
  BY <1>27 DEF vars
<1> QED
  BY <1>1, <1>2, <1>3, <1>4, <1>5, <1>6, <1>7, <1>8, <1>9, <1>10, <1>11, <1>12, <1>13, <1>14,
     <1>15, <1>16, <1>17, <1>18, <1>19, <1>20, <1>21, <1>22, <1>23, <1>24, <1>25, <1>26, <1>27
     DEF Next, Environment, Wake, UpdateDrives, Prune, Acquire, Mount

\* An index changes hands only through its owner.
LEMMA OwnStep == IInv /\ [Next]_vars => MountedOwnsIndex'
<1> SUFFICES ASSUME IInv, [Next]_vars PROVE MountedOwnsIndex'
  OBVIOUS
<1> USE PointerAssumption
    DEF MountedOwnsIndex, usbVars, table, pruneVars, mountVars, locals, Goto
<1>. /\ MountedOwnsIndex /\ FatFs \in [Volumes -> Ifaces \cup {Null, Dangling}]
     /\ reserved \in [Volumes -> BOOLEAN] /\ drive \in [Ifaces -> DriveRecords]
     /\ drives \in Seq(Ifaces \cup {Moved})
  BY DEF IInv, TypeOK
<1>1. ASSUME NEW i \in Ifaces, Plug(i) PROVE MountedOwnsIndex'
  BY <1>1 DEF Plug
<1>2. ASSUME NEW i \in Ifaces, Unplug(i) PROVE MountedOwnsIndex'
  BY <1>2 DEF Unplug
<1>3. ASSUME NEW t \in Threads, WakeStateChange(t) PROVE MountedOwnsIndex'
  BY <1>3 DEF WakeStateChange
<1>4. ASSUME NEW t \in Threads, WakeAvailable(t) PROVE MountedOwnsIndex'
  BY <1>4 DEF WakeAvailable
<1>5. ASSUME NEW t \in Threads, DoUpdateDrives(t) PROVE MountedOwnsIndex'
  BY <1>5 DEF DoUpdateDrives
<1>6. ASSUME NEW t \in Threads, Lock(t) PROVE MountedOwnsIndex'
  BY <1>6 DEF Lock
<1>7. ASSUME NEW t \in Threads, QueryAcquired(t) PROVE MountedOwnsIndex'
  BY <1>7 DEF QueryAcquired
<1>8. ASSUME NEW t \in Threads, QueryAcquiredFails(t) PROVE MountedOwnsIndex'
  <2>1. {drives[k] : k \in 1 .. Len(drives)} \subseteq Ifaces
    BY <1>8, NoneMoved DEF QueryAcquiredFails, Critical, Labels
  <2> QED
    BY <1>8, <2>1, FreedSlots DEF QueryAcquiredFails, NoDrive
<1>9. ASSUME NEW t \in Threads, PruneKeep(t) PROVE MountedOwnsIndex'
  BY <1>9 DEF PruneKeep
<1>10. ASSUME NEW t \in Threads, PruneDrop(t) PROVE MountedOwnsIndex'
  <2> DEFINE i == drives[scan[t]]
  <2>1. i \in Ifaces
    BY <1>10 DEF PruneDrop, IInv, ListInv
  <2>2. drive' = [drive EXCEPT ![i] = Disposed(i)] /\ ~Disposed(i).mounted
    BY <1>10, <2>1 DEF PruneDrop, Disposed, DriveRecords
  <2> SUFFICES ASSUME NEW j \in Ifaces, drive'[j].mounted
               PROVE  drive'[j].idx \in Volumes /\ reserved'[drive'[j].idx]
                      /\ FatFs'[drive'[j].idx] = j
    OBVIOUS
  <2>3. j # i /\ drive'[j] = drive[j]
    BY <2>1, <2>2
  <2>4. CASE drive[i].mounted
    <3>1. drive[j].idx # drive[i].idx
      BY <2>1, <2>3, <2>4
    <3> QED
      BY <1>10, <2>1, <2>3, <2>4, <3>1 DEF PruneDrop, Released, Unregistered
  <2>5. CASE ~drive[i].mounted
    BY <1>10, <2>3, <2>5 DEF PruneDrop
  <2> QED
    BY <2>4, <2>5
<1>11. ASSUME NEW t \in Threads, PruneDone(t) PROVE MountedOwnsIndex'
  <2>1. {drives[k] : k \in 1 .. Len(drives)} \ {Moved} \subseteq Ifaces
    BY ElementOfSeq
  <2> QED
    BY <1>11, <2>1, FreedSlots DEF PruneDone, Kept, NoDrive
<1>12. ASSUME NEW t \in Threads, QueryAvailable(t) PROVE MountedOwnsIndex'
  BY <1>12 DEF QueryAvailable
<1>13. ASSUME NEW t \in Threads, QueryAvailableFails(t) PROVE MountedOwnsIndex'
  BY <1>13 DEF QueryAvailableFails, Unlock, Leave
<1>14. ASSUME NEW t \in Threads, Return(t) PROVE MountedOwnsIndex'
  BY <1>14 DEF Return, Unlock, Leave
<1>15. ASSUME NEW t \in Threads, NEW i \in Ifaces, AcquireUsbIf(t, i) PROVE MountedOwnsIndex'
  BY <1>15 DEF AcquireUsbIf
<1>16. ASSUME NEW t \in Threads, NEW i \in Ifaces, AcquireUsbIfFails(t, i) PROVE MountedOwnsIndex'
  BY <1>16 DEF AcquireUsbIfFails
<1>17. ASSUME NEW t \in Threads, Setup(t) PROVE MountedOwnsIndex'
  BY <1>17 DEF Setup
<1>18. ASSUME NEW t \in Threads, SetupFails(t) PROVE MountedOwnsIndex'
  BY <1>18 DEF SetupFails
<1>19. ASSUME NEW t \in Threads, PushDrive(t) PROVE MountedOwnsIndex'
  BY <1>19 DEF PushDrive, NoDrive
<1>20. ASSUME NEW t \in Threads, LunsExhausted(t) PROVE MountedOwnsIndex'
  BY <1>20 DEF LunsExhausted
<1>21. ASSUME NEW t \in Threads, MountNoScsi(t) PROVE MountedOwnsIndex'
  BY <1>21, Mounting, FreedSlots DEF MountNoScsi, PopDrive, NoDrive
<1>22. ASSUME NEW t \in Threads, MountRegister(t) PROVE MountedOwnsIndex'
  <2>1. PICK v \in Volumes : /\ ~reserved[v]
                             /\ reserved' = [reserved EXCEPT ![v] = TRUE]
                             /\ drive' = [drive EXCEPT ![Last] = Placed(Last, v)]
                             /\ FatFs' = [FatFs EXCEPT ![v] = Last]
    BY <1>22 DEF MountRegister, FreeIndex
  <2>2. Last \in Ifaces /\ Placed(Last, v).idx = v
    BY <1>22, Mounting DEF MountRegister, Placed, DriveRecords
  <2> QED
    BY <2>1, <2>2
<1>23. ASSUME NEW t \in Threads, MountNoIndex(t) PROVE MountedOwnsIndex'
  BY <1>23 DEF MountNoIndex
<1>24. ASSUME NEW t \in Threads, MountSucceeds(t) PROVE MountedOwnsIndex'
  <2>1. Last \in Ifaces /\ drive' = [drive EXCEPT ![Last].mounted = TRUE]
    BY <1>24, Mounting DEF MountSucceeds
  <2>2. /\ drive[Last].idx \in Volumes
        /\ reserved[drive[Last].idx]
        /\ FatFs[drive[Last].idx] = Last
    BY <1>24, Mounting DEF MountSucceeds, IInv, RegistryInv
  <2>3. \A j \in Ifaces : /\ drive'[j].idx = drive[j].idx
                          /\ drive'[j].mounted => j = Last \/ drive[j].mounted
    BY <2>1 DEF DriveRecords
  <2> QED
    BY <1>24, <2>2, <2>3 DEF MountSucceeds
<1>25. ASSUME NEW t \in Threads, MountFails(t) PROVE MountedOwnsIndex'
  BY <1>25, Mounting, FreedSlots DEF MountFails, PopDrive, NoDrive
<1>26. ASSUME NEW t \in Threads, CloseUsbIf(t) PROVE MountedOwnsIndex'
  BY <1>26 DEF CloseUsbIf
<1>27. CASE UNCHANGED vars
  BY <1>27 DEF vars
<1> QED
  BY <1>1, <1>2, <1>3, <1>4, <1>5, <1>6, <1>7, <1>8, <1>9, <1>10, <1>11, <1>12, <1>13, <1>14,
     <1>15, <1>16, <1>17, <1>18, <1>19, <1>20, <1>21, <1>22, <1>23, <1>24, <1>25, <1>26, <1>27
     DEF Next, Environment, Wake, UpdateDrives, Prune, Acquire, Mount

\* A drive that is popped takes its registry entry with it.
LEMMA PopDriveRegistry ==
    ASSUME IInv, NEW t \in Threads, pc[t] \in {"mount", "probe"}, PopDrive(t)
    PROVE  RegistryInv'
<1> USE PointerAssumption DEF RegistryInv, Busy, Critical, Labels
<1>. RegistryInv /\ pc \in [Threads -> Labels]
  BY DEF IInv, TypeOK
<1>1. Last = cur[t] /\ Last \in Ifaces
  BY Mounting
<1>2. \A s \in Threads \ {t} : pc[s] \notin Busy
  BY Alone
<1>3. /\ drive' = [drive EXCEPT ![Last] = NoDrive] /\ FatFs' = Freed({Last})
      /\ pc' = [pc EXCEPT ![t] = "lun"] /\ cur' = cur /\ usb' = usb
  BY DEF PopDrive, Goto, usbVars
<1>4. ASSUME NEW v \in Volumes, FatFs'[v] \in Ifaces
      PROVE  FatFs'[v] = FatFs[v] /\ FatFs[v] # Last
  BY <1>1, <1>3, <1>4, FreedSlots
<1>5. \A v \in Volumes : FatFs'[v] # Last
  BY <1>1, <1>4
<1>6. \A i \in Ifaces \ {Last} : drive'[i] = drive[i]
  BY <1>3 DEF IInv, TypeOK
<1>7. ASSUME NEW v \in Volumes, FatFs'[v] \in Ifaces
      PROVE  /\ drive'[FatFs'[v]].idx = v
             /\ usb'[FatFs'[v]] \in {"acquired", "orphan"}
             /\ drive'[FatFs'[v]].mounted
  <2>1. FatFs'[v] = FatFs[v] /\ FatFs[v] # Last
    BY <1>4, <1>7
  <2>2. \A s \in Threads : ~(pc[s] = "probe" /\ cur[s] = FatFs[v])
    BY <1>1, <1>2, <2>1
  <2> QED
    BY <1>3, <1>6, <1>7, <2>1, <2>2
<1>8. \A s \in Threads : pc'[s] # "probe" /\ (pc'[s] \in Busy => s = t)
  BY <1>2, <1>3
<1>9. ASSUME NEW s \in Threads, pc'[s] \in Busy, NEW v \in Volumes
      PROVE  FatFs'[v] # cur'[s]
  BY <1>1, <1>3, <1>5, <1>8, <1>9, SMTT(30)
<1> QED
  BY <1>7, <1>8, <1>9

\* Who a registered FATFS belongs to, from the first store to the last.
LEMMA RegistryStep == IInv /\ [Next]_vars => RegistryInv'
<1> SUFFICES ASSUME IInv, [Next]_vars PROVE RegistryInv'
  OBVIOUS
<1> USE PointerAssumption
    DEF RegistryInv, Busy, Critical, Labels, usbVars, table, pruneVars, mountVars, locals, Goto
<1>. /\ RegistryInv /\ FatFs \in [Volumes -> Ifaces \cup {Null, Dangling}]
     /\ reserved \in [Volumes -> BOOLEAN] /\ drive \in [Ifaces -> DriveRecords]
     /\ usb \in [Ifaces -> UsbStates] /\ pc \in [Threads -> Labels]
     /\ cur \in [Threads -> Ifaces \cup {Null}]
     /\ drives \in Seq(Ifaces \cup {Moved})
  BY DEF IInv, TypeOK
<1>1. ASSUME NEW i \in Ifaces, Plug(i) PROVE RegistryInv'
  BY <1>1 DEF Plug
<1>2. ASSUME NEW i \in Ifaces, Unplug(i) PROVE RegistryInv'
  BY <1>2 DEF Unplug
<1>3. ASSUME NEW t \in Threads, WakeStateChange(t) PROVE RegistryInv'
  BY <1>3 DEF WakeStateChange
<1>4. ASSUME NEW t \in Threads, WakeAvailable(t) PROVE RegistryInv'
  BY <1>4 DEF WakeAvailable
<1>5. ASSUME NEW t \in Threads, DoUpdateDrives(t) PROVE RegistryInv'
  BY <1>5 DEF DoUpdateDrives
<1>6. ASSUME NEW t \in Threads, Lock(t) PROVE RegistryInv'
  BY <1>6, SMTT(30) DEF Lock
<1>7. ASSUME NEW t \in Threads, QueryAcquired(t) PROVE RegistryInv'
  BY <1>7 DEF QueryAcquired
<1>8. ASSUME NEW t \in Threads, QueryAcquiredFails(t) PROVE RegistryInv'
  <2>1. {drives[k] : k \in 1 .. Len(drives)} \subseteq Ifaces
    BY <1>8, NoneMoved, SMTT(30) DEF QueryAcquiredFails, Critical, Labels
  <2>2. \A s \in Threads : pc[s] \notin Busy /\ pc'[s] \notin Busy
    BY <1>8, Alone DEF QueryAcquiredFails
  <2> DEFINE S == {drives[k] : k \in 1 .. Len(drives)}
  <2>3. ASSUME NEW v \in Volumes, FatFs'[v] \in Ifaces
        PROVE  FatFs[v] = FatFs'[v] /\ FatFs'[v] \notin S
    <3>1. FatFs' = Freed(S)
      BY <1>8 DEF QueryAcquiredFails
    <3> QED
      BY <2>1, <2>3, <3>1, FreedSlots
  <2>4. \A i \in Ifaces : i \notin S => drive'[i] = drive[i]
    BY <1>8 DEF QueryAcquiredFails
  <2>5. usb' = usb
    BY <1>8 DEF QueryAcquiredFails
  <2> HIDE DEF S
  <2> QED
    BY <2>2, <2>3, <2>4, <2>5
<1>9. ASSUME NEW t \in Threads, PruneKeep(t) PROVE RegistryInv'
  BY <1>9 DEF PruneKeep
<1>10. ASSUME NEW t \in Threads, PruneDrop(t) PROVE RegistryInv'
  <2> DEFINE i == drives[scan[t]]
  <2>1. i \in Ifaces
    BY <1>10 DEF PruneDrop, IInv, ListInv
  <2>2. \A s \in Threads : pc[s] \notin Busy
    BY <1>10, Alone DEF PruneDrop
  <2>3. /\ drive' = [drive EXCEPT ![i] = Disposed(i)]
        /\ usb' = [usb EXCEPT ![i] = Closed(usb[i])]
        /\ pc' = pc
        /\ IF drive[i].mounted THEN FatFs' = Unregistered(i) ELSE FatFs' = FatFs
    BY <1>10 DEF PruneDrop
  <2>4. ASSUME NEW v \in Volumes, FatFs'[v] \in Ifaces
        PROVE  FatFs'[v] = FatFs[v] /\ FatFs[v] # i
    BY <2>2, <2>3, <2>4 DEF Unregistered
  <2> HIDE DEF i
  <2> QED
    BY <2>1, <2>2, <2>3, <2>4
<1>11. ASSUME NEW t \in Threads, PruneDone(t) PROVE RegistryInv'
  <2>1. {drives[k] : k \in 1 .. Len(drives)} \ {Moved} \subseteq Ifaces
    BY ElementOfSeq
  <2>2. \A s \in Threads : pc[s] \notin Busy /\ pc'[s] \notin Busy
    BY <1>11, Alone DEF PruneDone, Kept
  <2> DEFINE S == {drives[k] : k \in 1 .. Len(drives)} \ {Moved}
  <2>3. ASSUME NEW v \in Volumes, FatFs'[v] \in Ifaces
        PROVE  FatFs[v] = FatFs'[v] /\ FatFs'[v] \notin S
    <3>1. FatFs' = Freed(S)
      BY <1>11 DEF PruneDone, Kept
    <3> QED
      BY <2>1, <2>3, <3>1, FreedSlots, SMTT(30)
  <2>4. \A i \in Ifaces : i \notin S => drive'[i] = drive[i]
    BY <1>11 DEF PruneDone, Kept
  <2>5. usb' = usb
    BY <1>11 DEF PruneDone, Kept
  <2> HIDE DEF S
  <2> QED
    BY <2>2, <2>3, <2>4, <2>5
<1>12. ASSUME NEW t \in Threads, QueryAvailable(t) PROVE RegistryInv'
  BY <1>12 DEF QueryAvailable
<1>13. ASSUME NEW t \in Threads, QueryAvailableFails(t) PROVE RegistryInv'
  BY <1>13 DEF QueryAvailableFails, Unlock, Leave
<1>14. ASSUME NEW t \in Threads, Return(t) PROVE RegistryInv'
  BY <1>14 DEF Return, Unlock, Leave
<1>15. ASSUME NEW t \in Threads, NEW i \in Ifaces, AcquireUsbIf(t, i) PROVE RegistryInv'
  BY <1>15 DEF AcquireUsbIf
<1>16. ASSUME NEW t \in Threads, NEW i \in Ifaces, AcquireUsbIfFails(t, i) PROVE RegistryInv'
  BY <1>16 DEF AcquireUsbIfFails
<1>17. ASSUME NEW t \in Threads, Setup(t) PROVE RegistryInv'
  BY <1>17 DEF Setup
<1>18. ASSUME NEW t \in Threads, SetupFails(t) PROVE RegistryInv'
  BY <1>18 DEF SetupFails
<1>19. ASSUME NEW t \in Threads, PushDrive(t) PROVE RegistryInv'
  BY <1>19 DEF PushDrive
<1>20. ASSUME NEW t \in Threads, LunsExhausted(t) PROVE RegistryInv'
  BY <1>20 DEF LunsExhausted
<1>21. ASSUME NEW t \in Threads, MountNoScsi(t) PROVE RegistryInv'
  BY <1>21, PopDriveRegistry DEF MountNoScsi
<1>22. ASSUME NEW t \in Threads, MountRegister(t) PROVE RegistryInv'
  <2>1. PICK v \in Volumes : /\ reserved' = [reserved EXCEPT ![v] = TRUE]
                             /\ drive' = [drive EXCEPT ![Last] = Placed(Last, v)]
                             /\ FatFs' = [FatFs EXCEPT ![v] = Last]
    BY <1>22 DEF MountRegister
  <2>2. Last = cur[t] /\ Last \in Ifaces
    BY <1>22, Mounting DEF MountRegister
  <2>3. Placed(Last, v).idx = v
    BY <2>2 DEF Placed, DriveRecords
  <2>4. \A s \in Threads \ {t} : pc[s] \notin Busy
    BY <1>22, Alone DEF MountRegister
  <2>5. usb[Last] \in {"acquired", "orphan"}
    BY <1>22, <2>2 DEF MountRegister, IInv, SessionInv
  <2>6. pc' = [pc EXCEPT ![t] = "probe"] /\ cur' = cur /\ usb' = usb
    BY <1>22 DEF MountRegister
  <2>7. \A w \in Volumes : FatFs[w] # Last
    BY <1>22, <2>2 DEF MountRegister
  <2> QED
    BY <2>1, <2>2, <2>3, <2>4, <2>5, <2>6, <2>7
<1>23. ASSUME NEW t \in Threads, MountNoIndex(t) PROVE RegistryInv'
  BY <1>23 DEF MountNoIndex
<1>24. ASSUME NEW t \in Threads, MountSucceeds(t) PROVE RegistryInv'
  <2>1. Last = cur[t] /\ Last \in Ifaces
    BY <1>24, Mounting DEF MountSucceeds
  <2>2. \A s \in Threads \ {t} : pc[s] \notin Busy
    BY <1>24, Alone DEF MountSucceeds
  <2>3. \A j \in Ifaces : /\ drive'[j].idx = drive[j].idx
                          /\ drive[j].mounted \/ j = Last => drive'[j].mounted
    BY <1>24, <2>1 DEF MountSucceeds, DriveRecords
  <2>4. pc' = [pc EXCEPT ![t] = "next"] /\ cur' = cur /\ usb' = usb /\ FatFs' = FatFs
    BY <1>24 DEF MountSucceeds
  <2> QED
    BY <2>1, <2>2, <2>3, <2>4
<1>25. ASSUME NEW t \in Threads, MountFails(t) PROVE RegistryInv'
  BY <1>25, PopDriveRegistry DEF MountFails
<1>26. ASSUME NEW t \in Threads, CloseUsbIf(t) PROVE RegistryInv'
  BY <1>26 DEF CloseUsbIf
<1>27. CASE UNCHANGED vars
  BY <1>27 DEF vars
<1> QED
  BY <1>1, <1>2, <1>3, <1>4, <1>5, <1>6, <1>7, <1>8, <1>9, <1>10, <1>11, <1>12, <1>13, <1>14,
     <1>15, <1>16, <1>17, <1>18, <1>19, <1>20, <1>21, <1>22, <1>23, <1>24, <1>25, <1>26, <1>27
     DEF Next, Environment, Wake, UpdateDrives, Prune, Acquire, Mount

\* Sessions stay open while their interface is being set up.
LEMMA SessionStep == IInv /\ [Next]_vars => SessionInv'
<1> SUFFICES ASSUME IInv, [Next]_vars PROVE SessionInv'
  OBVIOUS
<1> USE DEF SessionInv, Busy, Critical, Labels, usbVars, table, pruneVars, mountVars, locals, Goto
<1>. /\ SessionInv /\ usb \in [Ifaces -> UsbStates] /\ pc \in [Threads -> Labels]
     /\ cur \in [Threads -> Ifaces \cup {Null}]
     /\ \A s \in Threads : pc[s] \in Busy => cur[s] \in Ifaces
  BY DEF IInv, TypeOK, ListInv
<1>1. ASSUME NEW i \in Ifaces, Plug(i) PROVE SessionInv'
  BY <1>1 DEF Plug
<1>2. ASSUME NEW i \in Ifaces, Unplug(i) PROVE SessionInv'
  BY <1>2 DEF Unplug
<1>3. ASSUME NEW t \in Threads, WakeStateChange(t) PROVE SessionInv'
  BY <1>3 DEF WakeStateChange
<1>4. ASSUME NEW t \in Threads, WakeAvailable(t) PROVE SessionInv'
  BY <1>4 DEF WakeAvailable
<1>5. ASSUME NEW t \in Threads, DoUpdateDrives(t) PROVE SessionInv'
  BY <1>5 DEF DoUpdateDrives
<1>6. ASSUME NEW t \in Threads, Lock(t) PROVE SessionInv'
  BY <1>6 DEF Lock
<1>7. ASSUME NEW t \in Threads, QueryAcquired(t) PROVE SessionInv'
  BY <1>7 DEF QueryAcquired
<1>8. ASSUME NEW t \in Threads, QueryAcquiredFails(t) PROVE SessionInv'
  BY <1>8 DEF QueryAcquiredFails
<1>9. ASSUME NEW t \in Threads, PruneKeep(t) PROVE SessionInv'
  BY <1>9 DEF PruneKeep
<1>10. ASSUME NEW t \in Threads, PruneDrop(t) PROVE SessionInv'
  BY <1>10, Alone DEF PruneDrop
<1>11. ASSUME NEW t \in Threads, PruneDone(t) PROVE SessionInv'
  BY <1>11 DEF PruneDone, Kept
<1>12. ASSUME NEW t \in Threads, QueryAvailable(t) PROVE SessionInv'
  BY <1>12 DEF QueryAvailable
<1>13. ASSUME NEW t \in Threads, QueryAvailableFails(t) PROVE SessionInv'
  BY <1>13 DEF QueryAvailableFails, Unlock, Leave
<1>14. ASSUME NEW t \in Threads, Return(t) PROVE SessionInv'
  BY <1>14 DEF Return, Unlock, Leave
<1>15. ASSUME NEW t \in Threads, NEW i \in Ifaces, AcquireUsbIf(t, i) PROVE SessionInv'
  BY <1>15, Alone DEF AcquireUsbIf
<1>16. ASSUME NEW t \in Threads, NEW i \in Ifaces, AcquireUsbIfFails(t, i) PROVE SessionInv'
  BY <1>16 DEF AcquireUsbIfFails
<1>17. ASSUME NEW t \in Threads, Setup(t) PROVE SessionInv'
  BY <1>17 DEF Setup
<1>18. ASSUME NEW t \in Threads, SetupFails(t) PROVE SessionInv'
  BY <1>18 DEF SetupFails
<1>19. ASSUME NEW t \in Threads, PushDrive(t) PROVE SessionInv'
  BY <1>19 DEF PushDrive
<1>20. ASSUME NEW t \in Threads, LunsExhausted(t) PROVE SessionInv'
  BY <1>20 DEF LunsExhausted
<1>21. ASSUME NEW t \in Threads, MountNoScsi(t) PROVE SessionInv'
  BY <1>21 DEF MountNoScsi, PopDrive
<1>22. ASSUME NEW t \in Threads, MountRegister(t) PROVE SessionInv'
  BY <1>22 DEF MountRegister
<1>23. ASSUME NEW t \in Threads, MountNoIndex(t) PROVE SessionInv'
  BY <1>23 DEF MountNoIndex
<1>24. ASSUME NEW t \in Threads, MountSucceeds(t) PROVE SessionInv'
  BY <1>24 DEF MountSucceeds
<1>25. ASSUME NEW t \in Threads, MountFails(t) PROVE SessionInv'
  BY <1>25 DEF MountFails, PopDrive
<1>26. ASSUME NEW t \in Threads, CloseUsbIf(t) PROVE SessionInv'
  BY <1>26, Alone DEF CloseUsbIf
<1>27. CASE UNCHANGED vars
  BY <1>27 DEF vars
<1> QED
  BY <1>1, <1>2, <1>3, <1>4, <1>5, <1>6, <1>7, <1>8, <1>9, <1>10, <1>11, <1>12, <1>13, <1>14,
     <1>15, <1>16, <1>17, <1>18, <1>19, <1>20, <1>21, <1>22, <1>23, <1>24, <1>25, <1>26, <1>27
     DEF Next, Environment, Wake, UpdateDrives, Prune, Acquire, Mount

\* What push_back of a drive does to the list.
LEMMA PushList ==
    ASSUME drives \in Seq(Ifaces \cup {Moved}), NEW i \in Ifaces
    PROVE  /\ Append(drives, i) # <<>>
           /\ Len(Append(drives, i)) = Len(drives) + 1
           /\ \A k \in 1 .. Len(drives) : Append(drives, i)[k] = drives[k]
           /\ Append(drives, i)[Len(drives) + 1] = i
  BY AppendProperties

\* pop_back leaves drives only.
LEMMA PopDriveList ==
    ASSUME IInv, NEW t \in Threads, pc[t] \in {"mount", "probe"}, PopDrive(t)
    PROVE  ListInv'
<1> USE DEF ListInv, Last, Busy, Critical, Labels
<1>. ListInv /\ pc \in [Threads -> Labels] /\ drives \in Seq(Ifaces \cup {Moved})
  BY DEF IInv, TypeOK
<1>1. \A s \in Threads \ {t} : pc[s] \notin Critical
  BY Alone
<1>2. \A k \in 1 .. Len(drives) : drives[k] \in Ifaces
  BY NoneMoved
<1>3. /\ pc' = [pc EXCEPT ![t] = "lun"] /\ cur' = cur
      /\ drives' = SubSeq(drives, 1, Len(drives) - 1)
  BY DEF PopDrive, Goto
<1>4. \A k \in 1 .. Len(drives') : drives'[k] \in Ifaces
  <2>1. Len(drives) \in Nat
    BY LenProperties
  <2>2. drives' \in Seq(Ifaces)
    BY <1>2, <1>3, <2>1, SubSeqProperties
  <2> QED
    BY <2>2, ElementOfSeq
<1> QED
  BY <1>1, <1>3, <1>4

\* The list at every stage of UpdateDrives.
LEMMA ListStep == IInv /\ [Next]_vars => ListInv'
<1> SUFFICES ASSUME IInv, [Next]_vars PROVE ListInv'
  OBVIOUS
<1> USE DEF ListInv, Last, Busy, Critical, Labels, usbVars, table, pruneVars, mountVars, locals, Goto
<1>. /\ ListInv /\ pc \in [Threads -> Labels] /\ scan \in [Threads -> Nat]
     /\ cur \in [Threads -> Ifaces \cup {Null}] /\ block \in [Threads -> SUBSET Ifaces]
     /\ valid \in [Threads -> Seq(Ifaces)] /\ drives \in Seq(Ifaces \cup {Moved})
  BY DEF IInv, TypeOK
<1>1. ASSUME NEW i \in Ifaces, Plug(i) PROVE ListInv'
  BY <1>1 DEF Plug
<1>2. ASSUME NEW i \in Ifaces, Unplug(i) PROVE ListInv'
  BY <1>2 DEF Unplug
<1>3. ASSUME NEW t \in Threads, WakeStateChange(t) PROVE ListInv'
  BY <1>3 DEF WakeStateChange
<1>4. ASSUME NEW t \in Threads, WakeAvailable(t) PROVE ListInv'
  BY <1>4 DEF WakeAvailable
<1>5. ASSUME NEW t \in Threads, DoUpdateDrives(t) PROVE ListInv'
  BY <1>5 DEF DoUpdateDrives
<1>6. ASSUME NEW t \in Threads, Lock(t) PROVE ListInv'
  BY <1>6 DEF Lock
<1>7. ASSUME NEW t \in Threads, QueryAcquired(t) PROVE ListInv'
  <2>1. \A k \in 1 .. Len(drives) : drives[k] \in Ifaces
    BY <1>7, NoneMoved DEF QueryAcquired
  <2>2. \A s \in Threads \ {t} : pc[s] \notin Critical
    BY <1>7, Alone DEF QueryAcquired
  <2>3. /\ pc' = [pc EXCEPT ![t] = "prune"] /\ scan' = [scan EXCEPT ![t] = 1]
        /\ drives' = drives /\ cur' = cur
    BY <1>7 DEF QueryAcquired
  <2>4. 1 \in 1 .. Len(drives) + 1
    BY LenProperties
  <2> QED
    BY <2>1, <2>2, <2>3, <2>4
<1>8. ASSUME NEW t \in Threads, QueryAcquiredFails(t) PROVE ListInv'
  <2>1. \A s \in Threads \ {t} : pc[s] \notin Critical
    BY <1>8, Alone DEF QueryAcquiredFails
  <2>2. pc' = [pc EXCEPT ![t] = "available"] /\ drives' = <<>> /\ cur' = cur /\ Len(drives') = 0
    BY <1>8, EmptySeq DEF QueryAcquiredFails
  <2>3. \A k \in 1 .. Len(drives') : drives'[k] \in Ifaces
    BY <2>2
  <2>4. \A s \in Threads : pc'[s] \notin Busy \cup {"prune"}
    BY <2>1, <2>2
  <2> QED
    BY <2>3, <2>4
<1>9. ASSUME NEW t \in Threads, PruneKeep(t) PROVE ListInv'
  <2>1. \A s \in Threads \ {t} : pc[s] \notin Critical
    BY <1>9, Alone DEF PruneKeep
  <2>2. scan[t] \in 1 .. Len(drives)
    BY <1>9 DEF PruneKeep
  <2>3. /\ Len(drives') = Len(drives)
        /\ \A k \in 1 .. Len(drives) : k # scan[t] => drives'[k] = drives[k]
    <3>1. drives' = [drives EXCEPT ![scan[t]] = Moved]
      BY <1>9 DEF PruneKeep
    <3> QED
      BY <2>2, <3>1, ExceptSeq
  <2>4. pc' = pc /\ scan' = [scan EXCEPT ![t] = scan[t] + 1] /\ cur' = cur /\ pc[t] = "prune"
    BY <1>9 DEF PruneKeep
  <2>5. Len(drives) \in Nat
    BY LenProperties
  <2>6. /\ scan'[t] \in 1 .. Len(drives') + 1
        /\ \A k \in scan'[t] .. Len(drives') : drives'[k] \in Ifaces
    <3>1. scan'[t] = scan[t] + 1
      BY <2>4
    <3>2. \A k \in scan[t] .. Len(drives) : drives[k] \in Ifaces
      BY <2>4
    <3>3. ASSUME NEW k \in scan[t] + 1 .. Len(drives) PROVE drives'[k] \in Ifaces
      <4>1. k \in scan[t] .. Len(drives) /\ k \in 1 .. Len(drives) /\ k # scan[t]
        BY <2>2, <2>5
      <4> QED
        BY <2>3, <3>2, <4>1
    <3>4. scan[t] + 1 \in 1 .. Len(drives) + 1
      BY <2>2, <2>5
    <3> QED
      BY <2>3, <3>1, <3>3, <3>4
  <2>7. \A s \in Threads : pc'[s] \notin Busy /\ (pc'[s] = "prune" => s = t)
    BY <2>1, <2>4
  <2>8. pc'[t] = "prune"
    BY <2>4
  <2> QED
    BY <2>6, <2>7, <2>8
<1>10. ASSUME NEW t \in Threads, PruneDrop(t) PROVE ListInv'
  BY <1>10, Alone DEF PruneDrop
<1>11. ASSUME NEW t \in Threads, PruneDone(t) PROVE ListInv'
  <2>1. \A s \in Threads \ {t} : pc[s] \notin Critical
    BY <1>11, Alone DEF PruneDone, Kept
  <2>2. pc' = [pc EXCEPT ![t] = "available"] /\ drives' = valid[t] /\ cur' = cur
    BY <1>11 DEF PruneDone, Kept
  <2>3. \A k \in 1 .. Len(valid[t]) : valid[t][k] \in Ifaces
    BY ElementOfSeq
  <2> QED
    BY <2>1, <2>2, <2>3
<1>12. ASSUME NEW t \in Threads, QueryAvailable(t) PROVE ListInv'
  BY <1>12 DEF QueryAvailable
<1>13. ASSUME NEW t \in Threads, QueryAvailableFails(t) PROVE ListInv'
  BY <1>13 DEF QueryAvailableFails, Unlock, Leave
<1>14. ASSUME NEW t \in Threads, Return(t) PROVE ListInv'
  BY <1>14 DEF Return, Unlock, Leave
<1>15. ASSUME NEW t \in Threads, NEW i \in Ifaces, AcquireUsbIf(t, i) PROVE ListInv'
  BY <1>15 DEF AcquireUsbIf
<1>16. ASSUME NEW t \in Threads, NEW i \in Ifaces, AcquireUsbIfFails(t, i) PROVE ListInv'
  BY <1>16 DEF AcquireUsbIfFails
<1>17. ASSUME NEW t \in Threads, Setup(t) PROVE ListInv'
  BY <1>17 DEF Setup
<1>18. ASSUME NEW t \in Threads, SetupFails(t) PROVE ListInv'
  BY <1>18 DEF SetupFails
<1>19. ASSUME NEW t \in Threads, PushDrive(t) PROVE ListInv'
  <2>1. \A s \in Threads \ {t} : pc[s] \notin Critical
    BY <1>19, Alone DEF PushDrive
  <2>2. \A k \in 1 .. Len(drives) : drives[k] \in Ifaces
    BY <1>19, NoneMoved DEF PushDrive
  <2>3. /\ pc' = [pc EXCEPT ![t] = "mount"] /\ cur' = cur
        /\ drives' = Append(drives, cur[t]) /\ cur[t] \in Ifaces
    BY <1>19 DEF PushDrive
  <2>4. /\ drives' # <<>>
        /\ Len(drives') = Len(drives) + 1
        /\ \A k \in 1 .. Len(drives) : drives'[k] = drives[k]
        /\ drives'[Len(drives) + 1] = cur[t]
    BY <2>3, PushList
  <2>5. \A k \in 1 .. Len(drives') : drives'[k] \in Ifaces
    BY <2>2, <2>3, <2>4, LenProperties
  <2> QED
    BY <2>1, <2>3, <2>4, <2>5
<1>20. ASSUME NEW t \in Threads, LunsExhausted(t) PROVE ListInv'
  BY <1>20 DEF LunsExhausted
<1>21. ASSUME NEW t \in Threads, MountNoScsi(t) PROVE ListInv'
  BY <1>21, PopDriveList DEF MountNoScsi
<1>22. ASSUME NEW t \in Threads, MountRegister(t) PROVE ListInv'
  BY <1>22 DEF MountRegister
<1>23. ASSUME NEW t \in Threads, MountNoIndex(t) PROVE ListInv'
  BY <1>23 DEF MountNoIndex
<1>24. ASSUME NEW t \in Threads, MountSucceeds(t) PROVE ListInv'
  BY <1>24 DEF MountSucceeds
<1>25. ASSUME NEW t \in Threads, MountFails(t) PROVE ListInv'
  BY <1>25, PopDriveList DEF MountFails
<1>26. ASSUME NEW t \in Threads, CloseUsbIf(t) PROVE ListInv'
  BY <1>26 DEF CloseUsbIf
<1>27. CASE UNCHANGED vars
  BY <1>27 DEF vars
<1> QED
  BY <1>1, <1>2, <1>3, <1>4, <1>5, <1>6, <1>7, <1>8, <1>9, <1>10, <1>11, <1>12, <1>13, <1>14,
     <1>15, <1>16, <1>17, <1>18, <1>19, <1>20, <1>21, <1>22, <1>23, <1>24, <1>25, <1>26, <1>27
     DEF Next, Environment, Wake, UpdateDrives, Prune, Acquire, Mount

LEMMA InitInv == Init => IInv
<1> SUFFICES ASSUME Init PROVE IInv
  OBVIOUS
<1> USE DEF Init
<1>1. TypeOK
  <2>1. drive \in [Ifaces -> DriveRecords]
    BY DriveMaxAssumption DEF NoDrive, DriveRecords, Invalid
  <2> QED
    BY <2>1, EmptySeq DEF TypeOK, UsbStates, Labels
<1>2. \A t \in Threads : pc[t] = "idle"
  OBVIOUS
<1>3. MutexInv /\ SessionInv
  BY <1>2 DEF MutexInv, SessionInv, Critical, Busy
<1>4. ListInv
  BY <1>2, EmptySeq DEF ListInv, Busy
<1>5. FreeIndexUnregistered /\ MountedOwnsIndex
  BY DEF FreeIndexUnregistered, MountedOwnsIndex, NoDrive
<1>6. RegistryInv
  BY <1>2, PointerAssumption DEF RegistryInv, Busy
<1> QED
  BY <1>1, <1>3, <1>4, <1>5, <1>6 DEF IInv

THEOREM Invariance == Spec => []IInv
<1>1. IInv /\ [Next]_vars => IInv'
  BY TypeStep, MutexStep, ListStep, FreeStep, OwnStep, RegistryStep, SessionStep DEF IInv
<1> QED
  BY InitInv, <1>1, PTL DEF Spec

\* Every variable keeps its shape, whatever the drives do.
THEOREM TypeCorrect == Spec => []TypeOK
<1>1. IInv => TypeOK
  BY DEF IInv
<1> QED
  BY Invariance, <1>1, PTL

\* An index of the array is given out again only when no pointer is left in
\* FatFs[]: f_mount never writes through the FATFS of a destroyed Drive.
THEOREM FreeIndexSafe == Spec => []FreeIndexUnregistered
<1>1. IInv => FreeIndexUnregistered
  BY DEF IInv
<1> QED
  BY Invariance, <1>1, PTL

\* A mounted drive keeps its index and its registry entry until its Unmount,
\* even if every call to usb:hs fails and drives come and go.
THEOREM IndexOwnership == Spec => []MountedOwnsIndex
<1>1. IInv => MountedOwnsIndex
  BY DEF IInv
<1> QED
  BY Invariance, <1>1, PTL

\* No thread can reach a moved-from entry of the drive list.
THEOREM ListSafe == Spec => []ListWhole
<1>1. IInv => ListWhole
  <2> SUFFICES ASSUME IInv, NEW k \in 1 .. Len(drives), drives[k] = Moved
               PROVE  \E t \in Threads : lock = t /\ pc[t] = "prune"
    BY DEF ListWhole
  <2>1. drives[k] \notin Ifaces
    BY PointerAssumption
  <2>2. PICK t \in Threads : pc[t] = "prune"
    BY <2>1 DEF IInv, ListInv
  <2> QED
    BY <2>2 DEF IInv, MutexInv, Critical, Labels
<1> QED
  BY Invariance, <1>1, PTL

-----------------------------------------------------------------------------
(* Sessions.  A drive that talks has its session; while an interface is set  *)
(* up, between two of its units or given up, no Drive talks through it.      *)

LiveInv ==
    /\ LiveSessionsOpen
    /\ \A t \in Threads : pc[t] \in {"setup", "lun", "close"} => drive[cur[t]].scsi = "none"

\* pop_back destroys the Drive that was talking.
LEMMA PopDriveLive ==
    ASSUME IInv, LiveInv, NEW t \in Threads, pc[t] \in {"mount", "probe"}, PopDrive(t)
    PROVE  LiveInv'
<1> USE DEF LiveInv, LiveSessionsOpen, Busy, Critical, Labels
<1>. /\ pc \in [Threads -> Labels] /\ drive \in [Ifaces -> DriveRecords]
  BY DEF IInv, TypeOK
<1>1. Last = cur[t] /\ Last \in Ifaces
  BY Mounting
<1>2. \A s \in Threads \ {t} : pc[s] \notin Critical
  BY Alone
<1>3. /\ drive' = [drive EXCEPT ![Last] = NoDrive] /\ pc' = [pc EXCEPT ![t] = "lun"]
      /\ cur' = cur /\ usb' = usb
  BY DEF PopDrive, Goto, usbVars
<1>4. \A i \in Ifaces : drive'[i].scsi # "none" => drive[i].scsi # "none"
  BY <1>1, <1>3 DEF NoDrive
<1>5. drive'[cur'[t]].scsi = "none"
  BY <1>1, <1>3 DEF NoDrive
<1> QED
  BY <1>2, <1>3, <1>4, <1>5

\* A session is closed once its Drive is disposed of, and by nobody else.
LEMMA LiveStep == IInv /\ LiveInv /\ [Next]_vars => LiveInv'
<1> SUFFICES ASSUME IInv, LiveInv, [Next]_vars PROVE LiveInv'
  OBVIOUS
<1> USE DEF LiveInv, LiveSessionsOpen, Busy, Critical, Labels, usbVars, table, pruneVars, mountVars, locals, Goto
<1>. /\ usb \in [Ifaces -> UsbStates] /\ pc \in [Threads -> Labels]
     /\ drive \in [Ifaces -> DriveRecords] /\ cur \in [Threads -> Ifaces \cup {Null}]
     /\ \A s \in Threads : pc[s] \in Busy => cur[s] \in Ifaces
  BY DEF IInv, TypeOK, ListInv
<1>1. ASSUME NEW i \in Ifaces, Plug(i) PROVE LiveInv'
  BY <1>1 DEF Plug
<1>2. ASSUME NEW i \in Ifaces, Unplug(i) PROVE LiveInv'
  BY <1>2 DEF Unplug
<1>3. ASSUME NEW t \in Threads, WakeStateChange(t) PROVE LiveInv'
  BY <1>3 DEF WakeStateChange
<1>4. ASSUME NEW t \in Threads, WakeAvailable(t) PROVE LiveInv'
  BY <1>4 DEF WakeAvailable
<1>5. ASSUME NEW t \in Threads, DoUpdateDrives(t) PROVE LiveInv'
  BY <1>5 DEF DoUpdateDrives
<1>6. ASSUME NEW t \in Threads, Lock(t) PROVE LiveInv'
  BY <1>6 DEF Lock
<1>7. ASSUME NEW t \in Threads, QueryAcquired(t) PROVE LiveInv'
  BY <1>7 DEF QueryAcquired
<1>8. ASSUME NEW t \in Threads, QueryAcquiredFails(t) PROVE LiveInv'
 <2>1. \A s \in Threads : pc[s] \notin Busy
    BY <1>8, Alone DEF QueryAcquiredFails
  <2>2. pc' = [pc EXCEPT ![t] = "available"] /\ usb' = usb /\ cur' = cur
    BY <1>8 DEF QueryAcquiredFails
  <2>3. \A i \in Ifaces : drive'[i].scsi # "none" => drive[i].scsi # "none"
    BY <1>8 DEF QueryAcquiredFails, NoDrive
  <2> QED
    BY <2>1, <2>2, <2>3
<1>9. ASSUME NEW t \in Threads, PruneKeep(t) PROVE LiveInv'
  BY <1>9 DEF PruneKeep
<1>10. ASSUME NEW t \in Threads, PruneDrop(t) PROVE LiveInv'
 <2> DEFINE i == drives[scan[t]]
  <2>1. i \in Ifaces
    BY <1>10 DEF PruneDrop, IInv, ListInv
  <2>2. \A s \in Threads : pc[s] \notin Busy
    BY <1>10, Alone DEF PruneDrop
  <2>3. drive' = [drive EXCEPT ![i] = Disposed(i)] /\ usb' = [usb EXCEPT ![i] = Closed(usb[i])] /\ pc' = pc
    BY <1>10 DEF PruneDrop
  <2>4. Disposed(i).scsi = "none"
    BY <2>1 DEF Disposed, DriveRecords
  <2> HIDE DEF i
  <2> QED
    BY <2>1, <2>2, <2>3, <2>4
<1>11. ASSUME NEW t \in Threads, PruneDone(t) PROVE LiveInv'
 <2>1. \A s \in Threads : pc[s] \notin Busy
    BY <1>11, Alone DEF PruneDone
  <2>2. pc' = [pc EXCEPT ![t] = "available"] /\ usb' = usb /\ cur' = cur
    BY <1>11 DEF PruneDone
  <2>3. \A i \in Ifaces : drive'[i].scsi # "none" => drive[i].scsi # "none"
    BY <1>11 DEF PruneDone, NoDrive
  <2> QED
    BY <2>1, <2>2, <2>3
<1>12. ASSUME NEW t \in Threads, QueryAvailable(t) PROVE LiveInv'
  BY <1>12 DEF QueryAvailable
<1>13. ASSUME NEW t \in Threads, QueryAvailableFails(t) PROVE LiveInv'
  BY <1>13 DEF QueryAvailableFails, Unlock, Leave
<1>14. ASSUME NEW t \in Threads, Return(t) PROVE LiveInv'
  BY <1>14 DEF Return, Unlock, Leave
<1>15. ASSUME NEW t \in Threads, NEW i \in Ifaces, AcquireUsbIf(t, i) PROVE LiveInv'
  BY <1>15, Alone DEF AcquireUsbIf
<1>16. ASSUME NEW t \in Threads, NEW i \in Ifaces, AcquireUsbIfFails(t, i) PROVE LiveInv'
  BY <1>16 DEF AcquireUsbIfFails
<1>17. ASSUME NEW t \in Threads, Setup(t) PROVE LiveInv'
  BY <1>17 DEF Setup
<1>18. ASSUME NEW t \in Threads, SetupFails(t) PROVE LiveInv'
  BY <1>18 DEF SetupFails
<1>19. ASSUME NEW t \in Threads, PushDrive(t) PROVE LiveInv'
 <2>1. cur[t] \in Ifaces /\ usb[cur[t]] \in {"acquired", "orphan"}
    BY <1>19 DEF PushDrive, IInv, SessionInv
  <2>2. \A s \in Threads \ {t} : pc[s] \notin Critical
    BY <1>19, Alone DEF PushDrive
  <2>3. /\ \A i \in Ifaces \ {cur[t]} : drive'[i] = drive[i]
        /\ pc' = [pc EXCEPT ![t] = "mount"] /\ usb' = usb /\ cur' = cur
    BY <1>19 DEF PushDrive
  <2> QED
    BY <2>1, <2>2, <2>3
<1>20. ASSUME NEW t \in Threads, LunsExhausted(t) PROVE LiveInv'
  BY <1>20 DEF LunsExhausted
<1>21. ASSUME NEW t \in Threads, MountNoScsi(t) PROVE LiveInv'
 BY <1>21, PopDriveLive DEF MountNoScsi
<1>22. ASSUME NEW t \in Threads, MountRegister(t) PROVE LiveInv'
 <2>1. Last \in Ifaces
    BY <1>22, Mounting DEF MountRegister
  <2>2. PICK v \in Volumes : drive' = [drive EXCEPT ![Last] = Placed(Last, v)]
    BY <1>22 DEF MountRegister
  <2>3. \A i \in Ifaces : drive'[i].scsi = drive[i].scsi
    BY <2>1, <2>2 DEF Placed, DriveRecords
  <2> QED
    BY <1>22, <2>3 DEF MountRegister
<1>23. ASSUME NEW t \in Threads, MountNoIndex(t) PROVE LiveInv'
  BY <1>23 DEF MountNoIndex
<1>24. ASSUME NEW t \in Threads, MountSucceeds(t) PROVE LiveInv'
 <2>1. \A i \in Ifaces : drive'[i].scsi = drive[i].scsi
    BY <1>24, Mounting DEF MountSucceeds, DriveRecords
  <2> QED
    BY <1>24, <2>1 DEF MountSucceeds
<1>25. ASSUME NEW t \in Threads, MountFails(t) PROVE LiveInv'
 BY <1>25, PopDriveLive DEF MountFails
<1>26. ASSUME NEW t \in Threads, CloseUsbIf(t) PROVE LiveInv'
  BY <1>26, Alone DEF CloseUsbIf
<1>27. CASE UNCHANGED vars
  BY <1>27 DEF vars
<1> QED
  BY <1>1, <1>2, <1>3, <1>4, <1>5, <1>6, <1>7, <1>8, <1>9, <1>10, <1>11, <1>12, <1>13, <1>14,
     <1>15, <1>16, <1>17, <1>18, <1>19, <1>20, <1>21, <1>22, <1>23, <1>24, <1>25, <1>26, <1>27
     DEF Next, Environment, Wake, UpdateDrives, Prune, Acquire, Mount

\* A Drive talks through open sessions only, through every failure on the way to a
\* mount and every drop.
THEOREM SessionsOpen == Spec => []LiveSessionsOpen
<1>1. Init => LiveInv
  BY DEF Init, LiveInv, LiveSessionsOpen, NoDrive
<1>2. LiveInv => LiveSessionsOpen
  BY DEF LiveInv
<1>3. IInv /\ LiveInv /\ [Next]_vars => LiveInv'
  BY LiveStep
<1> QED
  BY Invariance, <1>1, <1>2, <1>3, PTL DEF Spec

-----------------------------------------------------------------------------
(* Routing.  Outside the pruning a drive's index, if it has one, is the slot  *)
(* of its own FATFS, and a drive with a registered FATFS is in the list; the  *)
(* pruning takes its drives out of the list one by one.                      *)

Settled ==
    /\ \A i \in Ifaces : drive[i].idx \in Volumes => FatFs[drive[i].idx] = i
    /\ \A v \in Volumes : FatFs[v] \in Ifaces => \E k \in 1 .. Len(drives) : drives[k] = FatFs[v]

Pruning(t) ==
    /\ \A i \in Ifaces : drive[i].idx \in Volumes =>
         FatFs[drive[i].idx] = i \/ \E k \in 1 .. scan[t] - 1 : drives[k] = i
    /\ \A v \in Volumes : FatFs[v] \in Ifaces =>
         \/ \E k \in scan[t] .. Len(drives) : drives[k] = FatFs[v]
         \/ \E k \in 1 .. Len(valid[t]) : valid[t][k] = FatFs[v]

RouteInv ==
    /\ (\A t \in Threads : pc[t] # "prune") => Settled
    /\ \A t \in Threads : pc[t] = "prune" => Pruning(t)

\* What a fresh Drive has for an index is none.
LEMMA NoIndex == NoDrive.idx \notin Volumes
  BY DriveMaxAssumption DEF NoDrive, Invalid, Volumes

\* RouteInv where nobody prunes.
LEMMA RouteOutside ==
    ASSUME IInv, RouteInv, NEW t \in Threads, pc[t] \in Critical, pc[t] # "prune"
    PROVE  /\ \A s \in Threads : pc[s] # "prune"
           /\ \A i \in Ifaces : drive[i].idx \in Volumes => FatFs[drive[i].idx] = i
           /\ \A v \in Volumes : FatFs[v] \in Ifaces => \E k \in 1 .. Len(drives) : drives[k] = FatFs[v]
<1>1. \A s \in Threads : pc[s] # "prune"
  BY Alone DEF Critical, Labels
<1> QED
  BY <1>1 DEF RouteInv, Settled

\* A step that leaves drives, registry and list alone and starts or ends no pruning.
LEMMA RouteSame ==
    ASSUME RouteInv, UNCHANGED <<drive, drives, FatFs, scan, valid>>,
           \A t \in Threads : pc'[t] = "prune" <=> pc[t] = "prune"
    PROVE  RouteInv'
<1>1. Settled' = Settled
  BY DEF Settled
<1>2. \A t \in Threads : Pruning(t)' = Pruning(t)
  BY DEF Pruning
<1> QED
  BY <1>1, <1>2 DEF RouteInv

\* A step after which nobody prunes.
LEMMA RouteSettled ==
    ASSUME \A t \in Threads : pc'[t] # "prune",
           \A i \in Ifaces : drive'[i].idx \in Volumes => FatFs'[drive'[i].idx] = i,
           \A v \in Volumes : FatFs'[v] \in Ifaces => \E k \in 1 .. Len(drives') : drives'[k] = FatFs'[v]
    PROVE  RouteInv'
<1>1. Settled'
  BY DEF Settled
<1> QED
  BY <1>1 DEF RouteInv

\* A step after which thread t prunes.
LEMMA RoutePruning ==
    ASSUME NEW t \in Threads, pc'[t] = "prune", \A s \in Threads : pc'[s] = "prune" => s = t,
           \A i \in Ifaces : drive'[i].idx \in Volumes =>
             FatFs'[drive'[i].idx] = i \/ \E k \in 1 .. scan'[t] - 1 : drives'[k] = i,
           \A v \in Volumes : FatFs'[v] \in Ifaces =>
             \/ \E k \in scan'[t] .. Len(drives') : drives'[k] = FatFs'[v]
             \/ \E k \in 1 .. Len(valid'[t]) : valid'[t][k] = FatFs'[v]
    PROVE  RouteInv'
<1>1. Pruning(t)'
  BY DEF Pruning
<1> QED
  BY <1>1 DEF RouteInv

\* pop_back takes the drive, its index and its registered FATFS away together.
LEMMA PopDriveRoute ==
    ASSUME IInv, RouteInv, NEW t \in Threads, pc[t] \in {"mount", "probe"}, PopDrive(t)
    PROVE  RouteInv'
<1> USE DEF Critical, Labels
<1>. /\ pc \in [Threads -> Labels] /\ drive \in [Ifaces -> DriveRecords]
     /\ drives \in Seq(Ifaces \cup {Moved})
  BY DEF IInv, TypeOK
<1>1. Last = cur[t] /\ Last \in Ifaces /\ drives # <<>>
  BY Mounting
<1>2. /\ \A s \in Threads : pc[s] # "prune"
      /\ \A i \in Ifaces : drive[i].idx \in Volumes => FatFs[drive[i].idx] = i
      /\ \A v \in Volumes : FatFs[v] \in Ifaces => \E k \in 1 .. Len(drives) : drives[k] = FatFs[v]
  BY RouteOutside
<1>3. /\ drive' = [drive EXCEPT ![Last] = NoDrive] /\ FatFs' = Freed({Last})
      /\ pc' = [pc EXCEPT ![t] = "lun"] /\ drives' = SubSeq(drives, 1, Len(drives) - 1)
  BY DEF PopDrive, Goto
<1>4. \A s \in Threads : pc'[s] # "prune"
  BY <1>2, <1>3
<1>5. ASSUME NEW i \in Ifaces, drive'[i].idx \in Volumes PROVE FatFs'[drive'[i].idx] = i
  <2>1. i # Last /\ drive'[i] = drive[i]
    BY <1>1, <1>3, <1>5, NoIndex
  <2> QED
    BY <1>1, <1>2, <1>3, <1>5, <2>1, FreedSlots, SMTT(30)
<1>6. ASSUME NEW v \in Volumes, FatFs'[v] \in Ifaces
      PROVE  \E k \in 1 .. Len(drives') : drives'[k] = FatFs'[v]
  <2>1. FatFs'[v] = FatFs[v] /\ FatFs[v] # Last
    BY <1>1, <1>3, <1>6, FreedSlots
  <2>2. PICK k \in 1 .. Len(drives) : drives[k] = FatFs[v]
    BY <1>2, <1>6, <2>1
  <2>3. Len(drives) \in Nat /\ k # Len(drives)
    BY <2>1, <2>2, LenProperties DEF Last
  <2>4. Len(drives') = Len(drives) - 1 /\ drives'[k] = drives[k] /\ k \in 1 .. Len(drives')
    BY <1>3, <2>2, <2>3, SubSeqProperties
  <2> QED
    BY <2>1, <2>2, <2>4
<1> QED
  BY <1>4, <1>5, <1>6, RouteSettled

\* Who a sector of a volume number is read from.
LEMMA RouteStep == IInv /\ RouteInv /\ [Next]_vars => RouteInv'
<1> SUFFICES ASSUME IInv, RouteInv, [Next]_vars PROVE RouteInv'
  OBVIOUS
<1> USE DEF Critical, Labels, usbVars, table, pruneVars, mountVars, locals, Goto
<1>. /\ pc \in [Threads -> Labels] /\ drive \in [Ifaces -> DriveRecords]
     /\ scan \in [Threads -> Nat] /\ valid \in [Threads -> Seq(Ifaces)]
     /\ drives \in Seq(Ifaces \cup {Moved}) /\ Len(drives) \in Nat
     /\ FatFs \in [Volumes -> Ifaces \cup {Null, Dangling}]
  BY LenProperties DEF IInv, TypeOK
<1>1. ASSUME NEW i \in Ifaces, Plug(i) PROVE RouteInv'
  BY <1>1, RouteSame DEF Plug
<1>2. ASSUME NEW i \in Ifaces, Unplug(i) PROVE RouteInv'
  BY <1>2, RouteSame DEF Unplug
<1>3. ASSUME NEW t \in Threads, WakeStateChange(t) PROVE RouteInv'
  BY <1>3, RouteSame DEF WakeStateChange
<1>4. ASSUME NEW t \in Threads, WakeAvailable(t) PROVE RouteInv'
  BY <1>4, RouteSame DEF WakeAvailable
<1>5. ASSUME NEW t \in Threads, DoUpdateDrives(t) PROVE RouteInv'
  BY <1>5, RouteSame DEF DoUpdateDrives
<1>6. ASSUME NEW t \in Threads, Lock(t) PROVE RouteInv'
  BY <1>6, RouteSame DEF Lock
<1>7. ASSUME NEW t \in Threads, QueryAcquired(t) PROVE RouteInv'
  <2>1. \A s \in Threads \ {t} : pc[s] \notin Critical
    BY <1>7, Alone DEF QueryAcquired
  <2>2. /\ \A i \in Ifaces : drive[i].idx \in Volumes => FatFs[drive[i].idx] = i
        /\ \A v \in Volumes : FatFs[v] \in Ifaces => \E k \in 1 .. Len(drives) : drives[k] = FatFs[v]
    BY <1>7, RouteOutside DEF QueryAcquired
  <2>3. /\ pc' = [pc EXCEPT ![t] = "prune"] /\ scan' = [scan EXCEPT ![t] = 1]
        /\ drives' = drives /\ FatFs' = FatFs /\ drive' = drive
    BY <1>7 DEF QueryAcquired
  <2>4. pc'[t] = "prune" /\ scan'[t] = 1 /\ \A s \in Threads : pc'[s] = "prune" => s = t
    BY <2>1, <2>3
  <2> QED
    BY <2>2, <2>3, <2>4, RoutePruning
<1>8. ASSUME NEW t \in Threads, QueryAcquiredFails(t) PROVE RouteInv'
  <2> DEFINE S == {drives[k] : k \in 1 .. Len(drives)}
  <2>1. S \subseteq Ifaces
    BY <1>8, NoneMoved DEF QueryAcquiredFails
  <2>2. /\ \A s \in Threads : pc[s] # "prune"
        /\ \A i \in Ifaces : drive[i].idx \in Volumes => FatFs[drive[i].idx] = i
        /\ \A v \in Volumes : FatFs[v] \in Ifaces => FatFs[v] \in S
    BY <1>8, RouteOutside DEF QueryAcquiredFails
  <2>3. /\ drive' = [i \in Ifaces |-> IF i \in S THEN NoDrive ELSE drive[i]] /\ FatFs' = Freed(S)
        /\ pc' = [pc EXCEPT ![t] = "available"]
    BY <1>8 DEF QueryAcquiredFails
  <2> HIDE DEF S
  <2>4. \A v \in Volumes : FatFs'[v] \notin Ifaces
    BY <2>1, <2>2, <2>3, FreedSlots
  <2>5. \A i \in Ifaces : drive'[i].idx \in Volumes => FatFs'[drive'[i].idx] = i
    BY <2>1, <2>2, <2>3, FreedSlots, NoIndex
  <2>6. \A s \in Threads : pc'[s] # "prune"
    BY <2>2, <2>3
  <2> QED
    BY <2>4, <2>5, <2>6, RouteSettled
<1>9. ASSUME NEW t \in Threads, PruneKeep(t) PROVE RouteInv'
  <2>1. \A s \in Threads \ {t} : pc[s] \notin Critical
    BY <1>9, Alone DEF PruneKeep
  <2>2. pc[t] = "prune" /\ scan[t] \in 1 .. Len(drives) /\ drives[scan[t]] \in Ifaces
    BY <1>9 DEF PruneKeep, IInv, ListInv
  <2>3. /\ pc' = pc /\ drive' = drive /\ FatFs' = FatFs
        /\ scan' = [scan EXCEPT ![t] = scan[t] + 1] /\ drives' = [drives EXCEPT ![scan[t]] = Moved]
        /\ valid' = [valid EXCEPT ![t] = Append(valid[t], drives[scan[t]])]
    BY <1>9 DEF PruneKeep, PushValid
  <2>4. /\ Len(drives') = Len(drives) /\ scan'[t] = scan[t] + 1
        /\ \A k \in 1 .. Len(drives) : k # scan[t] => drives'[k] = drives[k]
    BY <2>2, <2>3, ExceptSeq
  <2>5. /\ valid[t] \in Seq(Ifaces) /\ valid'[t] = Append(valid[t], drives[scan[t]])
        /\ Len(valid'[t]) = Len(valid[t]) + 1 /\ Len(valid[t]) \in Nat
        /\ \A k \in 1 .. Len(valid[t]) : valid'[t][k] = valid[t][k]
        /\ valid'[t][Len(valid[t]) + 1] = drives[scan[t]]
    BY <2>2, <2>3, AppendProperties, LenProperties
  <2>6. ASSUME NEW i \in Ifaces, drive'[i].idx \in Volumes, FatFs'[drive'[i].idx] # i
        PROVE  \E k \in 1 .. scan'[t] - 1 : drives'[k] = i
    <3>1. PICK k \in 1 .. scan[t] - 1 : drives[k] = i
      BY <2>2, <2>3, <2>6 DEF RouteInv, Pruning
    <3>2. k \in 1 .. Len(drives) /\ k # scan[t] /\ k \in 1 .. scan'[t] - 1
      BY <2>2, <2>4, <3>1
    <3> QED
      BY <2>4, <3>1, <3>2
  <2>7. ASSUME NEW v \in Volumes, FatFs'[v] \in Ifaces
        PROVE  \/ \E k \in scan'[t] .. Len(drives') : drives'[k] = FatFs'[v]
               \/ \E k \in 1 .. Len(valid'[t]) : valid'[t][k] = FatFs'[v]
    <3>1. CASE \E k \in 1 .. Len(valid[t]) : valid[t][k] = FatFs[v]
      BY <2>3, <2>5, <3>1
    <3>2. CASE \E k \in scan[t] .. Len(drives) : drives[k] = FatFs[v]
      <4>1. PICK k \in scan[t] .. Len(drives) : drives[k] = FatFs[v]
        BY <3>2
      <4>2. CASE k = scan[t]
        BY <2>3, <2>5, <4>1, <4>2
      <4>3. CASE k # scan[t]
        BY <2>2, <2>3, <2>4, <4>1, <4>3
      <4> QED
        BY <4>2, <4>3
    <3> QED
      BY <2>2, <2>3, <2>7, <3>1, <3>2 DEF RouteInv, Pruning
  <2>8. \A s \in Threads : pc'[s] = "prune" => s = t
    BY <2>1, <2>3
  <2>9. pc'[t] = "prune"
    BY <2>2, <2>3
  <2> QED
    BY <2>6, <2>7, <2>8, <2>9, RoutePruning
<1>10. ASSUME NEW t \in Threads, PruneDrop(t) PROVE RouteInv'
  <2> DEFINE i == drives[scan[t]]
  <2>1. \A s \in Threads \ {t} : pc[s] \notin Critical
    BY <1>10, Alone DEF PruneDrop
  <2>2. pc[t] = "prune" /\ scan[t] \in 1 .. Len(drives) /\ i \in Ifaces
    BY <1>10 DEF PruneDrop, IInv, ListInv
  <2>3. /\ pc' = pc /\ drives' = drives /\ valid' = valid
        /\ scan' = [scan EXCEPT ![t] = scan[t] + 1] /\ drive' = [drive EXCEPT ![i] = Disposed(i)]
        /\ IF drive[i].mounted THEN FatFs' = Unregistered(i) ELSE FatFs' = FatFs
    BY <1>10 DEF PruneDrop
  <2>4. ASSUME NEW v \in Volumes, FatFs'[v] \in Ifaces PROVE FatFs'[v] = FatFs[v] /\ FatFs[v] # i
    <3>1. \A s \in Threads : pc[s] # "probe"
      BY <2>1, <2>2
    <3>2. FatFs[v] = i => drive[i].mounted /\ drive[i].idx = v
      BY <2>2, <3>1 DEF IInv, RegistryInv
    <3> QED
      BY <2>3, <2>4, <3>2, PointerAssumption DEF Unregistered
  <2>5. \A v \in Volumes : FatFs[v] \in Ifaces /\ FatFs[v] # i => FatFs'[v] = FatFs[v]
    BY <2>2, <2>3 DEF Unregistered, IInv, MountedOwnsIndex
  <2> HIDE DEF i
  <2>6. ASSUME NEW j \in Ifaces, drive'[j].idx \in Volumes, FatFs'[drive'[j].idx] # j
        PROVE  \E k \in 1 .. scan'[t] - 1 : drives'[k] = j
    <3>1. CASE j = i
      BY <2>2, <2>3, <3>1 DEF i
    <3>2. CASE j # i
      <4>1. drive'[j] = drive[j]
        BY <2>3, <3>2
      <4>2. FatFs[drive[j].idx] # j
        BY <2>5, <2>6, <3>2, <4>1
      <4>3. PICK k \in 1 .. scan[t] - 1 : drives[k] = j
        BY <2>2, <2>6, <4>1, <4>2 DEF RouteInv, Pruning
      <4> QED
        BY <2>2, <2>3, <4>3
    <3> QED
      BY <3>1, <3>2
  <2>7. ASSUME NEW v \in Volumes, FatFs'[v] \in Ifaces
        PROVE  \/ \E k \in scan'[t] .. Len(drives') : drives'[k] = FatFs'[v]
               \/ \E k \in 1 .. Len(valid'[t]) : valid'[t][k] = FatFs'[v]
    <3>1. FatFs'[v] = FatFs[v] /\ FatFs[v] # i
      BY <2>4, <2>7
    <3>2. CASE \E k \in scan[t] .. Len(drives) : drives[k] = FatFs[v]
      BY <2>2, <2>3, <3>1, <3>2 DEF i
    <3> QED
      BY <2>2, <2>3, <2>7, <3>1, <3>2 DEF RouteInv, Pruning
  <2>8. pc'[t] = "prune" /\ \A s \in Threads : pc'[s] = "prune" => s = t
    BY <2>1, <2>2, <2>3
  <2> QED
    BY <2>6, <2>7, <2>8, RoutePruning
<1>11. ASSUME NEW t \in Threads, PruneDone(t) PROVE RouteInv'
  <2> DEFINE S == {drives[k] : k \in 1 .. Len(drives)} \ {Moved}
  <2>1. S \subseteq Ifaces
    BY ElementOfSeq
  <2>2. \A s \in Threads \ {t} : pc[s] \notin Critical
    BY <1>11, Alone DEF PruneDone
  <2>3. /\ drive' = [i \in Ifaces |-> IF i \in S THEN NoDrive ELSE drive[i]] /\ FatFs' = Freed(S)
        /\ pc' = [pc EXCEPT ![t] = "available"] /\ drives' = valid[t]
        /\ pc[t] = "prune" /\ scan[t] = Len(drives) + 1
    BY <1>11 DEF PruneDone, Kept
  <2>4. \A i \in Ifaces : (\E k \in 1 .. scan[t] - 1 : drives[k] = i) => i \in S
    BY <2>3, PointerAssumption
  <2> HIDE DEF S
  <2>5. ASSUME NEW i \in Ifaces, drive'[i].idx \in Volumes PROVE FatFs'[drive'[i].idx] = i
    <3>1. i \notin S /\ drive'[i] = drive[i]
      BY <2>3, <2>5, NoIndex
    <3>2. FatFs[drive[i].idx] = i
      BY <2>3, <2>4, <2>5, <3>1 DEF RouteInv, Pruning
    <3> QED
      BY <2>1, <2>3, <2>5, <3>1, <3>2, FreedSlots
  <2>6. ASSUME NEW v \in Volumes, FatFs'[v] \in Ifaces
        PROVE  \E k \in 1 .. Len(drives') : drives'[k] = FatFs'[v]
    <3>1. FatFs'[v] = FatFs[v]
      <4>1. Freed(S)[v] \in Ifaces
        BY <2>3, <2>6
      <4>2. PICK j \in Ifaces : Freed(S)[v] = j
        BY <4>1
      <4>3. FatFs[v] = j
        BY <2>1, <4>2, FreedSlots
      <4> QED
        BY <2>3, <4>2, <4>3
    <3>2. ~ \E k \in scan[t] .. Len(drives) : drives[k] = FatFs[v]
      BY <2>3
    <3> QED
      BY <2>3, <2>6, <3>1, <3>2 DEF RouteInv, Pruning
  <2>7. \A s \in Threads : pc'[s] # "prune"
    BY <2>2, <2>3
  <2> QED
    BY <2>5, <2>6, <2>7, RouteSettled
<1>12. ASSUME NEW t \in Threads, QueryAvailable(t) PROVE RouteInv'
  BY <1>12, RouteSame DEF QueryAvailable
<1>13. ASSUME NEW t \in Threads, QueryAvailableFails(t) PROVE RouteInv'
  <2>1. pc[t] \in Critical /\ pc[t] # "prune"
    BY <1>13 DEF QueryAvailableFails
  <2>2. pc' = [pc EXCEPT ![t] = "idle"] /\ UNCHANGED <<drive, drives, FatFs>>
    BY <1>13 DEF QueryAvailableFails, Unlock, Leave
  <2>3. /\ \A s \in Threads : pc[s] # "prune"
        /\ \A i \in Ifaces : drive[i].idx \in Volumes => FatFs[drive[i].idx] = i
        /\ \A v \in Volumes : FatFs[v] \in Ifaces => \E k \in 1 .. Len(drives) : drives[k] = FatFs[v]
    BY <2>1, RouteOutside
  <2> QED
    BY <2>2, <2>3, RouteSettled
<1>14. ASSUME NEW t \in Threads, Return(t) PROVE RouteInv'
  <2>1. pc[t] \in Critical /\ pc[t] # "prune"
    BY <1>14 DEF Return
  <2>2. pc' = [pc EXCEPT ![t] = "idle"] /\ UNCHANGED <<drive, drives, FatFs>>
    BY <1>14 DEF Return, Unlock, Leave
  <2>3. /\ \A s \in Threads : pc[s] # "prune"
        /\ \A i \in Ifaces : drive[i].idx \in Volumes => FatFs[drive[i].idx] = i
        /\ \A v \in Volumes : FatFs[v] \in Ifaces => \E k \in 1 .. Len(drives) : drives[k] = FatFs[v]
    BY <2>1, RouteOutside
  <2> QED
    BY <2>2, <2>3, RouteSettled
<1>15. ASSUME NEW t \in Threads, NEW i \in Ifaces, AcquireUsbIf(t, i) PROVE RouteInv'
  BY <1>15, RouteSame DEF AcquireUsbIf
<1>16. ASSUME NEW t \in Threads, NEW i \in Ifaces, AcquireUsbIfFails(t, i) PROVE RouteInv'
  BY <1>16, RouteSame DEF AcquireUsbIfFails
<1>17. ASSUME NEW t \in Threads, Setup(t) PROVE RouteInv'
  BY <1>17, RouteSame DEF Setup
<1>18. ASSUME NEW t \in Threads, SetupFails(t) PROVE RouteInv'
  BY <1>18, RouteSame DEF SetupFails
<1>19. ASSUME NEW t \in Threads, PushDrive(t) PROVE RouteInv'
  <2>1. cur[t] \in Ifaces /\ \A v \in Volumes : FatFs[v] # cur[t]
    BY <1>19 DEF PushDrive, IInv, ListInv, RegistryInv, Busy
  <2>2. /\ \A s \in Threads : pc[s] # "prune"
        /\ \A i \in Ifaces : drive[i].idx \in Volumes => FatFs[drive[i].idx] = i
        /\ \A v \in Volumes : FatFs[v] \in Ifaces => \E k \in 1 .. Len(drives) : drives[k] = FatFs[v]
    BY <1>19, RouteOutside DEF PushDrive
  <2>3. PICK s \in {"ok", "failed"} :
          drive' = [drive EXCEPT ![cur[t]] = [NoDrive EXCEPT !.live = TRUE, !.lun = lun[t], !.scsi = s]]
    BY <1>19 DEF PushDrive
  <2>4. drives' = Append(drives, cur[t]) /\ FatFs' = FatFs /\ pc' = [pc EXCEPT ![t] = "mount"]
    BY <1>19 DEF PushDrive
  <2>5. \A i \in Ifaces : drive'[i].idx \in Volumes => drive'[i] = drive[i]
    BY <2>1, <2>3, NoIndex DEF NoDrive
  <2>6. /\ Len(drives') = Len(drives) + 1
        /\ \A k \in 1 .. Len(drives) : drives'[k] = drives[k]
    BY <2>1, <2>4, PushList
  <2>7. \A u \in Threads : pc'[u] # "prune"
    BY <2>2, <2>4
  <2>8. ASSUME NEW v \in Volumes, FatFs'[v] \in Ifaces
        PROVE  \E k \in 1 .. Len(drives') : drives'[k] = FatFs'[v]
    BY <2>2, <2>4, <2>6, <2>8
  <2> QED
    BY <2>2, <2>4, <2>5, <2>7, <2>8, RouteSettled
<1>20. ASSUME NEW t \in Threads, LunsExhausted(t) PROVE RouteInv'
  BY <1>20, RouteSame DEF LunsExhausted
<1>21. ASSUME NEW t \in Threads, MountNoScsi(t) PROVE RouteInv'
  BY <1>21, PopDriveRoute DEF MountNoScsi
<1>22. ASSUME NEW t \in Threads, MountRegister(t) PROVE RouteInv'
  <2>1. Last \in Ifaces
    BY <1>22, Mounting DEF MountRegister
  <2>2. PICK v \in Volumes : /\ ~reserved[v]
                             /\ drive' = [drive EXCEPT ![Last] = Placed(Last, v)]
                             /\ FatFs' = [FatFs EXCEPT ![v] = Last]
    BY <1>22 DEF MountRegister, FreeIndex
  <2>3. FatFs[v] = Null /\ Null \notin Ifaces
    BY <2>2, PointerAssumption DEF IInv, FreeIndexUnregistered
  <2>4. /\ \A s \in Threads : pc[s] # "prune"
        /\ \A i \in Ifaces : drive[i].idx \in Volumes => FatFs[drive[i].idx] = i
        /\ \A w \in Volumes : FatFs[w] \in Ifaces => \E k \in 1 .. Len(drives) : drives[k] = FatFs[w]
    BY <1>22, RouteOutside DEF MountRegister
  <2>5. pc' = [pc EXCEPT ![t] = "probe"] /\ drives' = drives /\ drives # <<>>
    BY <1>22, Mounting DEF MountRegister
  <2>6. Placed(Last, v).idx = v
    BY <2>1 DEF Placed, DriveRecords
  <2>7. \A i \in Ifaces : drive'[i].idx \in Volumes => FatFs'[drive'[i].idx] = i
    BY <2>1, <2>2, <2>3, <2>4, <2>6
  <2>8. drives[Len(drives)] = Last /\ Len(drives) \in 1 .. Len(drives)
    BY <2>5, EmptySeq DEF Last
  <2>9. \A w \in Volumes : FatFs'[w] \in Ifaces => \E k \in 1 .. Len(drives') : drives'[k] = FatFs'[w]
    BY <2>2, <2>4, <2>5, <2>8
  <2>10. \A s \in Threads : pc'[s] # "prune"
    BY <2>4, <2>5
  <2> QED
    BY <2>7, <2>9, <2>10, RouteSettled
<1>23. ASSUME NEW t \in Threads, MountNoIndex(t) PROVE RouteInv'
  BY <1>23, RouteSame DEF MountNoIndex
<1>24. ASSUME NEW t \in Threads, MountSucceeds(t) PROVE RouteInv'
  <2>1. \A i \in Ifaces : drive'[i].idx = drive[i].idx
    BY <1>24, Mounting DEF MountSucceeds, DriveRecords
  <2>2. /\ drives' = drives /\ FatFs' = FatFs /\ scan' = scan /\ valid' = valid
        /\ pc' = [pc EXCEPT ![t] = "next"] /\ pc[t] = "probe"
    BY <1>24 DEF MountSucceeds
  <2>3. /\ \A s \in Threads : pc[s] # "prune"
        /\ \A i \in Ifaces : drive[i].idx \in Volumes => FatFs[drive[i].idx] = i
        /\ \A v \in Volumes : FatFs[v] \in Ifaces => \E k \in 1 .. Len(drives) : drives[k] = FatFs[v]
    BY <2>2, RouteOutside
  <2> QED
    BY <2>1, <2>2, <2>3, RouteSettled
<1>25. ASSUME NEW t \in Threads, MountFails(t) PROVE RouteInv'
  BY <1>25, PopDriveRoute DEF MountFails
<1>26. ASSUME NEW t \in Threads, CloseUsbIf(t) PROVE RouteInv'
  BY <1>26, RouteSame DEF CloseUsbIf
<1>27. CASE UNCHANGED vars
  BY <1>27, RouteSame DEF vars
<1> QED
  BY <1>1, <1>2, <1>3, <1>4, <1>5, <1>6, <1>7, <1>8, <1>9, <1>10, <1>11, <1>12, <1>13, <1>14,
     <1>15, <1>16, <1>17, <1>18, <1>19, <1>20, <1>21, <1>22, <1>23, <1>24, <1>25, <1>26, <1>27
     DEF Next, Environment, Wake, UpdateDrives, Prune, Acquire, Mount

\* A drive that was sorted out is unmounted and cannot talk; one that is being
\* mounted is not mounted yet.
DisposedInv ==
    /\ \A t \in Threads : pc[t] \in {"mount", "probe"} => ~drive[cur[t]].mounted
    /\ \A t \in Threads : pc[t] = "prune" =>
         \A k \in 1 .. scan[t] - 1 : drives[k] \in Ifaces =>
           ~drive[drives[k]].mounted /\ drive[drives[k]].scsi = "none"

\* A step of the thread in the lock that ends outside mounting and pruning.
LEMMA DisposedOutside ==
    ASSUME NEW t \in Threads, \A s \in Threads \ {t} : pc'[s] \notin Critical,
           pc'[t] \notin {"mount", "probe", "prune"}
    PROVE  DisposedInv'
BY DEF DisposedInv, Critical, Labels

LEMMA DisposedStep == IInv /\ DisposedInv /\ [Next]_vars => DisposedInv'
<1> SUFFICES ASSUME IInv, DisposedInv, [Next]_vars PROVE DisposedInv'
  OBVIOUS
<1> USE DEF Critical, Labels, usbVars, table, pruneVars, mountVars, locals, Goto
<1>. /\ pc \in [Threads -> Labels] /\ drive \in [Ifaces -> DriveRecords]
     /\ scan \in [Threads -> Nat] /\ drives \in Seq(Ifaces \cup {Moved}) /\ Moved \notin Ifaces
     /\ \A s \in Threads : pc[s] \in Busy => cur[s] \in Ifaces
  BY PointerAssumption DEF IInv, TypeOK, ListInv
<1>1. ASSUME UNCHANGED <<pc, cur, scan, drive, drives>> PROVE DisposedInv'
  BY <1>1 DEF DisposedInv
<1>2. ASSUME Environment \/ UNCHANGED vars PROVE DisposedInv'
  BY <1>1, <1>2 DEF Environment, Plug, Unplug, vars
<1>3. ASSUME NEW t \in Threads, NEW l \in {"lock", "acquired", "available"},
             UNCHANGED <<cur, scan, drive, drives>>, pc' = [pc EXCEPT ![t] = l]
      PROVE  DisposedInv'
  BY <1>3 DEF DisposedInv
<1>4. ASSUME NEW t \in Threads, Wake(t) \/ DoUpdateDrives(t) \/ Lock(t) PROVE DisposedInv'
  <2>1. PICK l \in {"lock", "acquired", "available"} : pc' = [pc EXCEPT ![t] = l]
    BY <1>4 DEF Wake, WakeStateChange, WakeAvailable, DoUpdateDrives, Lock
  <2>2. UNCHANGED <<cur, scan, drive, drives>>
    BY <1>4 DEF Wake, WakeStateChange, WakeAvailable, DoUpdateDrives, Lock
  <2> QED
    BY <1>3, <2>1, <2>2
<1>5. ASSUME NEW t \in Threads, QueryAcquired(t) PROVE DisposedInv'
  BY <1>5 DEF QueryAcquired, DisposedInv
<1>6. ASSUME NEW t \in Threads, PruneKeep(t) PROVE DisposedInv'
  <2>1. /\ scan' = [scan EXCEPT ![t] = scan[t] + 1] /\ drives' = [drives EXCEPT ![scan[t]] = Moved]
        /\ UNCHANGED <<cur, drive, pc>> /\ pc[t] = "prune"
    BY <1>6 DEF PruneKeep
  <2>2. \A s \in Threads \ {t} : pc[s] \notin Critical
    BY <2>1, Alone
  <2>3. scan[t] \in 1 .. Len(drives)
    BY <1>6 DEF PruneKeep, IInv, ListInv
  <2>4. ASSUME NEW j \in 1 .. scan'[t] - 1, drives'[j] \in Ifaces
        PROVE  ~drive'[drives'[j]].mounted /\ drive'[drives'[j]].scsi = "none"
    <3>1. j # scan[t]
      BY <2>1, <2>3, <2>4
    <3>2. j \in 1 .. scan[t] - 1 /\ drives'[j] = drives[j]
      BY <2>1, <2>3, <2>4, <3>1
    <3> QED
      BY <2>1, <2>4, <3>2 DEF DisposedInv
  <2> QED
    BY <2>1, <2>2, <2>4 DEF DisposedInv
<1>7. ASSUME NEW t \in Threads, PruneDrop(t) PROVE DisposedInv'
  <2> DEFINE i == drives[scan[t]]
  <2>1. /\ scan' = [scan EXCEPT ![t] = scan[t] + 1] /\ drive' = [drive EXCEPT ![i] = Disposed(i)]
        /\ UNCHANGED <<cur, drives, pc>> /\ pc[t] = "prune"
    BY <1>7 DEF PruneDrop
  <2>2. \A s \in Threads \ {t} : pc[s] \notin Critical
    BY <2>1, Alone
  <2>3. i \in Ifaces /\ scan[t] \in Nat
    BY <1>7 DEF PruneDrop, IInv, ListInv
  <2>4. Disposed(i).scsi = "none" /\ ~Disposed(i).mounted
    BY <2>3 DEF Disposed, DriveRecords
  <2> HIDE DEF i
  <2>5. ASSUME NEW j \in 1 .. scan'[t] - 1, drives'[j] \in Ifaces
        PROVE  ~drive'[drives'[j]].mounted /\ drive'[drives'[j]].scsi = "none"
    <3>1. CASE drives[j] = i
      BY <2>1, <2>3, <2>4, <3>1
    <3>2. CASE drives[j] # i
      <4>1. j \in 1 .. scan[t] - 1
        BY <2>1, <2>3, <2>5, <3>2 DEF i
      <4> QED
        BY <2>1, <2>3, <2>5, <3>2, <4>1 DEF DisposedInv
    <3> QED
      BY <3>1, <3>2
  <2> QED
    BY <2>1, <2>2, <2>5 DEF DisposedInv
<1>8. ASSUME NEW t \in Threads, pc[t] \in Critical, pc'[t] \notin {"mount", "probe", "prune"},
             \A s \in Threads \ {t} : pc'[s] = pc[s]
      PROVE  DisposedInv'
  <2>1. \A s \in Threads \ {t} : pc'[s] \notin Critical
    BY <1>8, Alone
  <2> QED
    BY <1>8, <2>1, DisposedOutside
<1>9. ASSUME NEW t \in Threads, QueryAcquiredFails(t) \/ PruneDone(t) PROVE DisposedInv'
  BY <1>8, <1>9 DEF QueryAcquiredFails, PruneDone
<1>10. ASSUME NEW t \in Threads, NEW i \in Ifaces, AcquireUsbIf(t, i) PROVE DisposedInv'
  BY <1>8, <1>10 DEF AcquireUsbIf
<1>11. ASSUME NEW t \in Threads, NEW i \in Ifaces, AcquireUsbIfFails(t, i) PROVE DisposedInv'
  BY <1>1, <1>11 DEF AcquireUsbIfFails
<1>12. ASSUME NEW t \in Threads, \/ QueryAvailable(t) \/ QueryAvailableFails(t) \/ Return(t) \/ Setup(t)
                                 \/ SetupFails(t) \/ LunsExhausted(t) \/ CloseUsbIf(t)
       PROVE  DisposedInv'
  BY <1>8, <1>12 DEF QueryAvailable, QueryAvailableFails, Return, Unlock, Leave, Setup, SetupFails,
                     LunsExhausted, CloseUsbIf
<1>13. ASSUME NEW t \in Threads, MountNoScsi(t) \/ MountNoIndex(t) \/ MountSucceeds(t) \/ MountFails(t)
       PROVE  DisposedInv'
  BY <1>8, <1>13 DEF MountNoScsi, MountNoIndex, MountSucceeds, MountFails, PopDrive
<1>14. ASSUME NEW t \in Threads, NEW l \in {"mount", "probe"}, pc[t] \in Critical,
              pc' = [pc EXCEPT ![t] = l], cur' = cur, ~drive'[cur[t]].mounted
       PROVE  DisposedInv'
  <2>1. \A s \in Threads \ {t} : pc[s] \notin Critical
    BY <1>14, Alone
  <2> QED
    BY <1>14, <2>1 DEF DisposedInv
<1>15. ASSUME NEW t \in Threads, PushDrive(t) PROVE DisposedInv'
  <2>1. pc[t] = "lun" /\ pc' = [pc EXCEPT ![t] = "mount"] /\ cur' = cur
    BY <1>15 DEF PushDrive
  <2>2. PICK s \in {"ok", "failed"} :
          drive' = [drive EXCEPT ![cur[t]] = [NoDrive EXCEPT !.live = TRUE, !.lun = lun[t], !.scsi = s]]
    BY <1>15 DEF PushDrive
  <2>3. cur[t] \in Ifaces
    BY <2>1 DEF Busy
  <2>4. ~drive'[cur[t]].mounted
    BY <2>2, <2>3 DEF NoDrive
  <2> QED
    BY <1>14, <2>1, <2>4
<1>16. ASSUME NEW t \in Threads, MountRegister(t) PROVE DisposedInv'
  <2>1. Last \in Ifaces /\ Last = cur[t] /\ pc[t] = "mount"
    BY <1>16, Mounting DEF MountRegister
  <2>2. PICK v \in Volumes : drive' = [drive EXCEPT ![Last] = Placed(Last, v)]
    BY <1>16 DEF MountRegister
  <2>3. ~drive'[Last].mounted
    BY <2>1, <2>2 DEF Placed, DriveRecords, DisposedInv
  <2>4. pc' = [pc EXCEPT ![t] = "probe"] /\ cur' = cur
    BY <1>16 DEF MountRegister
  <2> QED
    BY <1>14, <2>1, <2>3, <2>4
<1> QED
  BY <1>2, <1>4, <1>5, <1>6, <1>7, <1>9, <1>10, <1>11, <1>12, <1>13, <1>15, <1>16
     DEF Next, UpdateDrives, Prune, Acquire, Mount

\* Outside the pruning the first drive of the list with an index is the owner of
\* the FATFS registered there, whatever was mounted, dropped or failed before.
LEMMA FirstIsOwner ==
    ASSUME IInv, RouteInv, \A t \in Threads : pc[t] # "prune", NEW v \in Volumes, FatFs[v] \in Ifaces
    PROVE  \E k \in 1 .. Len(drives) : FirstWith(k, v) /\ drives[k] = FatFs[v]
<1>1. drives \in Seq(Ifaces \cup {Moved}) /\ Len(drives) \in Nat
  BY LenProperties DEF IInv, TypeOK
<1>2. \A k \in 1 .. Len(drives) : Holds(k, v) => drives[k] = FatFs[v]
  <2> SUFFICES ASSUME NEW k \in 1 .. Len(drives), Holds(k, v) PROVE drives[k] = FatFs[v]
    OBVIOUS
  <2>1. drives[k] \in Ifaces
    BY DEF IInv, ListInv
  <2> QED
    BY <2>1 DEF Holds, RouteInv, Settled
<1> DEFINE S == {k \in 1 .. Len(drives) : Holds(k, v)}
<1>3. S # {}
  <2>1. PICK k \in 1 .. Len(drives) : drives[k] = FatFs[v]
    BY DEF RouteInv, Settled
  <2>2. Holds(k, v)
    BY <2>1, PointerAssumption DEF Holds, IInv, RegistryInv
  <2> QED
    BY <2>2
<1>4. PICK k \in S : \A j \in S : k <= j
  BY <1>1, <1>3, LeastOf
<1>5. FirstWith(k, v)
  BY <1>1, <1>4 DEF FirstWith
<1> QED
  BY <1>2, <1>4, <1>5

\* While the list is pruned the owner stays in it, and whoever else had the index
\* has been disposed of.
LEMMA OwnerStays ==
    ASSUME IInv, RouteInv, DisposedInv, NEW t \in Threads, pc[t] = "prune",
           NEW v \in Volumes, FatFs[v] \in Ifaces
    PROVE  /\ FatFs[v] \in Staying(t)
           /\ \A i \in Ifaces : drive[i].idx = v /\ drive[i].scsi # "none" => i = FatFs[v]
<1>1. FatFs[v] \in Staying(t)
  BY DEF RouteInv, Pruning, Staying
<1>2. ASSUME NEW i \in Ifaces, drive[i].idx = v, drive[i].scsi # "none" PROVE i = FatFs[v]
  BY <1>2 DEF RouteInv, Pruning, DisposedInv
<1> QED
  BY <1>1, <1>2

\* Sectors reach the drive whose FATFS they are for, and will after the pruning.
THEOREM SectorsRouted == Spec => []SectorsReachOwner
<1>1. Init => RouteInv /\ DisposedInv
  BY PointerAssumption, NoIndex DEF Init, RouteInv, Settled, DisposedInv
<1>2. IInv /\ RouteInv /\ DisposedInv => SectorsReachOwner
  BY FirstIsOwner, OwnerStays DEF SectorsReachOwner
<1>3. IInv /\ RouteInv /\ [Next]_vars => RouteInv'
  BY RouteStep
<1>4. IInv /\ DisposedInv /\ [Next]_vars => DisposedInv'
  BY DisposedStep
<1> QED
  BY Invariance, <1>1, <1>2, <1>3, <1>4, PTL DEF Spec

\* Array, registry and list agree on the owner of every index.
THEOREM IndicesSafe == Spec => []IndicesOwned
BY FreeIndexSafe, IndexOwnership, SectorsRouted, PTL DEF IndicesOwned
-----------------------------------------------------------------------------
(* VolumeTable.  A free index has no FATFS, so f_mount fills a free slot, and *)
(* a drive that is being mounted is in no other slot; a FATFS that is freed   *)
(* while it is registered leaves its slot lost.                              *)

slots == [v \in Volumes |-> Slot(v)]

\* Drive objects die while FatFs[] points into them.
LEMMA FreedLoses ==
    ASSUME IInv, NEW S \in SUBSET Ifaces, FatFs' = Freed(S), reserved' = reserved
    PROVE  Table!Next
<1> DEFINE L == {v \in Volumes : FatFs[v] \in S}
<1>. FatFs \in [Volumes -> Ifaces \cup {Null, Dangling}] /\ Null \notin Ifaces /\ Dangling \notin Ifaces
  BY PointerAssumption DEF IInv, TypeOK
<1>1. \A v \in L : Slot(v) \in Ifaces
  BY DEF IInv, FreeIndexUnregistered, Slot
<1>2. ASSUME NEW v \in Volumes PROVE Slot(v)' = IF v \in L THEN Dangling ELSE Slot(v)
  <2>1. FatFs'[v] = IF FatFs[v] \in S THEN Dangling ELSE FatFs[v]
    BY DEF Freed
  <2> QED
    BY <1>1, <2>1 DEF Slot, IInv, FreeIndexUnregistered
<1> HIDE DEF L
<1>3. L \in SUBSET Volumes
  BY DEF L
<1>4. Table!Lose(L)
  BY <1>1, <1>2, <1>3 DEF Table!Lose
<1> QED
  BY <1>3, <1>4 DEF Table!Next

LEMMA TableStep == IInv /\ [Next]_vars => [Table!Next]_slots
<1> SUFFICES ASSUME IInv, [Next]_vars PROVE Table!Next \/ UNCHANGED slots
  OBVIOUS
<1> USE DEF table, Leave, Unlock
<1>. /\ FatFs \in [Volumes -> Ifaces \cup {Null, Dangling}] /\ Null \notin Ifaces /\ Dangling \notin Ifaces
     /\ reserved \in [Volumes -> BOOLEAN]
  BY PointerAssumption DEF IInv, TypeOK
<1>1. ASSUME UNCHANGED <<FatFs, reserved>> PROVE UNCHANGED slots
  BY <1>1 DEF slots, Slot
<1>2. ASSUME NEW t \in Threads, QueryAcquiredFails(t) PROVE Table!Next
  <2> DEFINE lost == {drives[k] : k \in 1 .. Len(drives)}
  <2>1. FatFs' = Freed(lost) /\ reserved' = reserved
    BY <1>2 DEF QueryAcquiredFails
  <2>2. \A s \in Threads : pc[s] # "prune"
    BY <1>2, Alone DEF QueryAcquiredFails, Critical, Labels
  <2>3. lost \in SUBSET Ifaces
    BY <2>2 DEF IInv, ListInv
  <2> QED
    BY <2>1, <2>3, FreedLoses
<1>3. ASSUME NEW t \in Threads, PruneDrop(t) PROVE Table!Next \/ UNCHANGED slots
  <2> DEFINE i == drives[scan[t]]
             v == drive[i].idx
  <2>1. i \in Ifaces
    BY <1>3 DEF PruneDrop, IInv, ListInv
  <2>2. CASE ~drive[i].mounted
    BY <1>1, <1>3, <2>2 DEF PruneDrop
  <2>3. CASE drive[i].mounted
    <3>1. v \in Volumes /\ reserved[v] /\ FatFs[v] = i
      BY <2>1, <2>3 DEF IInv, MountedOwnsIndex
    <3>2. reserved' = [reserved EXCEPT ![v] = FALSE] /\ FatFs' = [FatFs EXCEPT ![v] = Null]
      BY <1>3, <2>3 DEF PruneDrop, Released, Unregistered
    <3> HIDE DEF i, v
    <3>3. Slot(v) \in Ifaces
      BY <2>1, <3>1 DEF Slot
    <3>4. \A w \in Volumes : Slot(w)' = IF w = v THEN Null ELSE Slot(w)
      BY <3>1, <3>2 DEF Slot
    <3>5. Table!Release(v)
      BY <3>1, <3>3, <3>4 DEF Table!Release
    <3> QED
      BY <3>1, <3>5 DEF Table!Next
  <2> QED
    BY <2>2, <2>3
<1>4. ASSUME NEW t \in Threads, PruneDone(t) PROVE Table!Next
  <2> DEFINE dropped == {drives[k] : k \in 1 .. Len(drives)} \ {Moved}
  <2>1. FatFs' = Freed(dropped) /\ reserved' = reserved
    BY <1>4 DEF PruneDone
  <2>2. dropped \in SUBSET Ifaces
    <3>1. drives \in Seq(Ifaces \cup {Moved})
      BY DEF IInv, TypeOK
    <3>2. \A k \in 1 .. Len(drives) : drives[k] \in Ifaces \cup {Moved}
      BY <3>1
    <3> QED
      BY <3>2
  <2> QED
    BY <2>1, <2>2, FreedLoses
<1>5. ASSUME NEW t \in Threads, pc[t] \in {"mount", "probe"}, PopDrive(t) PROVE Table!Next
  <2>1. Last \in Ifaces
    BY <1>5, Mounting
  <2>2. FatFs' = Freed({Last}) /\ reserved' = reserved
    BY <1>5 DEF PopDrive
  <2> QED
    BY <2>1, <2>2, FreedLoses
<1>6. ASSUME NEW t \in Threads, MountRegister(t) PROVE Table!Next
  <2>1. Last = cur[t] /\ Last \in Ifaces /\ pc[t] = "mount"
    BY <1>6, Mounting DEF MountRegister
  <2>2. PICK v \in Volumes : /\ ~reserved[v]
                             /\ reserved' = [reserved EXCEPT ![v] = TRUE]
                             /\ FatFs' = [FatFs EXCEPT ![v] = Last]
    BY <1>6 DEF MountRegister, FreeIndex
  <2>3. \A w \in Volumes : Slot(w) # Last
    BY <2>1 DEF IInv, RegistryInv, Busy, Slot
  <2>4. \A w \in Volumes : Slot(w)' = IF w = v THEN Last ELSE Slot(w)
    BY <2>1, <2>2 DEF Slot
  <2>5. Table!Claim(v, Last)
    BY <2>2, <2>3, <2>4 DEF Table!Claim, Slot
  <2> QED
    BY <2>1, <2>2, <2>5 DEF Table!Next
<1>7. ASSUME Environment PROVE UNCHANGED <<FatFs, reserved>>
  BY <1>7 DEF Environment, Plug, Unplug
<1>8. ASSUME NEW t \in Threads, Wake(t) \/ DoUpdateDrives(t) \/ Lock(t) PROVE UNCHANGED <<FatFs, reserved>>
  BY <1>8 DEF Wake, WakeStateChange, WakeAvailable, DoUpdateDrives, Lock
<1>9. ASSUME NEW t \in Threads, QueryAcquired(t) \/ PruneKeep(t) PROVE UNCHANGED <<FatFs, reserved>>
  BY <1>9 DEF QueryAcquired, PruneKeep
<1>10. ASSUME NEW t \in Threads, Acquire(t) PROVE UNCHANGED <<FatFs, reserved>>
  BY <1>10 DEF Acquire, QueryAvailable, QueryAvailableFails, Return, AcquireUsbIf, AcquireUsbIfFails,
               Setup, SetupFails, LunsExhausted, CloseUsbIf
<1>11. ASSUME NEW t \in Threads, PushDrive(t) \/ MountNoIndex(t) \/ MountSucceeds(t)
       PROVE  UNCHANGED <<FatFs, reserved>>
  BY <1>11 DEF PushDrive, MountNoIndex, MountSucceeds
<1>12. ASSUME NEW t \in Threads, MountNoScsi(t) \/ MountFails(t) PROVE Table!Next
  BY <1>5, <1>12 DEF MountNoScsi, MountFails
<1>13. ASSUME UNCHANGED vars PROVE UNCHANGED <<FatFs, reserved>>
  BY <1>13 DEF vars
<1> QED
  BY <1>1, <1>2, <1>3, <1>4, <1>6, <1>7, <1>8, <1>9, <1>10, <1>11, <1>12, <1>13
     DEF Next, UpdateDrives, Prune, Mount

\* Mounting, unmounting and every failure are steps of VolumeTable: this is what
\* DriveAccess rests on.
THEOREM ImplementsTable == Spec => TableSpec
<1>1. Init => Table!Init
  BY DEF Init, Table!Init, Slot
<1>2. IInv /\ [Next]_vars => [Table!Next]_slots
  BY TableStep
<1> QED
  BY Invariance, <1>1, <1>2, PTL DEF Spec, TableSpec, Table!Spec, slots

-----------------------------------------------------------------------------
(* Whose sessions are open.  The cursor of the pruning leaves closed, unmounted *)
(* drives behind; a Drive that is being mounted is alive and not yet mounted.  *)

OwnedInv ==
    /\ SessionsOwned
    /\ \A t \in Threads : pc[t] \in {"mount", "probe"} => drive[cur[t]].live /\ ~drive[cur[t]].mounted
    /\ \A t \in Threads : pc[t] = "prune" =>
         \A k \in 1 .. scan[t] - 1 : drives[k] \in Ifaces =>
           ~drive[drives[k]].mounted /\ usb[drives[k]] \notin {"acquired", "orphan"}

\* The snapshot of acquired interfaces still holds every one of them, unless it
\* is as large as it can be.
SnapshotInv ==
    \A t \in Threads : pc[t] = "prune" =>
        \/ Cardinality(block[t]) = DriveMax
        \/ \A i \in Ifaces : usb[i] = "acquired" => i \in block[t]

\* A Drive that is popped leaves its interface to the units still to be tried.
LEMMA PopDriveOwned ==
    ASSUME IInv, OwnedInv, NEW t \in Threads, pc[t] \in {"mount", "probe"}, PopDrive(t)
    PROVE  OwnedInv'
<1> USE DEF OwnedInv, SessionsOwned, Working, Critical, Labels
<1>. pc \in [Threads -> Labels] /\ drive \in [Ifaces -> DriveRecords]
  BY DEF IInv, TypeOK
<1>1. Last = cur[t] /\ Last \in Ifaces
  BY Mounting
<1>2. \A s \in Threads \ {t} : pc[s] \notin Critical
  BY Alone
<1>3. /\ drive' = [drive EXCEPT ![Last] = NoDrive] /\ pc' = [pc EXCEPT ![t] = "lun"]
      /\ cur' = cur /\ usb' = usb
  BY DEF PopDrive, Goto, usbVars
<1>4. ASSUME NEW i \in Ifaces, usb'[i] \in {"acquired", "orphan"} PROVE drive'[i].live \/ Working(i)'
  BY <1>1, <1>2, <1>3, <1>4
<1> QED
  BY <1>2, <1>3, <1>4

\* A step of the thread inside UpdateDrives that is not part of the pruning.
LEMMA OwnedOutside ==
    ASSUME IInv, NEW t \in Threads, NEW l \in Labels \ {"prune"}, pc' = [pc EXCEPT ![t] = l],
           \A s \in Threads \ {t} : pc[s] \notin Critical, SessionsOwned',
           l \in {"mount", "probe"} => drive'[cur'[t]].live /\ ~drive'[cur'[t]].mounted
    PROVE  OwnedInv'
<1>1. \A s \in Threads : pc'[s] \in {"mount", "probe"} => s = t
  BY DEF IInv, TypeOK, Critical, Labels
<1>2. \A s \in Threads : pc'[s] # "prune"
  BY DEF IInv, TypeOK, Critical, Labels
<1>3. pc'[t] = l
  BY SMTT(30) DEF IInv, TypeOK
<1> QED
  BY <1>1, <1>2, <1>3 DEF OwnedInv

LEMMA OwnedStep ==
    ASSUME "acquired" \notin Faults PROVE IInv /\ OwnedInv /\ [Next]_vars => OwnedInv'
<1> SUFFICES ASSUME IInv, OwnedInv, [Next]_vars PROVE OwnedInv'
  OBVIOUS
<1> USE DEF OwnedInv, SessionsOwned, Working, Critical, Labels, usbVars, table, pruneVars, mountVars, locals, Goto
<1>. /\ usb \in [Ifaces -> UsbStates] /\ pc \in [Threads -> Labels]
     /\ drive \in [Ifaces -> DriveRecords] /\ cur \in [Threads -> Ifaces \cup {Null}]
     /\ scan \in [Threads -> Nat] /\ drives \in Seq(Ifaces \cup {Moved}) /\ Moved \notin Ifaces
     /\ \A s \in Threads : pc[s] \in Busy => cur[s] \in Ifaces
  BY PointerAssumption DEF IInv, TypeOK, ListInv
<1>1. ASSUME NEW i \in Ifaces, Plug(i) PROVE OwnedInv'
  BY <1>1 DEF Plug
<1>2. ASSUME NEW i \in Ifaces, Unplug(i) PROVE OwnedInv'
  <2>1. \A j \in Ifaces : usb'[j] \in {"acquired", "orphan"} => usb[j] \in {"acquired", "orphan"}
    BY <1>2 DEF Unplug
  <2>2. UNCHANGED <<pc, drive, drives, scan, cur>>
    BY <1>2 DEF Unplug
  <2> QED
    BY <2>1, <2>2, SMTT(30)
<1>3. ASSUME NEW t \in Threads, WakeStateChange(t) PROVE OwnedInv'
  BY <1>3 DEF WakeStateChange
<1>4. ASSUME NEW t \in Threads, WakeAvailable(t) PROVE OwnedInv'
  BY <1>4 DEF WakeAvailable
<1>5. ASSUME NEW t \in Threads, DoUpdateDrives(t) PROVE OwnedInv'
  <2>1. pc' = [pc EXCEPT ![t] = "lock"] /\ pc[t] = "idle" /\ UNCHANGED <<usb, drive, drives, scan, cur>>
    BY <1>5 DEF DoUpdateDrives
  <2>2. SessionsOwned'
    BY <2>1
  <2> QED
    BY <2>1, <2>2
<1>6. ASSUME NEW t \in Threads, Lock(t) PROVE OwnedInv'
  <2>1. PICK l \in {"acquired", "available"} : pc' = [pc EXCEPT ![t] = l]
    BY <1>6 DEF Lock
  <2>a. pc[t] = "lock" /\ UNCHANGED <<usb, drive, cur>> /\ lock = NoThread
    BY <1>6 DEF Lock
  <2>2. \A s \in Threads \ {t} : pc[s] \notin Critical
    BY <2>a, ThreadAssumption DEF IInv, MutexInv
  <2>3. \A i \in Ifaces : Working(i)' <=> Working(i)
    BY <2>1, <2>a
  <2>4. SessionsOwned'
    BY <2>a, <2>3
  <2> HIDE DEF OwnedInv, SessionsOwned, Working
  <2> QED
    BY <2>1, <2>2, <2>4, OwnedOutside, ZenonT(30)
<1>7. ASSUME NEW t \in Threads, QueryAcquired(t) PROVE OwnedInv'
  <2>1. scan' = [scan EXCEPT ![t] = 1] /\ pc' = [pc EXCEPT ![t] = "prune"] /\ pc[t] = "acquired"
    BY <1>7 DEF QueryAcquired
  <2>2. UNCHANGED <<usb, cur, drive, drives>>
    BY <1>7 DEF QueryAcquired
  <2>3. \A i \in Ifaces : Working(i)' <=> Working(i)
    BY <2>1, <2>2
  <2>4. ASSUME NEW s \in Threads, pc'[s] = "prune", NEW k \in 1 .. scan'[s] - 1, drives'[k] \in Ifaces
        PROVE  ~drive'[drives'[k]].mounted /\ usb'[drives'[k]] \notin {"acquired", "orphan"}
    BY <2>1, <2>2, <2>4
  <2>5. SessionsOwned'
    BY <2>2, <2>3
  <2>6. ASSUME NEW s \in Threads, pc'[s] \in {"mount", "probe"} PROVE drive'[cur'[s]].live /\ ~drive'[cur'[s]].mounted
    BY <2>1, <2>2, <2>6
  <2> QED
    BY <2>4, <2>5, <2>6
<1>8. ASSUME NEW t \in Threads, QueryAcquiredFails(t) PROVE OwnedInv'
  BY <1>8 DEF QueryAcquiredFails
<1>9. ASSUME NEW t \in Threads, PruneKeep(t) PROVE OwnedInv'
  <2> DEFINE k == scan[t]
  <2>1. /\ scan' = [scan EXCEPT ![t] = k + 1] /\ drives' = [drives EXCEPT ![k] = Moved]
        /\ UNCHANGED <<usb, cur, drive, pc>> /\ pc[t] = "prune"
    BY <1>9 DEF PruneKeep
  <2>2. \A s \in Threads \ {t} : pc[s] \notin Critical
    BY <2>1, Alone
  <2>3. k \in 1 .. Len(drives)
    BY <1>9 DEF PruneKeep, IInv, ListInv
  <2>4. ASSUME NEW j \in 1 .. scan'[t] - 1, drives'[j] \in Ifaces
        PROVE  ~drive'[drives'[j]].mounted /\ usb'[drives'[j]] \notin {"acquired", "orphan"}
    <3>1. j # k
      BY <2>1, <2>3, <2>4
    <3>2. j \in 1 .. scan[t] - 1 /\ drives'[j] = drives[j]
      BY <2>1, <2>3, <2>4, <3>1
    <3> QED
      BY <2>1, <2>4, <3>2
  <2>5. SessionsOwned'
    BY <2>1
  <2> QED
    BY <2>1, <2>2, <2>4, <2>5
<1>10. ASSUME NEW t \in Threads, PruneDrop(t) PROVE OwnedInv'
  <2> DEFINE k == scan[t]
             i == drives[k]
  <2>1. /\ scan' = [scan EXCEPT ![t] = k + 1] /\ drive' = [drive EXCEPT ![i] = Disposed(i)]
        /\ usb' = [usb EXCEPT ![i] = Closed(usb[i])]
        /\ UNCHANGED <<cur, drives, pc>> /\ pc[t] = "prune"
    BY <1>10 DEF PruneDrop
  <2>2. \A s \in Threads \ {t} : pc[s] \notin Critical
    BY <2>1, Alone
  <2>3. i \in Ifaces /\ k \in Nat
    BY <1>10 DEF PruneDrop, IInv, ListInv
  <2>4. Disposed(i).live = drive[i].live /\ ~Disposed(i).mounted
    BY <2>3 DEF Disposed, DriveRecords
  <2>5. Closed(usb[i]) \notin {"acquired", "orphan"}
    BY DEF Closed
  <2> HIDE DEF i
  <2>6. ASSUME NEW j \in 1 .. scan'[t] - 1, drives'[j] \in Ifaces
        PROVE  ~drive'[drives'[j]].mounted /\ usb'[drives'[j]] \notin {"acquired", "orphan"}
    <3>1. CASE drives[j] = i
      BY <2>1, <2>3, <2>4, <2>5, <3>1
    <3>2. CASE drives[j] # i
      <4>1. j \in 1 .. scan[t] - 1
        BY <2>1, <2>3, <2>6, <3>2 DEF i
      <4> QED
        BY <2>1, <2>3, <2>6, <3>2, <4>1
    <3> QED
      BY <3>1, <3>2
  <2>7. SessionsOwned'
    BY <2>1, <2>3, <2>4, <2>5
  <2> QED
    BY <2>1, <2>2, <2>6, <2>7
<1>11. ASSUME NEW t \in Threads, PruneDone(t) PROVE OwnedInv'
  <2> DEFINE dropped == {drives[k] : k \in 1 .. Len(drives)} \ {Moved}
  <2>1. /\ drive' = [i \in Ifaces |-> IF i \in dropped THEN NoDrive ELSE drive[i]]
        /\ pc' = [pc EXCEPT ![t] = "available"] /\ pc[t] = "prune" /\ scan[t] = Len(drives) + 1
        /\ UNCHANGED <<usb, cur>>
    BY <1>11 DEF PruneDone
  <2>2. \A s \in Threads \ {t} : pc[s] \notin Critical
    BY <2>1, Alone
  <2>3. \A i \in Ifaces : i \in dropped => usb[i] \notin {"acquired", "orphan"}
    BY <2>1
  <2> HIDE DEF dropped
  <2>4. SessionsOwned'
    BY <2>1, <2>3, SMTT(30)
  <2> HIDE DEF OwnedInv, SessionsOwned, Working
  <2> QED
    BY <2>1, <2>2, <2>4, OwnedOutside, ZenonT(30)
<1>12. ASSUME NEW t \in Threads, QueryAvailable(t) PROVE OwnedInv'
  <2>1. pc' = [pc EXCEPT ![t] = "next"] /\ pc[t] = "available" /\ UNCHANGED <<usb, drive, cur>>
    BY <1>12 DEF QueryAvailable
  <2>2. \A s \in Threads \ {t} : pc[s] \notin Critical
    BY <2>1, Alone
  <2>3. \A i \in Ifaces : Working(i)' <=> Working(i)
    BY <2>1
  <2>4. SessionsOwned'
    BY <2>1, <2>3
  <2> HIDE DEF OwnedInv, SessionsOwned, Working
  <2> QED
    BY <2>1, <2>2, <2>4, OwnedOutside, ZenonT(30)
<1>13. ASSUME NEW t \in Threads, QueryAvailableFails(t) \/ Return(t) PROVE OwnedInv'
  <2>1. /\ pc' = [pc EXCEPT ![t] = "idle"] /\ pc[t] \in {"available", "next"}
        /\ cur' = [cur EXCEPT ![t] = Null] /\ UNCHANGED <<usb, drive>>
    BY <1>13 DEF QueryAvailableFails, Return, Unlock, Leave
  <2>2. \A s \in Threads \ {t} : pc[s] \notin Critical
    BY <2>1, Alone
  <2> QED
    BY <2>1, <2>2
<1>14. ASSUME NEW t \in Threads, NEW i \in Ifaces, AcquireUsbIf(t, i) PROVE OwnedInv'
  <2>1. /\ pc' = [pc EXCEPT ![t] = "setup"] /\ pc[t] = "next" /\ usb' = [usb EXCEPT ![i] = "acquired"]
        /\ cur' = [cur EXCEPT ![t] = i] /\ UNCHANGED drive
    BY <1>14 DEF AcquireUsbIf
  <2>2. \A s \in Threads \ {t} : pc[s] \notin Critical
    BY <2>1, Alone
  <2> QED
    BY <2>1, <2>2
<1>15. ASSUME NEW t \in Threads, NEW i \in Ifaces, AcquireUsbIfFails(t, i) PROVE OwnedInv'
  BY <1>15 DEF AcquireUsbIfFails
<1>16. ASSUME NEW t \in Threads, Setup(t) \/ SetupFails(t) \/ LunsExhausted(t) PROVE OwnedInv'
  <2>1. PICK l \in {"lun", "close"} : pc' = [pc EXCEPT ![t] = l]
    BY <1>16 DEF Setup, SetupFails, LunsExhausted
  <2>2. pc[t] \in {"setup", "lun"} /\ UNCHANGED <<usb, drive, cur>>
    BY <1>16 DEF Setup, SetupFails, LunsExhausted
  <2>3. \A s \in Threads \ {t} : pc[s] \notin Critical
    BY <2>2, Alone
  <2>4. SessionsOwned'
    BY <2>1, <2>2
  <2> HIDE DEF OwnedInv, SessionsOwned, Working
  <2> QED
    BY <2>1, <2>3, <2>4, OwnedOutside, ZenonT(30)
<1>17. ASSUME NEW t \in Threads, PushDrive(t) PROVE OwnedInv'
  <2>1. PICK s \in {"ok", "failed"} :
          drive' = [drive EXCEPT ![cur[t]] = [NoDrive EXCEPT !.live = TRUE, !.lun = lun[t], !.scsi = s]]
    BY <1>17 DEF PushDrive
  <2>2. pc[t] = "lun" /\ pc' = [pc EXCEPT ![t] = "mount"] /\ UNCHANGED <<usb, cur>>
    BY <1>17 DEF PushDrive
  <2>3. \A u \in Threads \ {t} : pc[u] \notin Critical
    BY <2>2, Alone
  <2>4. cur[t] \in Ifaces /\ drive'[cur[t]].live /\ ~drive'[cur[t]].mounted
    BY <2>1, <2>2 DEF NoDrive, Busy
  <2>5. \A i \in Ifaces \ {cur[t]} : drive'[i] = drive[i]
    BY <2>1
  <2>6. SessionsOwned'
    BY <2>2, <2>4, <2>5
  <2> HIDE DEF OwnedInv, SessionsOwned, Working
  <2> QED
    BY <2>2, <2>3, <2>4, <2>6, OwnedOutside, ZenonT(30)
<1>18. ASSUME NEW t \in Threads, MountNoScsi(t) PROVE OwnedInv'
  BY <1>18, PopDriveOwned DEF MountNoScsi
<1>19. ASSUME NEW t \in Threads, MountRegister(t) PROVE OwnedInv'
  <2>1. Last \in Ifaces /\ Last = cur[t] /\ pc[t] = "mount"
    BY <1>19, Mounting DEF MountRegister
  <2>2. PICK v \in Volumes : drive' = [drive EXCEPT ![Last] = Placed(Last, v)]
    BY <1>19 DEF MountRegister
  <2>3. \A i \in Ifaces : drive'[i].live = drive[i].live /\ drive'[i].mounted = drive[i].mounted
    BY <2>1, <2>2 DEF Placed, DriveRecords
  <2>4. pc' = [pc EXCEPT ![t] = "probe"] /\ UNCHANGED <<usb, cur>>
    BY <1>19 DEF MountRegister
  <2>5. \A s \in Threads \ {t} : pc[s] \notin Critical
    BY <2>1, Alone
  <2>6. pc'[t] = "probe" /\ \A s \in Threads \ {t} : pc'[s] = pc[s]
    BY <2>4
  <2>7. \A i \in Ifaces : Working(i) => Working(i)'
    BY <2>4, <2>6
  <2>8. SessionsOwned'
    <3>1. \A i \in Ifaces : usb[i] \in {"acquired", "orphan"} => drive[i].live \/ Working(i)
      OBVIOUS
    <3> QED
      BY <2>3, <2>4, <2>7, <3>1, Zenon DEF SessionsOwned
  <2>9. drive[cur[t]].live /\ ~drive[cur[t]].mounted
    BY <2>1
  <2>10. drive'[cur'[t]].live /\ ~drive'[cur'[t]].mounted
    BY <2>1, <2>3, <2>4, <2>9, Zenon
  <2> HIDE DEF OwnedInv, SessionsOwned, Working
  <2> QED
    BY <2>4, <2>5, <2>8, <2>10, OwnedOutside, ZenonT(30)
<1>20. ASSUME NEW t \in Threads, MountNoIndex(t) PROVE OwnedInv'
  <2>1. pc[t] = "mount" /\ pc' = [pc EXCEPT ![t] = "next"] /\ UNCHANGED <<usb, cur, drive>>
    BY <1>20 DEF MountNoIndex
  <2>2. \A s \in Threads \ {t} : pc[s] \notin Critical
    BY <2>1, Alone
  <2> QED
    BY <2>1, <2>2, SMTT(30)
<1>21. ASSUME NEW t \in Threads, MountSucceeds(t) PROVE OwnedInv'
  <2>1. /\ pc[t] = "probe" /\ pc' = [pc EXCEPT ![t] = "next"] /\ UNCHANGED <<usb, cur>>
        /\ drive' = [drive EXCEPT ![Last].mounted = TRUE]
    BY <1>21 DEF MountSucceeds
  <2>2. \A s \in Threads \ {t} : pc[s] \notin Critical
    BY <2>1, Alone
  <2>3. \A i \in Ifaces : drive'[i].live = drive[i].live
    BY <2>1, Mounting DEF DriveRecords
  <2>4. SessionsOwned'
    BY <2>1, <2>3, Mounting
  <2> HIDE DEF OwnedInv, SessionsOwned, Working
  <2> QED
    BY <2>1, <2>2, <2>4, OwnedOutside, ZenonT(30)
<1>22. ASSUME NEW t \in Threads, MountFails(t) PROVE OwnedInv'
  BY <1>22, PopDriveOwned DEF MountFails
<1>23. ASSUME NEW t \in Threads, CloseUsbIf(t) PROVE OwnedInv'
  <2>1. /\ pc[t] = "close" /\ pc' = [pc EXCEPT ![t] = "next"] /\ UNCHANGED <<cur, drive>>
        /\ usb' = [usb EXCEPT ![cur[t]] = Closed(usb[cur[t]])]
    BY <1>23 DEF CloseUsbIf
  <2>2. \A s \in Threads \ {t} : pc[s] \notin Critical
    BY <2>1, Alone
  <2>3. Closed(usb[cur[t]]) \notin {"acquired", "orphan"}
    BY DEF Closed
  <2> QED
    BY <2>1, <2>2, <2>3, SMTT(30)
<1>24. CASE UNCHANGED vars
  BY <1>24 DEF vars
<1> QED
  BY <1>1, <1>2, <1>3, <1>4, <1>5, <1>6, <1>7, <1>8, <1>9, <1>10, <1>11, <1>12, <1>13, <1>14,
     <1>15, <1>16, <1>17, <1>18, <1>19, <1>20, <1>21, <1>22, <1>23, <1>24
     DEF Next, Environment, Wake, UpdateDrives, Prune, Acquire, Mount

\* As long as usb:hs answers what is acquired, every open session has a Drive, or
\* the update in progress, that will close it.
THEOREM SessionsKept == ASSUME "acquired" \notin Faults PROVE Spec => []SessionsOwned
<1>1. Init => OwnedInv
  BY DEF Init, OwnedInv, SessionsOwned
<1>2. OwnedInv => SessionsOwned
  BY DEF OwnedInv
<1>3. IInv /\ OwnedInv /\ [Next]_vars => OwnedInv'
  BY OwnedStep
<1> QED
  BY Invariance, <1>1, <1>2, <1>3, PTL DEF Spec

\* Why a mounted drive may go.
Justified(i) ==
    \/ usb[i] = "orphan"
    \/ \E t \in Threads : pc[t] = "acquired"
    \/ \E t \in Threads :
          pc[t] = "prune" /\ i \notin block[t] /\ Cardinality(block[t]) = DriveMax

\* Nothing is acquired while a thread prunes, and its block is its own.
LEMMA SnapshotStep == IInv /\ SnapshotInv /\ [Next]_vars => SnapshotInv'
<1> SUFFICES ASSUME IInv, SnapshotInv, [Next]_vars, NEW s \in Threads, pc'[s] = "prune",
                    NEW j \in Ifaces, usb'[j] = "acquired", Cardinality(block'[s]) # DriveMax
             PROVE  j \in block'[s]
  BY DEF SnapshotInv
<1> USE DEF Critical, Labels, usbVars, table, pruneVars, mountVars, locals, Goto, Unlock, Leave
<1>. /\ usb \in [Ifaces -> UsbStates] /\ pc \in [Threads -> Labels] /\ block \in [Threads -> SUBSET Ifaces]
  BY DEF IInv, TypeOK
<1>1. ASSUME pc[s] = "prune", usb[j] = "acquired", block'[s] = block[s] PROVE j \in block'[s]
  BY <1>1 DEF SnapshotInv
<1>2. ASSUME NEW i \in Ifaces, Plug(i) \/ Unplug(i) PROVE j \in block'[s]
  BY <1>1, <1>2 DEF Plug, Unplug
<1>3. ASSUME NEW t \in Threads, WakeStateChange(t) \/ WakeAvailable(t) \/ DoUpdateDrives(t) \/ Lock(t)
      PROVE  j \in block'[s]
  BY <1>1, <1>3 DEF WakeStateChange, WakeAvailable, DoUpdateDrives, Lock
<1>4. ASSUME NEW t \in Threads, QueryAcquired(t) PROVE j \in block'[s]
  <2>1. pc[t] = "acquired" /\ UNCHANGED usb /\ pc' = [pc EXCEPT ![t] = "prune"]
    BY <1>4 DEF QueryAcquired
  <2>2. s = t
    BY <2>1, Alone
  <2>3. PICK b \in Block({i \in Ifaces : usb[i] = "acquired"}) : block' = [block EXCEPT ![t] = b]
    BY <1>4 DEF QueryAcquired
  <2>4. b = {i \in Ifaces : usb[i] = "acquired"}
    BY <2>2, <2>3 DEF Block, Answers
  <2> QED
    BY <2>1, <2>2, <2>3, <2>4
<1>5. ASSUME NEW t \in Threads, PruneKeep(t) PROVE j \in block'[s]
  BY <1>1, <1>5 DEF PruneKeep
<1>6. ASSUME NEW t \in Threads, PruneDrop(t) PROVE j \in block'[s]
  <2>1. drives[scan[t]] \in Ifaces
    BY <1>6 DEF PruneDrop, IInv, ListInv
  <2>2. usb[j] = "acquired"
    BY <1>6, <2>1 DEF PruneDrop, Closed
  <2> QED
    BY <1>1, <1>6, <2>2 DEF PruneDrop
<1>7. ASSUME NEW t \in Threads, pc[t] \in Critical, pc'[t] # "prune", \A u \in Threads \ {t} : pc'[u] = pc[u]
      PROVE  j \in block'[s]
  <2>1. \A u \in Threads \ {t} : pc[u] \notin Critical
    BY <1>7, Alone
  <2> QED
    BY <1>7, <2>1
<1>8. ASSUME NEW t \in Threads, QueryAcquiredFails(t) \/ PruneDone(t) PROVE j \in block'[s]
  BY <1>7, <1>8 DEF QueryAcquiredFails, PruneDone
<1>9. ASSUME NEW t \in Threads, NEW i \in Ifaces, AcquireUsbIf(t, i) \/ AcquireUsbIfFails(t, i)
      PROVE  j \in block'[s]
  BY <1>7, <1>9 DEF AcquireUsbIf, AcquireUsbIfFails
<1>10. ASSUME NEW t \in Threads, \/ QueryAvailable(t) \/ QueryAvailableFails(t) \/ Return(t) \/ Setup(t)
                                 \/ SetupFails(t) \/ LunsExhausted(t) \/ CloseUsbIf(t)
       PROVE  j \in block'[s]
  BY <1>7, <1>10 DEF QueryAvailable, QueryAvailableFails, Return, Setup, SetupFails, LunsExhausted, CloseUsbIf
<1>11. ASSUME NEW t \in Threads, Mount(t) PROVE j \in block'[s]
  BY <1>7, <1>11 DEF Mount, PushDrive, MountNoScsi, MountRegister, MountNoIndex, MountSucceeds, MountFails, PopDrive
<1>12. CASE UNCHANGED vars
  BY <1>1, <1>12 DEF vars
<1> QED
  BY <1>2, <1>3, <1>4, <1>5, <1>6, <1>8, <1>9, <1>10, <1>11, <1>12
     DEF Next, Environment, Wake, UpdateDrives, Prune, Acquire

LEMMA DropStep ==
    ASSUME IInv, DisposedInv, SnapshotInv, [Next]_vars,
           NEW i \in Ifaces, drive[i].mounted, ~drive'[i].mounted
    PROVE  Justified(i)
<1> USE DEF usbVars, table, Goto, Unlock, Leave
<1>. drive \in [Ifaces -> DriveRecords]
  BY DEF IInv, TypeOK
<1>1. drive' # drive
  OBVIOUS
<1>2. ASSUME NEW t \in Threads, PruneDrop(t) PROVE Justified(i)
  <2>1. pc[t] = "prune" /\ i = drives[scan[t]] /\ i \notin block[t]
    BY <1>2 DEF PruneDrop
  <2>2. usb[i] # "acquired" \/ Cardinality(block[t]) = DriveMax
    BY <2>1 DEF SnapshotInv
  <2>3. usb[i] \in {"acquired", "orphan"}
    BY DEF IInv, MountedOwnsIndex, RegistryInv
  <2> QED
    BY <2>1, <2>2, <2>3 DEF Justified
<1>3. ASSUME NEW t \in Threads, PruneDone(t) PROVE FALSE
  <2>1. PICK k \in 1 .. Len(drives) : i = drives[k]
    BY <1>3 DEF PruneDone
  <2>2. pc[t] = "prune" /\ k \in 1 .. scan[t] - 1
    BY <1>3 DEF PruneDone
  <2> QED
    BY <2>1, <2>2 DEF DisposedInv
<1>4. ASSUME NEW t \in Threads, pc[t] \in {"mount", "probe"}, PopDrive(t) PROVE FALSE
  <2>1. i = Last /\ Last = cur[t]
    BY <1>4, Mounting DEF PopDrive
  <2> QED
    BY <1>4, <2>1 DEF DisposedInv
<1>5. ASSUME NEW t \in Threads, PushDrive(t) PROVE FALSE
  <2>1. i = cur[t] /\ pc[t] = "lun"
    BY <1>5 DEF PushDrive
  <2> QED
    BY <2>1 DEF IInv, MountedOwnsIndex, RegistryInv, Busy
<1>6. ASSUME NEW t \in Threads, MountRegister(t) \/ MountSucceeds(t) PROVE FALSE
  <2>1. Last \in Ifaces
    BY <1>6, Mounting DEF MountRegister, MountSucceeds
  <2>2. ASSUME NEW v \in Volumes, drive' = [drive EXCEPT ![Last] = Placed(Last, v)] PROVE FALSE
    BY <2>1, <2>2 DEF Placed, DriveRecords
  <2>3. ASSUME drive' = [drive EXCEPT ![Last].mounted = TRUE] PROVE FALSE
    BY <2>1, <2>3 DEF DriveRecords
  <2> QED
    BY <1>6, <2>2, <2>3 DEF MountRegister, MountSucceeds
<1>7. ASSUME NEW t \in Threads, MountNoScsi(t) \/ MountFails(t) PROVE FALSE
  BY <1>4, <1>7 DEF MountNoScsi, MountFails
<1>8. ASSUME NEW t \in Threads, QueryAcquired(t) \/ PruneKeep(t) PROVE FALSE
  BY <1>1, <1>8 DEF QueryAcquired, PruneKeep
<1>13. ASSUME NEW t \in Threads, QueryAcquiredFails(t) PROVE Justified(i)
  BY <1>13 DEF QueryAcquiredFails, Justified
<1>9. ASSUME NEW t \in Threads, Acquire(t) \/ MountNoIndex(t) PROVE FALSE
  BY <1>1, <1>9 DEF Acquire, QueryAvailable, QueryAvailableFails, Return, AcquireUsbIf, AcquireUsbIfFails,
                    Setup, SetupFails, LunsExhausted, CloseUsbIf, MountNoIndex
<1>10. ASSUME NEW t \in Threads, Wake(t) \/ DoUpdateDrives(t) \/ Lock(t) PROVE FALSE
  BY <1>1, <1>10 DEF Wake, WakeStateChange, WakeAvailable, DoUpdateDrives, Lock
<1>11. ASSUME Environment PROVE FALSE
  BY <1>1, <1>11 DEF Environment, Plug, Unplug
<1>12. ASSUME UNCHANGED vars PROVE FALSE
  BY <1>1, <1>12 DEF vars
<1> QED
  BY <1>2, <1>3, <1>5, <1>6, <1>7, <1>8, <1>9, <1>10, <1>11, <1>12, <1>13 DEF Next, UpdateDrives, Prune, Mount

\* A mounted drive only goes when its device is gone, usb:hs did not answer, or its
\* answer filled iface_block without it, however old the snapshot.
THEOREM DropsJustified == Spec => DropOnlyUnplugged
<1>1. Init => DisposedInv /\ SnapshotInv
  BY DEF Init, DisposedInv, SnapshotInv
<1>2. IInv /\ DisposedInv /\ [Next]_vars => DisposedInv'
  BY DisposedStep
<1>3. IInv /\ SnapshotInv /\ [Next]_vars => SnapshotInv'
  BY SnapshotStep
<1>4. IInv /\ DisposedInv /\ SnapshotInv /\ [Next]_vars =>
        [\A i \in Ifaces : drive[i].mounted /\ ~drive'[i].mounted => Justified(i)]_vars
  BY DropStep
<1> QED
  BY Invariance, <1>1, <1>2, <1>3, <1>4, PTL DEF Spec, DropOnlyUnplugged, Justified
=============================================================================
