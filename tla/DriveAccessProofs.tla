--------------------------- MODULE DriveAccessProofs ---------------------------
(***************************************************************************)
(* Theorems about DriveAccess, for any number of drives, heap blocks and   *)
(* volume ids: where the paths of a session lead, what the id check of     *)
(* validate lets through, and whose sectors are reached without the lock.  *)
(***************************************************************************)
EXTENDS DriveAccess, Integers, TLAPS

\* A listed drive is alive in a block of its own, and the FATFS in it is the one
\* registered at its index, mounted there.
Housed ==
    \A v \in Volumes : slot[v] \in Drives =>
        /\ block[slot[v]] \in Blocks
        /\ FatFs[v] = block[slot[v]]
        /\ mem[block[slot[v]]].on
        /\ mem[block[slot[v]]].pdrv = v

Apart ==
    \A v, w \in Volumes :
        slot[v] \in Drives /\ slot[w] \in Drives /\ block[slot[v]] = block[slot[w]] => v = w

\* The id of a FATFS is what a WORD keeps of the number of its mount.
Numbered ==
    \A b \in Blocks :
        /\ mem[b].mount =< fsid
        /\ mem[b].on => mem[b].id = mem[b].mount % IdWord

\* A session was opened on a listed drive; as long as it stays listed, it is at
\* the index the session remembers.
Sessions ==
    \A d \in Drives : session[d] \in Volumes =>
        /\ block[d] \in Blocks
        /\ \A v \in Volumes : slot[v] = d => v = session[d]

\* A FIL points to the block of its own drive.  A FATFS found there is not older
\* than the FIL; if it is the same mount, its index is the drive's or lost.
HandleOwn ==
    /\ handle # Closed => handle.drive \in Drives /\ block[handle.drive] \in Blocks
    /\ handle.block # Null =>
        /\ handle # Closed
        /\ handle.block = block[handle.drive]
        /\ handle.mount =< fsid
        /\ handle.id = handle.mount % IdWord
        /\ mem[handle.block].on =>
            /\ handle.mount =< mem[handle.block].mount
            /\ mem[handle.block].mount = handle.mount =>
                   slot[mem[handle.block].pdrv] \in {handle.drive, Lost}

SessionSteps == {"body", "opendir", "readdir", "unlink", "closedir"}
MountSteps == {"type", "mount", "initialize", "remount"}   \* of labels only
AnewSteps == {"mount", "initialize", "remount"}
VolumeSteps == {"pdrv", "status", "io", "sector"}          \* of labels and files
Placed == {"status", "sector"}                             \* with an index read

\* What a command relies on at its steps.
StepTypes ==
    /\ op.step # "idle" => op.drive \in Drives
    /\ op.step \notin {"idle", "check"} => block[op.drive] \in Blocks
    /\ op.step \in SessionSteps => session[op.drive] \in Volumes
    /\ op.step = "check" /\ op.kind \in {"path", "open", "clean"} =>
           session[op.drive] \in Volumes
    /\ op.step = "check" => op.kind \in Kinds
    /\ op.step \in {"check", "validate"} /\ op.kind \in {"file", "close"} =>
           handle # Closed /\ op.drive = handle.drive
    /\ op.step = "validate" => op.kind \in {"file", "close"}
    /\ op.step = "label" => op.kind = "label"
    /\ op.step = "index" => op.kind \in {"openfs", "label"}
    /\ op.step \in MountSteps => op.kind = "label" /\ op.fs \in Blocks /\ op.vol \in Volumes
    /\ op.step \in VolumeSteps =>
        /\ op.fs \in Blocks
        /\ op.kind \in {"label", "file", "close"}
        /\ op.kind = "label" => op.vol \in Volumes
        /\ op.kind # "label" => handle # Closed /\ op.drive = handle.drive

\* While the drive of a command is in the list, what FatFs has read of it is so.
StepsOwn ==
    /\ op.step = "label" /\ Listed(op.drive) => op.vol \in Volumes /\ slot[op.vol] = op.drive
    /\ op.step \in {"type"} \union VolumeSteps /\ Listed(op.drive) => op.fs = block[op.drive]
    /\ op.step \in Placed /\ Listed(op.drive) => slot[op.pdrv] = op.drive
    /\ op.step \in AnewSteps => ~Listed(op.drive)

Steps == StepTypes /\ StepsOwn

IInv == TypeOK /\ Housed /\ Apart /\ Numbered /\ Sessions /\ HandleOwn /\ Steps

-----------------------------------------------------------------------------
\* The index of a listed drive.
LEMMA IndexOfListed ==
    ASSUME NEW d \in Drives, Listed(d)
    PROVE  IndexOf(d) \in Volumes /\ slot[IndexOf(d)] = d
BY DEF Listed, IndexOf

LEMMA IndexOfType ==
    ASSUME NEW d \in Drives
    PROVE  IndexOf(d) \in Volumes \union {Null}
BY DEF Listed, IndexOf

\* A session leads to its drive.
LEMMA SessionLeads ==
    ASSUME Sessions, NEW d \in Drives, session[d] \in Volumes, Listed(d)
    PROVE  slot[session[d]] = d
BY DEF Sessions, Listed

\* A FATFS that is registered leads disk_read to the drive it lives in.
LEMMA OwnReached ==
    ASSUME IInv, NEW d \in Drives, Listed(d)
    PROVE  /\ block[d] \in Blocks /\ mem[block[d]].on
           /\ slot[mem[block[d]].pdrv] = d
BY DEF IInv, Housed, Listed

LEMMA RegisteredOwn ==
    ASSUME IInv, NEW v \in Volumes, slot[v] \in Drives
    PROVE  /\ FatFs[v] = block[slot[v]] /\ FatFs[v] \in Blocks /\ FatFs[v] # Null
           /\ mem[FatFs[v]].on /\ Reached(FatFs[v]) = slot[v]
BY ConstantsAssumption DEF IInv, Housed, Reached

\* Numbers less than W apart that leave the same remainder are the same.
LEMMA SameNumber ==
    ASSUME NEW W \in Nat \ {0}, NEW a \in Nat, NEW b \in Nat,
           a =< b, b - a < W, a % W = b % W
    PROVE  a = b
<1> DEFINE q == a \div W  r == b \div W
<1>1. /\ q \in Nat /\ r \in Nat /\ (a % W) \in Nat
      /\ a = W * q + (a % W) /\ b = W * r + (b % W)
  OBVIOUS
<1> HIDE DEF q, r
<1>2. b - a = W * (r - q)
  BY <1>1
<1>3. CASE r - q =< -1
  BY <1>1, <1>2, <1>3
<1>4. CASE r - q >= 1
  BY <1>1, <1>2, <1>4
<1>5. CASE r = q
  BY <1>1, <1>2, <1>5
<1> QED BY <1>1, <1>3, <1>4, <1>5

\* ids are natural numbers.
LEMMA IdNat ==
    ASSUME NEW n \in Nat
    PROVE  n % IdWord \in Nat
BY ConstantsAssumption

LEMMA InitIInv == Init => IInv
<1> SUFFICES ASSUME Init PROVE IInv
  OBVIOUS
<1> USE ConstantsAssumption
<1>1. /\ Idle \in Operations /\ Closed \in Handles /\ Idle.step = "idle" /\ Closed.block = Null
  BY DEF Idle, Closed, Operations, Handles, Volumes
<1>2. slot = [v \in Volumes |-> Null]
  BY DEF Init, Table!Init
<1>3. \A v \in Volumes : slot[v] \notin Drives
  BY <1>2
<1>4. TypeOK
  <2>1. /\ slot \in [Volumes -> Drives \union {Null, Lost}]
        /\ block \in [Drives -> Blocks \union {Null}]
        /\ FatFs \in [Volumes -> Blocks \union {Null}]
        /\ session \in [Drives -> Volumes \union {Null}]
        /\ plug \in [Drives -> {"new", "in", "out"}]
    BY <1>2 DEF Init
  <2>2. mem \in [Blocks -> [on : BOOLEAN, id : Nat, pdrv : Volumes, mount : Nat]] /\ fsid \in Nat
    BY DEF Init, Zeroed, Volumes
  <2> QED BY <1>1, <2>1, <2>2 DEF Init, TypeOK, Touches
<1>5. Numbered
  BY DEF Init, Numbered, Zeroed
<1>6. Housed /\ Apart /\ Sessions /\ HandleOwn
  BY <1>1, <1>3 DEF Init, Housed, Apart, Sessions, HandleOwn
<1>7. Steps
  BY <1>1
  DEF Init, Steps, StepTypes, StepsOwn, SessionSteps, MountSteps, AnewSteps, VolumeSteps, Placed
<1> QED
  BY <1>4, <1>5, <1>6, <1>7 DEF IInv

-----------------------------------------------------------------------------
\* The manager's steps leave the command alone; of what it relies on, they can
\* only change which drives are listed, and where.
LEMMA StepsKept ==
    ASSUME Steps, UNCHANGED <<session, handle, op>>,
           \A d \in Drives : block[d] \in Blocks => block'[d] = block[d],
           op.step \notin {"idle", "check"} /\ Listed(op.drive)' =>
               /\ Listed(op.drive)
               /\ \A v \in Volumes : slot[v] = op.drive => slot'[v] = op.drive,
           op \in Operations
    PROVE  Steps'
<1>1. StepTypes'
  BY DEF Steps, StepTypes, SessionSteps, MountSteps, VolumeSteps
<1>2. op.pdrv \in Volumes
  BY DEF Operations
<1>3. op.step = "label" /\ Listed(op.drive)' => op.vol \in Volumes /\ slot'[op.vol] = op.drive
  BY DEF Steps, StepsOwn
<1>4. /\ op.step \in {"type"} \union VolumeSteps => op.step \notin {"idle", "check"}
      /\ op.step \in Placed \union AnewSteps => op.step \notin {"idle", "check"}
  BY DEF VolumeSteps, Placed, AnewSteps
<1>5. op.step \in {"type"} \union VolumeSteps /\ Listed(op.drive)' => op.fs = block'[op.drive]
  BY <1>4 DEF Steps, StepsOwn, StepTypes
<1>6. op.step \in Placed /\ Listed(op.drive)' => slot'[op.pdrv] = op.drive
  BY <1>2, <1>4 DEF Steps, StepsOwn
<1>7. op.step \in AnewSteps => ~Listed(op.drive)'
  BY <1>4 DEF Steps, StepsOwn
<1>8. StepsOwn'
  BY <1>3, <1>5, <1>6, <1>7 DEF StepsOwn
<1> QED BY <1>1, <1>8 DEF Steps

\* Plugging and unplugging do not touch what the program knows.
LEMMA PlugSteps ==
    ASSUME IInv, NEW d \in Drives, Plug(d) \/ Unplug(d)
    PROVE  IInv'
<1>1. UNCHANGED <<slot, block, mem, FatFs, fsid, session, handle, op, result, served, touched>>
  BY DEF Plug, Unplug, command
<1>2. plug' \in [Drives -> {"new", "in", "out"}]
  BY DEF Plug, Unplug, IInv, TypeOK
<1>3. TypeOK'
  BY <1>1, <1>2 DEF IInv, TypeOK
<1>4. Housed' /\ Apart' /\ Numbered' /\ Sessions' /\ HandleOwn'
  BY <1>1 DEF IInv, Housed, Apart, Numbered, Sessions, HandleOwn
<1>5. Steps'
  BY <1>1 DEF IInv, Steps, StepTypes, StepsOwn, Listed
<1> QED BY <1>3, <1>4, <1>5 DEF IInv

LEMMA MountedFsType ==
    ASSUME NEW v \in Volumes, fsid \in Nat
    PROVE  /\ MountedFs(v) \in [on : BOOLEAN, id : Nat, pdrv : Volumes, mount : Nat]
           /\ MountedFs(v).on /\ MountedFs(v).pdrv = v /\ MountedFs(v).mount = fsid + 1
           /\ MountedFs(v).id = (fsid + 1) % IdWord
<1>1. fsid + 1 \in Nat /\ NextId \in Nat /\ NextId = (fsid + 1) % IdWord
  BY IdNat DEF NextId
<1> QED BY <1>1 DEF MountedFs

LEMMA AttachStep ==
    ASSUME IInv, NEW d \in Drives, Attach(d)
    PROVE  IInv'
<1> USE ConstantsAssumption
<1> PICK v \in Volumes, b \in Blocks :
        /\ block[d] = Null
        /\ slot[v] = Null
        /\ \A w \in Volumes : slot[w] # d
        /\ slot' = [slot EXCEPT ![v] = d]
        /\ \A e \in Drives : Listed(e) => block[e] # b
        /\ block' = [block EXCEPT ![d] = b]
        /\ mem' = [mem EXCEPT ![b] = MountedFs(v)]
        /\ FatFs' = [FatFs EXCEPT ![v] = b]
        /\ fsid' = fsid + 1
        /\ UNCHANGED <<plug, session, handle, op, result, served, touched>>
  BY DEF Attach, Table!Claim, command
<1>1. /\ TypeOK /\ Housed /\ Apart /\ Numbered /\ Sessions /\ HandleOwn /\ Steps
  BY DEF IInv
<1>2. /\ slot \in [Volumes -> Drives \union {Null, Lost}]
      /\ block \in [Drives -> Blocks \union {Null}]
      /\ mem \in [Blocks -> [on : BOOLEAN, id : Nat, pdrv : Volumes, mount : Nat]]
      /\ FatFs \in [Volumes -> Blocks \union {Null}]
      /\ fsid \in Nat /\ fsid' \in Nat /\ handle \in Handles
  BY <1>1 DEF TypeOK
<1>3. /\ slot'[v] = d /\ \A w \in Volumes : w # v => slot'[w] = slot[w]
      /\ block'[d] = b /\ \A e \in Drives : e # d => block'[e] = block[e]
      /\ mem'[b] = MountedFs(v) /\ \A c \in Blocks : c # b => mem'[c] = mem[c]
      /\ FatFs'[v] = b /\ \A w \in Volumes : w # v => FatFs'[w] = FatFs[w]
  BY <1>2
<1>4. \A w \in Volumes : w # v /\ slot[w] \in Drives =>
          /\ slot[w] # d /\ block'[slot[w]] = block[slot[w]] /\ block[slot[w]] # b
  BY <1>3 DEF Listed
<1>5. /\ mem'[b] \in [on : BOOLEAN, id : Nat, pdrv : Volumes, mount : Nat]
      /\ mem'[b].on /\ mem'[b].pdrv = v /\ mem'[b].mount = fsid + 1
      /\ mem'[b].id = (fsid + 1) % IdWord
  BY <1>2, <1>3, MountedFsType
<1>6. TypeOK'
  <2>1. /\ slot' \in [Volumes -> Drives \union {Null, Lost}]
        /\ block' \in [Drives -> Blocks \union {Null}]
        /\ FatFs' \in [Volumes -> Blocks \union {Null}]
    BY <1>2
  <2>2. mem' \in [Blocks -> [on : BOOLEAN, id : Nat, pdrv : Volumes, mount : Nat]]
    BY <1>2, <1>3, <1>5
  <2> QED BY <1>1, <1>2, <2>1, <2>2 DEF TypeOK
<1>7. Housed'
  <2> SUFFICES ASSUME NEW w \in Volumes, slot'[w] \in Drives
               PROVE  /\ block'[slot'[w]] \in Blocks
                      /\ FatFs'[w] = block'[slot'[w]]
                      /\ mem'[block'[slot'[w]]].on
                      /\ mem'[block'[slot'[w]]].pdrv = w
    BY DEF Housed
  <2>1. CASE w = v
    BY <1>3, <1>5, <2>1
  <2>2. CASE w # v
    <3>1. /\ block[slot[w]] \in Blocks /\ mem[block[slot[w]]].pdrv = w
          /\ FatFs[w] = block[slot[w]] /\ mem[block[slot[w]]].on
      BY <1>1, <1>3, <2>2 DEF Housed
    <3>2. /\ mem'[block'[slot'[w]]] = mem[block[slot[w]]] /\ block'[slot'[w]] = block[slot[w]]
          /\ FatFs'[w] = FatFs[w]
      BY <1>3, <1>4, <2>2, <3>1
    <3> QED BY <3>1, <3>2
  <2> QED BY <2>1, <2>2
<1>8. Apart'
  BY <1>1, <1>3, <1>4 DEF Apart
<1>9. Numbered'
  <2> SUFFICES ASSUME NEW c \in Blocks
               PROVE  /\ mem'[c].mount =< fsid'
                      /\ mem'[c].on => mem'[c].id = mem'[c].mount % IdWord
    BY DEF Numbered
  <2>1. CASE c = b
    BY <1>2, <1>5, <2>1
  <2>2. CASE c # b
    <3>1. mem'[c] = mem[c] /\ mem[c].mount \in Nat /\ mem[c].mount =< fsid
      BY <1>1, <1>2, <1>3, <2>2 DEF Numbered
    <3>2. mem[c].on => mem[c].id = mem[c].mount % IdWord
      BY <1>1 DEF Numbered
    <3> QED BY <1>2, <3>1, <3>2
  <2> QED BY <2>1, <2>2
<1>10. Sessions'
  <2> SUFFICES ASSUME NEW e \in Drives, session[e] \in Volumes
               PROVE  /\ block'[e] \in Blocks
                      /\ \A w \in Volumes : slot'[w] = e => w = session[e]
    BY DEF Sessions
  <2>1. block[e] \in Blocks /\ e # d
    BY <1>1 DEF Sessions
  <2> QED BY <1>1, <1>3, <2>1 DEF Sessions
<1>11. HandleOwn'
  <2>1. handle # Closed => handle.drive \in Drives /\ block'[handle.drive] \in Blocks
    BY <1>1, <1>3 DEF HandleOwn
  <2>2. ASSUME handle.block # Null
        PROVE  /\ handle # Closed /\ handle.block = block'[handle.drive]
               /\ handle.mount =< fsid' /\ handle.id = handle.mount % IdWord
    <3>1. /\ handle # Closed /\ handle.block = block[handle.drive]
          /\ handle.mount =< fsid /\ handle.id = handle.mount % IdWord
          /\ handle.drive \in Drives /\ handle.mount \in Nat
      BY <1>1, <1>2, <2>2 DEF HandleOwn, Handles
    <3>2. handle.drive # d /\ block'[handle.drive] = block[handle.drive]
      BY <1>3, <2>2, <3>1
    <3>3. handle.mount =< fsid'
      BY <1>2, <3>1
    <3> QED BY <3>1, <3>2, <3>3
  <2>3. ASSUME handle.block # Null, mem'[handle.block].on
        PROVE  /\ handle.mount =< mem'[handle.block].mount
               /\ mem'[handle.block].mount = handle.mount =>
                      slot'[mem'[handle.block].pdrv] \in {handle.drive, Lost}
    <3>1. /\ handle.block \in Blocks /\ handle.mount \in Nat /\ handle.mount =< fsid
          /\ handle.drive \in Drives
      BY <1>1, <1>2, <2>3 DEF HandleOwn, Handles
    <3>2. CASE handle.block = b
      BY <1>2, <1>5, <3>1, <3>2
    <3>3. CASE handle.block # b
      <4>1. mem'[handle.block] = mem[handle.block]
        BY <1>3, <3>1, <3>3
      <4>2. /\ handle.mount =< mem[handle.block].mount
            /\ mem[handle.block].mount = handle.mount =>
                   slot[mem[handle.block].pdrv] \in {handle.drive, Lost}
        BY <1>1, <2>3, <4>1 DEF HandleOwn
      <4>3. mem[handle.block].pdrv \in Volumes
        BY <1>2, <3>1
      <4>4. slot[mem[handle.block].pdrv] \in {handle.drive, Lost} => mem[handle.block].pdrv # v
        BY <3>1
      <4> QED BY <1>3, <4>1, <4>2, <4>3, <4>4
    <3> QED BY <3>2, <3>3
  <2> QED BY <2>1, <2>2, <2>3 DEF HandleOwn
<1>12. Steps'
  <2>1. op.step \notin {"idle", "check"} => op.drive \in Drives /\ op.drive # d
    BY <1>1 DEF Steps, StepTypes
  <2>2. op.step \notin {"idle", "check"} /\ Listed(op.drive)' =>
            /\ Listed(op.drive)
            /\ \A w \in Volumes : slot[w] = op.drive => slot'[w] = op.drive
    BY <1>3, <2>1 DEF Listed
  <2>3. \A e \in Drives : block[e] \in Blocks => block'[e] = block[e]
    BY <1>3
  <2> QED BY <1>1, <2>2, <2>3, StepsKept DEF TypeOK
<1> QED BY <1>6, <1>7, <1>8, <1>9, <1>10, <1>11, <1>12 DEF IInv

LEMMA DropStep ==
    ASSUME IInv, NEW d \in Drives, Drop(d)
    PROVE  IInv'
<1> USE ConstantsAssumption
<1> PICK v \in Volumes :
        /\ slot[v] = d
        /\ slot' = [slot EXCEPT ![v] = Null]
        /\ mem' = [mem EXCEPT ![block[d]] = Zeroed]
        /\ FatFs' = [FatFs EXCEPT ![v] = Null]
        /\ UNCHANGED <<plug, block, fsid, session, handle, op, result, served, touched>>
  BY DEF Drop, Table!Release, command
<1>1. /\ TypeOK /\ Housed /\ Apart /\ Numbered /\ Sessions /\ HandleOwn /\ Steps
  BY DEF IInv
<1>2. /\ slot \in [Volumes -> Drives \union {Null, Lost}]
      /\ block \in [Drives -> Blocks \union {Null}]
      /\ mem \in [Blocks -> [on : BOOLEAN, id : Nat, pdrv : Volumes, mount : Nat]]
      /\ FatFs \in [Volumes -> Blocks \union {Null}]
      /\ Zeroed \in [on : BOOLEAN, id : Nat, pdrv : Volumes, mount : Nat]
      /\ Zeroed.on = FALSE /\ Zeroed.mount = 0
      /\ block[d] \in Blocks /\ fsid \in Nat /\ handle \in Handles
  BY <1>1 DEF TypeOK, Zeroed, Volumes, Housed
<1>3. /\ slot'[v] = Null /\ \A w \in Volumes : w # v => slot'[w] = slot[w]
      /\ mem'[block[d]] = Zeroed
      /\ \A c \in Blocks : c # block[d] => mem'[c] = mem[c]
      /\ \A w \in Volumes : w # v => FatFs'[w] = FatFs[w]
  BY <1>2
<1>4. \A w \in Volumes : slot'[w] \in Drives =>
          /\ w # v /\ slot'[w] = slot[w] /\ slot[w] # d /\ block[slot[w]] # block[d]
  BY <1>1, <1>3 DEF Apart
<1>5. TypeOK'
  <2>1. /\ slot' \in [Volumes -> Drives \union {Null, Lost}]
        /\ FatFs' \in [Volumes -> Blocks \union {Null}]
        /\ mem' \in [Blocks -> [on : BOOLEAN, id : Nat, pdrv : Volumes, mount : Nat]]
    BY <1>2
  <2> QED BY <1>1, <2>1 DEF TypeOK
<1>6. Housed'
  BY <1>1, <1>3, <1>4 DEF Housed
<1>7. Apart' /\ Sessions'
  BY <1>1, <1>3, <1>4 DEF Apart, Sessions
<1>8. Numbered'
  <2> SUFFICES ASSUME NEW c \in Blocks
               PROVE  /\ mem'[c].mount =< fsid
                      /\ mem'[c].on => mem'[c].id = mem'[c].mount % IdWord
    BY DEF Numbered
  <2>1. CASE c = block[d]
    BY <1>2, <1>3, <2>1
  <2>2. CASE c # block[d]
    BY <1>1, <1>3, <2>2 DEF Numbered
  <2> QED BY <2>1, <2>2
<1>9. HandleOwn'
  <2>1. ASSUME handle.block # Null, mem'[handle.block].on
        PROVE  /\ handle.mount =< mem'[handle.block].mount
               /\ mem'[handle.block].mount = handle.mount =>
                      slot'[mem'[handle.block].pdrv] \in {handle.drive, Lost}
    <3>1. handle.block \in Blocks /\ handle.block # block[d] /\ handle.block = block[handle.drive]
      BY <1>1, <1>2, <1>3, <2>1 DEF HandleOwn, Handles
    <3>2. mem'[handle.block] = mem[handle.block] /\ mem[handle.block].pdrv \in Volumes
      BY <1>2, <1>3, <3>1
    <3>3. /\ handle.mount =< mem[handle.block].mount
          /\ mem[handle.block].mount = handle.mount =>
                 slot[mem[handle.block].pdrv] \in {handle.drive, Lost}
      BY <1>1, <2>1, <3>2 DEF HandleOwn
    <3>4. handle.drive # d /\ Lost # d
      BY <3>1
    <3>5. slot[mem[handle.block].pdrv] \in {handle.drive, Lost} => mem[handle.block].pdrv # v
      BY <3>4
    <3> QED BY <1>3, <3>2, <3>3, <3>5
  <2> QED BY <1>1, <2>1 DEF HandleOwn
<1>10. Steps'
  <2>1. ASSUME op.step \notin {"idle", "check"}, Listed(op.drive)'
        PROVE  /\ Listed(op.drive)
               /\ \A w \in Volumes : slot[w] = op.drive => slot'[w] = op.drive
    <3>1. op.drive \in Drives
      BY <1>1, <2>1 DEF Steps, StepTypes
    <3>2. PICK w \in Volumes : slot'[w] = op.drive
      BY <2>1 DEF Listed
    <3>3. slot[w] = op.drive /\ op.drive # d
      BY <1>4, <3>1, <3>2
    <3> QED BY <1>3, <3>3 DEF Listed
  <2> QED BY <1>1, <2>1, StepsKept DEF TypeOK
<1> QED BY <1>5, <1>6, <1>7, <1>8, <1>9, <1>10 DEF IInv

LEMMA LoseStep ==
    ASSUME IInv, LoseAll
    PROVE  IInv'
<1> USE ConstantsAssumption
<1>1. /\ TypeOK /\ Housed /\ Apart /\ Numbered /\ Sessions /\ HandleOwn /\ Steps
  BY DEF IInv
<1>2. /\ slot' = [v \in Volumes |-> IF slot[v] \in Drives THEN Lost ELSE slot[v]]
      /\ UNCHANGED <<plug, block, mem, FatFs, fsid, session, handle, op, result, served, touched>>
  BY DEF LoseAll, Table!Lose, command
<1>3. slot \in [Volumes -> Drives \union {Null, Lost}]
  BY <1>1 DEF TypeOK
<1>4. \A v \in Volumes : slot'[v] \notin Drives
  BY <1>2, <1>3
<1>5. TypeOK'
  BY <1>1, <1>2, <1>3 DEF TypeOK
<1>6. Housed' /\ Apart' /\ Numbered' /\ Sessions'
  BY <1>1, <1>2, <1>4 DEF Housed, Apart, Numbered, Sessions
<1>7. HandleOwn'
  <2>1. ASSUME handle.block # Null, slot[mem[handle.block].pdrv] \in {handle.drive, Lost}
        PROVE  slot'[mem[handle.block].pdrv] \in {handle.drive, Lost}
    <3>1. /\ handle.block \in Blocks /\ handle.drive \in Drives
          /\ mem[handle.block].pdrv \in Volumes
      BY <1>1, <2>1 DEF HandleOwn, Handles, TypeOK
    <3> QED BY <1>2, <2>1, <3>1
  <2> QED BY <1>1, <1>2, <2>1 DEF HandleOwn
<1>8. Steps'
  <2>1. op.step \notin {"idle", "check"} => ~Listed(op.drive)'
    <3>1. op.step \notin {"idle", "check"} => op.drive \in Drives
      BY <1>1 DEF Steps, StepTypes
    <3> QED BY <1>2, <1>4, <3>1 DEF Listed
  <2> QED BY <1>1, <1>2, <2>1, StepsKept DEF TypeOK
<1> QED BY <1>5, <1>6, <1>7, <1>8 DEF IInv

-----------------------------------------------------------------------------
\* Most steps of the IPC thread leave the manager's part alone; what is left to
\* show is the rest of the invariant.
Rest ==
    /\ session \in [Drives -> Volumes \union {Null}]
    /\ handle \in Handles
    /\ op \in Operations
    /\ result \in {"none", "ok", "error", "invalid", "unavailable"}
    /\ served \in BOOLEAN
    /\ touched \in Touches

LEMMA IpcStep ==
    ASSUME IInv, UNCHANGED manager, Rest', Sessions', HandleOwn', Steps'
    PROVE  IInv'
BY DEF IInv, TypeOK, Rest, Housed, Apart, Numbered, manager

\* Between commands nothing is relied on, ...
LEMMA IdleSteps ==
    ASSUME op'.step = "idle"
    PROVE  Steps'
BY DEF Steps, StepTypes, StepsOwn, SessionSteps, MountSteps, AnewSteps, VolumeSteps, Placed

LEMMA AstraySteps ==
    ASSUME op'.step = "astray", op'.drive \in Drives, block'[op'.drive] \in Blocks
    PROVE  Steps'
BY DEF Steps, StepTypes, StepsOwn, SessionSteps, MountSteps, AnewSteps, VolumeSteps, Placed

\* ... and inside a filesystem command the session only.
LEMMA SessionStepsKept ==
    ASSUME IInv, UNCHANGED <<manager, session>>, op.step \notin {"idle", "check"} \/ block[op.drive] \in Blocks,
           op.drive \in Drives, session[op.drive] \in Volumes,
           op'.step \in SessionSteps, op'.drive = op.drive
    PROVE  Steps'
<1>1. block'[op'.drive] \in Blocks
  BY DEF IInv, Steps, StepTypes, manager
<1> QED
  BY <1>1
  DEF Steps, StepTypes, StepsOwn, SessionSteps, MountSteps, AnewSteps, VolumeSteps, Placed

LEMMA ReturnFacts ==
    ASSUME NEW r, Return(r)
    PROVE  op' = Idle /\ op' \in Operations /\ op'.step = "idle" /\ result' = r
BY ConstantsAssumption DEF Return, Idle, Operations, Volumes

\* The end of a command that leaves sessions and files alone.
LEMMA ReturnStep ==
    ASSUME IInv, UNCHANGED <<manager, session, handle>>,
           NEW r \in {"ok", "error", "invalid", "unavailable"}, Return(r),
           served' \in BOOLEAN, touched' \in Touches
    PROVE  IInv'
<1>1. op' \in Operations /\ op'.step = "idle" /\ result' = r
  BY ReturnFacts
<1>2. Rest'
  BY <1>1 DEF Rest, IInv, TypeOK
<1>3. Sessions' /\ HandleOwn'
  BY DEF IInv, Sessions, HandleOwn, manager
<1>4. Steps'
  BY <1>1, IdleSteps
<1> QED BY <1>2, <1>3, <1>4, IpcStep

\* The end of a command of a file, or of one that leaves files alone.
LEMMA FinishStep ==
    ASSUME IInv, UNCHANGED <<manager, session>>,
           NEW r \in {"ok", "error", "invalid"}, Finish(r),
           served' \in BOOLEAN, touched' \in Touches
    PROVE  IInv'
<1>1. Closed \in Handles /\ Closed.block = Null
  BY DEF Closed, Handles
<1>2. handle' \in {handle, Closed} /\ Return(r)
  BY DEF Finish
<1>3. CASE handle' = handle
  BY <1>2, <1>3, ReturnStep
<1>4. CASE handle' = Closed
  <2>1. Rest'
    BY <1>1, <1>2, <1>4, ReturnFacts DEF Rest, IInv, TypeOK
  <2>2. Sessions' /\ HandleOwn'
    BY <1>1, <1>4 DEF IInv, TypeOK, Sessions, HandleOwn, manager
  <2>3. op'.step = "idle"
    BY <1>2, ReturnFacts
  <2>4. Steps'
    BY <2>3, IdleSteps
  <2> QED BY <2>1, <2>2, <2>4, IpcStep
<1> QED BY <1>2, <1>3, <1>4

\* A step inside a command that leaves sessions and files alone.
LEMMA InnerStep ==
    ASSUME IInv, UNCHANGED <<manager, session, handle, result>>,
           op' \in Operations, Steps', served' \in BOOLEAN, touched' \in Touches
    PROVE  IInv'
<1>1. Rest'
  BY DEF Rest, IInv, TypeOK
<1>2. Sessions' /\ HandleOwn'
  BY DEF IInv, Sessions, HandleOwn, manager
<1> QED BY <1>1, <1>2, IpcStep

\* What a section of the lock does to the history.
LEMMA SectionFacts ==
    ASSUME IInv, op.step \in SessionSteps, Serve \/ Skip
    PROVE  /\ op.drive \in Drives /\ session[op.drive] \in Volumes /\ block[op.drive] \in Blocks
           /\ served' \in BOOLEAN /\ touched' \in Touches
           /\ Serve => touched' = <<"path", op.drive, op.drive>>
<1>1. op.drive \in Drives /\ session[op.drive] \in Volumes /\ block[op.drive] \in Blocks
  BY DEF IInv, Steps, StepTypes, SessionSteps
<1>2. Serve => slot[session[op.drive]] = op.drive
  BY <1>1, SessionLeads DEF IInv, Serve, InList
<1>3. CASE Serve
  <2>1. touched' = <<"path", op.drive, op.drive>>
    BY <1>1, <1>2, <1>3, RegisteredOwn DEF Serve
  <2> QED BY <1>1, <1>3, <2>1 DEF Serve, Touches
<1>4. CASE Skip
  <2>1. ~InList /\ served' = served /\ touched' = touched
    BY <1>4 DEF Skip
  <2>2. served \in BOOLEAN /\ touched \in Touches
    BY DEF IInv, TypeOK
  <2>3. ~Serve
    BY <2>1 DEF Serve
  <2> QED BY <1>1, <2>1, <2>2, <2>3
<1> QED BY <1>3, <1>4

StepNames == {"idle", "check", "index", "body", "opendir", "readdir", "unlink", "closedir",
              "label", "type", "mount", "initialize", "remount", "astray",
              "validate", "pdrv", "status", "io", "sector"}

LEMMA GotoFacts ==
    ASSUME IInv, NEW st \in StepNames, Goto(st)
    PROVE  /\ op' \in Operations /\ op'.step = st
           /\ op'.drive = op.drive /\ op'.kind = op.kind /\ op'.vol = op.vol
           /\ op'.fs = op.fs /\ op'.pdrv = op.pdrv
BY DEF IInv, TypeOK, Operations, Goto, StepNames

LEMMA BeginStep ==
    ASSUME IInv, NEW kind \in Kinds, NEW d \in Drives, Begin(kind, d),
           kind \in {"path", "open", "clean"} => session[d] # Null,
           kind \in {"file", "close"} => handle # Closed /\ d = handle.drive
    PROVE  IInv'
<1>1. /\ op' \in Operations /\ op'.step = "check" /\ op'.kind = kind /\ op'.drive = d
  <2>1. Idle \in Operations
    BY ConstantsAssumption DEF Idle, Operations, Volumes
  <2>2. op' = [Idle EXCEPT !.kind = kind, !.drive = d, !.step = "check"]
    BY DEF Begin
  <2> QED BY <2>1, <2>2 DEF Operations
<1>2. Rest'
  BY <1>1 DEF Begin, Rest, IInv, TypeOK, Touches
<1>3. Sessions' /\ HandleOwn' /\ UNCHANGED manager
  BY DEF Begin, IInv, Sessions, HandleOwn, manager
<1>4. kind \in {"path", "open", "clean"} => session[d] \in Volumes
  BY DEF IInv, TypeOK
<1>5. Steps'
  BY <1>1, <1>4
  DEF Begin, Steps, StepTypes, StepsOwn, SessionSteps, MountSteps, AnewSteps, VolumeSteps, Placed
<1> QED BY <1>2, <1>3, <1>5, IpcStep

LEMMA CommandStep ==
    ASSUME IInv, NEW d \in Drives, Command(d)
    PROVE  IInv'
BY BeginStep DEF Command, Kinds

LEMMA FileCommandStep ==
    ASSUME IInv, FileCommand
    PROVE  IInv'
<1>1. handle.drive \in Drives /\ handle # Closed
  BY DEF FileCommand, IInv, HandleOwn
<1> QED BY <1>1, BeginStep DEF FileCommand, Kinds

LEMMA CheckStep ==
    ASSUME IInv, Check
    PROVE  IInv'
<1>1. /\ op.step = "check" /\ UNCHANGED <<manager, session, handle, served, touched>>
      /\ op.kind \in {"openfs", "label", "path", "open", "clean", "file", "close"}
      /\ op.drive \in Drives
      /\ op.kind \in {"path", "open", "clean"} => session[op.drive] \in Volumes
      /\ op.kind \in {"file", "close"} => handle # Closed /\ op.drive = handle.drive
      /\ op.kind \in {"openfs", "label"} => op.kind # "close"
  BY DEF Check, IInv, Steps, StepTypes, Kinds
<1>2. served' \in BOOLEAN /\ touched' \in Touches
  BY <1>1 DEF IInv, TypeOK
<1>3. CASE Return("unavailable")
  BY <1>1, <1>2, <1>3, ReturnStep
<1>4. ASSUME op.kind = "close" \/ Listed(op.drive)
      PROVE  block[op.drive] \in Blocks
  BY <1>1, <1>4, OwnReached DEF IInv, HandleOwn
<1>5. ASSUME UNCHANGED result, op.kind = "close" \/ Listed(op.drive),
             NEW st \in {"index", "body", "opendir", "validate"}, Goto(st),
             st \in {"body", "opendir"} => op.kind \in {"path", "open", "clean"},
             st = "validate" => op.kind \in {"file", "close"},
             st = "index" => op.kind \in {"openfs", "label"}
      PROVE  IInv'
  <2>1. op' \in Operations /\ op'.step = st /\ op'.drive = op.drive /\ op'.kind = op.kind
    BY <1>5, GotoFacts DEF StepNames
  <2>2. block'[op'.drive] \in Blocks
    BY <1>1, <1>4, <1>5, <2>1 DEF manager
  <2>3. StepTypes'
    BY <1>1, <1>5, <2>1, <2>2 DEF StepTypes, SessionSteps, MountSteps, VolumeSteps
  <2>4. StepsOwn'
    BY <1>5, <2>1 DEF StepsOwn, AnewSteps, VolumeSteps, Placed
  <2> QED BY <1>1, <1>2, <1>5, <2>1, <2>3, <2>4, InnerStep DEF Steps
<1>6. CASE op.kind \in {"openfs", "label"}
  BY <1>1, <1>3, <1>5, <1>6 DEF Check
<1>7. CASE op.kind \in {"path", "open"}
  BY <1>1, <1>3, <1>5, <1>7 DEF Check
<1>8. CASE op.kind = "clean"
  BY <1>1, <1>3, <1>5, <1>8 DEF Check
<1>9. CASE op.kind \in {"file", "close"}
  BY <1>1, <1>3, <1>5, <1>9 DEF Check
<1> QED BY <1>1, <1>6, <1>7, <1>8, <1>9

LEMMA LookUpStep ==
    ASSUME IInv, LookUp
    PROVE  IInv'
<1>1. /\ op.step = "index" /\ op.drive \in Drives /\ block[op.drive] \in Blocks
      /\ op.kind \in {"openfs", "label"}
      /\ UNCHANGED <<manager, handle, served, touched>>
      /\ served' \in BOOLEAN /\ touched' \in Touches
  BY DEF LookUp, IInv, Steps, StepTypes, TypeOK
<1>2. CASE session' = [session EXCEPT ![op.drive] = IndexOf(op.drive)] /\ Return("ok")
  <2>1. IndexOf(op.drive) \in Volumes \union {Null}
    BY <1>1, IndexOfType
  <2>2. session' \in [Drives -> Volumes \union {Null}]
    BY <1>2, <2>1 DEF IInv, TypeOK
  <2>3. Rest'
    BY <1>1, <1>2, <2>2, ReturnFacts DEF Rest, IInv, TypeOK
  <2>4. Sessions'
    <3> SUFFICES ASSUME NEW d \in Drives, session'[d] \in Volumes
                 PROVE  /\ block[d] \in Blocks
                        /\ \A v \in Volumes : slot[v] = d => v = session'[d]
      BY <1>1 DEF Sessions, manager
    <3>1. CASE d # op.drive
      BY <1>2, <3>1 DEF IInv, TypeOK, Sessions
    <3>2. CASE d = op.drive
      <4>1. session'[d] = IndexOf(d)
        BY <1>2, <3>2 DEF IInv, TypeOK
      <4>2. Listed(d)
        BY <4>1, ConstantsAssumption DEF IndexOf
      <4>3. slot[IndexOf(d)] = d /\ IndexOf(d) \in Volumes
        BY <4>2, IndexOfListed
      <4> QED BY <4>1, <4>3 DEF IInv, Housed, Apart
    <3> QED BY <3>1, <3>2
  <2>5. HandleOwn'
    BY <1>1 DEF IInv, HandleOwn, manager
  <2>6. op'.step = "idle"
    BY <1>2, ReturnFacts
  <2>7. Steps'
    BY <2>6, IdleSteps
  <2> QED BY <1>1, <2>3, <2>4, <2>5, <2>7, IpcStep
<1>3. CASE /\ op.kind # "openfs"
           /\ op' = [op EXCEPT !.step = "label", !.vol = IndexOf(op.drive)]
           /\ UNCHANGED <<session, result>>
  <2>1. IndexOf(op.drive) \in Volumes \union {Null}
    BY <1>1, IndexOfType
  <2>2. /\ op' \in Operations /\ op'.step = "label" /\ op'.drive = op.drive
        /\ op'.vol = IndexOf(op.drive) /\ op'.kind = "label"
    BY <1>1, <1>3, <2>1 DEF IInv, TypeOK, Operations
  <2>3. Listed(op.drive)' => op'.vol \in Volumes /\ slot'[op'.vol] = op'.drive
    <3>1. Listed(op.drive)' => Listed(op.drive)
      BY <1>1, <2>2 DEF manager, Listed
    <3> QED BY <1>1, <2>2, <3>1, IndexOfListed DEF manager
  <2>4. block'[op'.drive] \in Blocks
    BY <1>1, <2>2 DEF manager
  <2>5. Steps'
    BY <1>1, <2>2, <2>3, <2>4
    DEF Steps, StepTypes, StepsOwn, SessionSteps, MountSteps, AnewSteps, VolumeSteps, Placed
  <2> QED BY <1>1, <1>3, <2>2, <2>5, InnerStep
<1> QED BY <1>2, <1>3 DEF LookUp

\* The FIL of an open is that of the drive's own FATFS, as it is mounted now.
LEMMA PathBodyStep ==
    ASSUME IInv, PathBody
    PROVE  IInv'
<1>1. /\ op.step = "body" /\ op.step \in SessionSteps
      /\ UNCHANGED <<manager, session>> /\ (Serve \/ Skip)
  BY DEF PathBody, SessionSteps
<1>2. /\ served' \in BOOLEAN /\ touched' \in Touches
      /\ op.drive \in Drives /\ session[op.drive] \in Volumes /\ block[op.drive] \in Blocks
  BY <1>1, SectionFacts
<1>3. ASSUME UNCHANGED handle, NEW r \in {"ok", "error"}, Return(r)
      PROVE  IInv'
  BY <1>1, <1>2, <1>3, ReturnStep
<1>4. ASSUME Return("ok"), handle' \in Handles, HandleOwn'
      PROVE  IInv'
  <2>1. Rest'
    BY <1>1, <1>2, <1>4, ReturnFacts DEF Rest, IInv, TypeOK
  <2>2. Sessions'
    BY <1>1 DEF IInv, Sessions, manager
  <2>3. op'.step = "idle"
    BY <1>4, ReturnFacts
  <2>4. Steps'
    BY <2>3, IdleSteps
  <2> QED BY <1>1, <1>4, <2>1, <2>2, <2>4, IpcStep
<1>5. CASE /\ Serve /\ Return("ok")
           /\ handle' = NewFil(op.drive, FatFs[session[op.drive]])
  <2>1. slot[session[op.drive]] = op.drive
    BY <1>2, <1>5, SessionLeads DEF Serve, InList, IInv
  <2> DEFINE b == FatFs[session[op.drive]]
  <2>2. b = block[op.drive] /\ b \in Blocks /\ b # Null /\ mem[b].on
        /\ slot[mem[b].pdrv] = op.drive
    BY <1>2, <2>1, RegisteredOwn, OwnReached DEF Listed
  <2>3. /\ mem[b].mount =< fsid /\ mem[b].id = mem[b].mount % IdWord
        /\ mem[b].id \in Nat /\ mem[b].mount \in Nat
    BY <2>2 DEF IInv, Numbered, TypeOK
  <2>4. /\ handle' = [drive |-> op.drive, block |-> b, id |-> mem[b].id, mount |-> mem[b].mount]
    BY <1>5 DEF NewFil
  <2>5. /\ handle'.drive = op.drive /\ handle'.block = b /\ handle'.id = mem[b].id
        /\ handle'.mount = mem[b].mount /\ handle' \in Handles
    BY <1>2, <2>2, <2>3, <2>4 DEF Handles
  <2>6. handle' # Closed
    BY <2>2, <2>5 DEF Closed
  <2> HIDE DEF b
  <2>7. HandleOwn'
    BY <1>1, <1>2, <2>2, <2>3, <2>5, <2>6 DEF HandleOwn, manager
  <2> QED BY <1>4, <1>5, <2>5, <2>7
<1>6. CASE /\ Skip /\ Return("ok") /\ handle' = [Closed EXCEPT !.drive = op.drive]
  <2>1. handle' = [drive |-> op.drive, block |-> Null, id |-> 0, mount |-> 0]
    BY <1>6 DEF Closed
  <2>2. handle'.block = Null /\ handle'.drive = op.drive /\ handle' \in Handles
    BY <1>2, <2>1 DEF Handles
  <2>3. HandleOwn'
    BY <1>1, <1>2, <2>2 DEF HandleOwn, manager
  <2> QED BY <1>4, <1>6, <2>2, <2>3
<1> QED BY <1>3, <1>5, <1>6 DEF PathBody

LEMMA OpenDirStep ==
    ASSUME IInv, OpenDir
    PROVE  IInv'
<1>1. /\ op.step = "opendir" /\ op.step \in SessionSteps
      /\ UNCHANGED <<manager, session, handle>> /\ (Serve \/ Skip)
  BY DEF OpenDir, SessionSteps
<1>2. /\ served' \in BOOLEAN /\ touched' \in Touches
      /\ op.drive \in Drives /\ session[op.drive] \in Volumes /\ block[op.drive] \in Blocks
  BY <1>1, SectionFacts
<1>3. CASE Return("error")
  BY <1>1, <1>2, <1>3, ReturnStep
<1>4. ASSUME UNCHANGED result, op' \in Operations, op'.step = "readdir", op'.drive = op.drive
      PROVE  IInv'
  BY <1>1, <1>2, <1>4, SessionStepsKept, InnerStep DEF SessionSteps
<1>5. ASSUME UNCHANGED result,
             NEW n \in 0 .. MaxSteps, op' = [op EXCEPT !.step = "readdir", !.left = n]
      PROVE  IInv'
  <2>1. op' \in Operations /\ op'.step = "readdir" /\ op'.drive = op.drive
    BY <1>5 DEF IInv, TypeOK, Operations
  <2> QED BY <1>4, <1>5, <2>1
<1>6. CASE Goto("readdir") /\ UNCHANGED result
  BY <1>4, <1>6, GotoFacts DEF StepNames
<1> QED BY <1>3, <1>5, <1>6 DEF OpenDir

LEMMA ReadDirStep ==
    ASSUME IInv, ReadDir
    PROVE  IInv'
<1>1. /\ op.step = "readdir" /\ op.step \in SessionSteps /\ op \in Operations
      /\ UNCHANGED <<manager, session, handle, result>> /\ (Serve \/ Skip)
  BY DEF ReadDir, SessionSteps, IInv, TypeOK
<1>2. /\ served' \in BOOLEAN /\ touched' \in Touches
      /\ op.drive \in Drives /\ session[op.drive] \in Volumes /\ block[op.drive] \in Blocks
  BY <1>1, SectionFacts
<1>3. ASSUME op' \in Operations, op'.drive = op.drive, op'.step \in {"unlink", "closedir"}
      PROVE  IInv'
  BY <1>1, <1>2, <1>3, SessionStepsKept, InnerStep DEF SessionSteps
<1>4. CASE op' = [op EXCEPT !.step = "closedir", !.err = TRUE]
  <2>1. op' \in Operations /\ op'.step = "closedir" /\ op'.drive = op.drive
    BY <1>1, <1>4 DEF Operations
  <2> QED BY <1>3, <2>1
<1>5. CASE op.left > 0 /\ op' = [op EXCEPT !.step = "unlink", !.named = TRUE, !.left = @ - 1]
  <2>1. op.left \in 0 .. MaxSteps /\ op.left - 1 \in 0 .. MaxSteps
    BY <1>1, <1>5, ConstantsAssumption DEF Operations
  <2>2. op' \in Operations /\ op'.step = "unlink" /\ op'.drive = op.drive
    BY <1>1, <1>5, <2>1 DEF Operations
  <2> QED BY <1>3, <2>2
<1>6. CASE Goto("closedir")
  BY <1>3, <1>6, GotoFacts DEF StepNames
<1>7. CASE Goto("unlink")
  BY <1>3, <1>7, GotoFacts DEF StepNames
<1> QED BY <1>4, <1>5, <1>6, <1>7 DEF ReadDir

LEMMA UnlinkStep ==
    ASSUME IInv, Unlink
    PROVE  IInv'
<1>1. /\ op.step = "unlink" /\ op.step \in SessionSteps /\ op \in Operations
      /\ UNCHANGED <<manager, session, handle, result>> /\ (Serve \/ Skip)
  BY DEF Unlink, SessionSteps, IInv, TypeOK
<1>2. /\ served' \in BOOLEAN /\ touched' \in Touches
      /\ op.drive \in Drives /\ session[op.drive] \in Volumes /\ block[op.drive] \in Blocks
  BY <1>1, SectionFacts
<1>3. ASSUME op' \in Operations, op'.drive = op.drive, op'.step \in {"readdir", "closedir"}
      PROVE  IInv'
  BY <1>1, <1>2, <1>3, SessionStepsKept, InnerStep DEF SessionSteps
<1>4. CASE op' = [op EXCEPT !.step = "closedir", !.err = TRUE]
  <2>1. op' \in Operations /\ op'.step = "closedir" /\ op'.drive = op.drive
    BY <1>1, <1>4 DEF Operations
  <2> QED BY <1>3, <2>1
<1>5. CASE Goto("readdir")
  BY <1>3, <1>5, GotoFacts DEF StepNames
<1> QED BY <1>4, <1>5 DEF Unlink

LEMMA CloseDirStep ==
    ASSUME IInv, CloseDir
    PROVE  IInv'
<1>1. /\ op.step \in SessionSteps /\ (Serve \/ Skip) /\ UNCHANGED <<manager, session, handle>>
  BY DEF CloseDir, SessionSteps
<1>2. PICK r \in {"ok", "error"} : Return(r)
  BY DEF CloseDir
<1> QED BY <1>1, <1>2, SectionFacts, ReturnStep

-----------------------------------------------------------------------------
\* Steps of a label or file command that only read.
LEMMA ReadingStep ==
    ASSUME IInv, UNCHANGED <<manager, session, handle, result>>,
           op' \in Operations, op'.kind = op.kind, op'.drive = op.drive, op'.vol = op.vol,
           op.step \notin {"idle", "check"}, op'.step \in MountSteps \union VolumeSteps,
           op'.fs \in Blocks,
           op'.step \in MountSteps => op.kind = "label" /\ op.vol \in Volumes,
           op'.step \in VolumeSteps =>
               /\ op.kind \in {"label", "file", "close"}
               /\ op.kind = "label" => op.vol \in Volumes
               /\ op.kind # "label" => handle # Closed /\ op.drive = handle.drive,
           op'.step \in AnewSteps => ~Listed(op.drive),
           op'.step \in {"type"} \union VolumeSteps /\ Listed(op.drive) =>
               op'.fs = block[op.drive],
           op'.step \in Placed /\ Listed(op.drive) => slot[op'.pdrv] = op.drive,
           served' \in BOOLEAN, touched' \in Touches
    PROVE  IInv'
<1>1. op.drive \in Drives /\ block[op.drive] \in Blocks
  BY DEF IInv, Steps, StepTypes
<1>2. Listed(op.drive)' => Listed(op.drive)
  BY DEF Listed, manager
<1>4. StepTypes'
  BY <1>1 DEF StepTypes, manager, MountSteps, VolumeSteps, SessionSteps
<1>5. StepsOwn'
  BY <1>2 DEF StepsOwn, manager, MountSteps, VolumeSteps, AnewSteps, Placed
<1> QED BY <1>4, <1>5, InnerStep DEF Steps

LEMMA FindFsStep ==
    ASSUME IInv, FindFs
    PROVE  IInv'
<1>1. /\ op.step = "label" /\ UNCHANGED <<manager, session, served, touched>>
      /\ op \in Operations /\ served' \in BOOLEAN /\ touched' \in Touches
      /\ Listed(op.drive) => op.vol \in Volumes /\ slot[op.vol] = op.drive
      /\ op.drive \in Drives
  BY DEF FindFs, IInv, TypeOK, Steps, StepTypes, StepsOwn
<1>2. CASE Finish("error")
  BY <1>1, <1>2, FinishStep
<1>3. CASE /\ op.vol \in Volumes /\ FatFs[op.vol] # Null
           /\ op' = [op EXCEPT !.step = "type", !.fs = FatFs[op.vol]]
           /\ UNCHANGED <<result, handle>>
  <2>1. FatFs[op.vol] \in Blocks
    BY <1>3 DEF IInv, TypeOK
  <2>2. /\ op' \in Operations /\ op'.step = "type" /\ op'.kind = op.kind /\ op'.drive = op.drive
        /\ op'.vol = op.vol /\ op'.fs = FatFs[op.vol]
    BY <1>1, <1>3, <2>1 DEF Operations
  <2>3. op.kind = "label"
    BY <1>1 DEF IInv, Steps, StepTypes
  <2>4. Listed(op.drive) => op'.fs = block[op.drive]
    BY <1>1, <2>2, RegisteredOwn
  <2> QED
    BY <1>1, <1>3, <2>1, <2>2, <2>3, <2>4, ReadingStep
    DEF MountSteps, VolumeSteps, AnewSteps, Placed
<1> QED BY <1>2, <1>3 DEF FindFs

LEMMA TestTypeStep ==
    ASSUME IInv, TestType
    PROVE  IInv'
<1> DEFINE st == IF mem[op.fs].on THEN "pdrv" ELSE "mount"
<1>1. /\ op.step = "type" /\ UNCHANGED <<manager, session, handle, result, served, touched>>
      /\ served' \in BOOLEAN /\ touched' \in Touches /\ Goto(st)
      /\ op.drive \in Drives /\ op.kind = "label" /\ op.fs \in Blocks /\ op.vol \in Volumes
      /\ Listed(op.drive) => op.fs = block[op.drive]
  BY DEF TestType, IInv, TypeOK, Steps, StepTypes, StepsOwn, MountSteps
<1>2. /\ op' \in Operations /\ op'.step = st /\ op'.drive = op.drive /\ op'.kind = op.kind
      /\ op'.vol = op.vol /\ op'.fs = op.fs
  BY <1>1, GotoFacts DEF StepNames
<1>3. st = "mount" => ~Listed(op.drive)
  BY <1>1, OwnReached
<1>4. st \in {"pdrv", "mount"}
  OBVIOUS
<1> HIDE DEF st
<1> QED
  BY <1>1, <1>2, <1>3, <1>4, ReadingStep DEF MountSteps, VolumeSteps, AnewSteps, Placed

\* A step that renews the FATFS in a block no listed drive lives in.
LEMMA RenewStep ==
    ASSUME IInv, NEW b \in Blocks, NEW m \in [on : BOOLEAN, id : Nat, pdrv : Volumes, mount : Nat],
           \A d \in Drives : Listed(d) => block[d] # b,
           mem' = [mem EXCEPT ![b] = m],
           fsid' \in {fsid, fsid + 1}, m.mount =< fsid',
           m.on => m.id = m.mount % IdWord /\ m.mount > fsid,
           UNCHANGED <<plug, slot, block, FatFs, session, handle, result, served, touched>>,
           op' \in Operations, Steps'
    PROVE  IInv'
<1>1. /\ TypeOK /\ Housed /\ Apart /\ Numbered /\ Sessions /\ HandleOwn
  BY DEF IInv
<1>2. /\ mem \in [Blocks -> [on : BOOLEAN, id : Nat, pdrv : Volumes, mount : Nat]]
      /\ fsid \in Nat /\ fsid' \in Nat /\ fsid =< fsid' /\ handle \in Handles
  BY <1>1 DEF TypeOK
<1>3. mem'[b] = m /\ \A c \in Blocks : c # b => mem'[c] = mem[c]
  BY <1>2
<1>4. TypeOK'
  <2>1. mem' \in [Blocks -> [on : BOOLEAN, id : Nat, pdrv : Volumes, mount : Nat]]
    BY <1>2
  <2> QED BY <1>1, <1>2, <2>1 DEF TypeOK
<1>5. Housed'
  <2> SUFFICES ASSUME NEW v \in Volumes, slot[v] \in Drives
               PROVE  mem'[block[slot[v]]] = mem[block[slot[v]]]
    BY <1>1 DEF Housed
  <2>1. block[slot[v]] \in Blocks /\ block[slot[v]] # b
    BY <1>1 DEF Housed, Listed
  <2> QED BY <1>3, <2>1
<1>6. Apart' /\ Sessions'
  BY <1>1 DEF Apart, Sessions
<1>7. Numbered'
  <2> SUFFICES ASSUME NEW c \in Blocks
               PROVE  /\ mem'[c].mount =< fsid'
                      /\ mem'[c].on => mem'[c].id = mem'[c].mount % IdWord
    BY DEF Numbered
  <2>1. CASE c = b
    BY <1>3, <2>1
  <2>2. CASE c # b
    <3>1. /\ mem'[c] = mem[c] /\ mem[c].mount \in Nat /\ mem[c].mount =< fsid
          /\ mem[c].on => mem[c].id = mem[c].mount % IdWord
      BY <1>1, <1>2, <1>3, <2>2 DEF Numbered
    <3> QED BY <1>2, <3>1
  <2> QED BY <2>1, <2>2
<1>8. HandleOwn'
  <2>1. ASSUME handle.block # Null
        PROVE  handle.mount =< fsid'
    <3>1. handle.mount \in Nat /\ handle.mount =< fsid
      BY <1>1, <1>2, <2>1 DEF HandleOwn, Handles
    <3> QED BY <1>2, <3>1
  <2>2. ASSUME handle.block # Null, mem'[handle.block].on
        PROVE  /\ handle.mount =< mem'[handle.block].mount
               /\ mem'[handle.block].mount = handle.mount =>
                      slot[mem'[handle.block].pdrv] \in {handle.drive, Lost}
    <3>1. handle.block \in Blocks /\ handle.mount \in Nat /\ handle.mount =< fsid
      BY <1>1, <1>2, <2>2 DEF HandleOwn, Handles
    <3>2. CASE handle.block = b
      <4>1. m.mount \in Nat /\ m.mount > fsid
        BY <1>3, <2>2, <3>2
      <4> QED BY <1>2, <1>3, <3>1, <3>2, <4>1
    <3>3. CASE handle.block # b
      <4>1. mem'[handle.block] = mem[handle.block]
        BY <1>3, <3>1, <3>3
      <4> QED BY <1>1, <2>2, <4>1 DEF HandleOwn
    <3> QED BY <3>2, <3>3
  <2> QED BY <1>1, <2>1, <2>2 DEF HandleOwn
<1> QED BY <1>4, <1>5, <1>6, <1>7, <1>8 DEF IInv

\* What holds where mount_volume writes for a label command.
LEMMA AnewFacts ==
    ASSUME IInv, op.step \in AnewSteps
    PROVE  /\ op.drive \in Drives /\ block[op.drive] \in Blocks /\ op.kind = "label"
           /\ op.fs \in Blocks /\ op.vol \in Volumes /\ op \in Operations
           /\ ~Listed(op.drive)
           /\ ~Foreign => \A d \in Drives : Listed(d) => block[d] # op.fs
<1>1. op.step \in MountSteps /\ op.step \notin {"idle", "check"}
  BY DEF AnewSteps, MountSteps
<1>2. /\ op.drive \in Drives /\ block[op.drive] \in Blocks /\ op.kind = "label"
      /\ op.fs \in Blocks /\ op.vol \in Volumes
  BY <1>1 DEF IInv, Steps, StepTypes
<1>3. ~Listed(op.drive) /\ op \in Operations
  BY DEF IInv, Steps, StepsOwn, TypeOK
<1> QED BY <1>2, <1>3 DEF Foreign

LEMMA AstrayStep ==
    ASSUME IInv, op.step \in AnewSteps, Goto("astray"),
           UNCHANGED <<manager, session, handle, result, served, touched>>
    PROVE  IInv'
<1>1. op' \in Operations /\ op'.step = "astray" /\ op'.drive = op.drive
  BY GotoFacts DEF StepNames
<1>2. block'[op'.drive] \in Blocks /\ op'.drive \in Drives
  BY <1>1, AnewFacts DEF manager
<1>3. served' \in BOOLEAN /\ touched' \in Touches
  BY DEF IInv, TypeOK
<1>4. Steps'
  BY <1>1, <1>2, AstraySteps
<1> QED BY <1>1, <1>3, <1>4, InnerStep

LEMMA MountAgainStep ==
    ASSUME IInv, MountAgain
    PROVE  IInv'
<1>1. op.step = "mount" /\ op.step \in AnewSteps
  BY DEF MountAgain, AnewSteps
<1>2. CASE Foreign
  BY <1>1, <1>2, AstrayStep DEF MountAgain, manager
<1>3. CASE ~Foreign
  <2> DEFINE m == [mem[op.fs] EXCEPT !.on = FALSE, !.pdrv = op.vol]
  <2>1. /\ op.fs \in Blocks /\ op.vol \in Volumes /\ op.kind = "label" /\ op.drive \in Drives
        /\ block[op.drive] \in Blocks /\ ~Listed(op.drive)
        /\ \A d \in Drives : Listed(d) => block[d] # op.fs
    BY <1>1, <1>3, AnewFacts
  <2>2. mem[op.fs] \in [on : BOOLEAN, id : Nat, pdrv : Volumes, mount : Nat]
        /\ mem[op.fs].mount =< fsid
        /\ mem \in [Blocks -> [on : BOOLEAN, id : Nat, pdrv : Volumes, mount : Nat]]
    BY <2>1 DEF IInv, TypeOK, Numbered
  <2>3. /\ m \in [on : BOOLEAN, id : Nat, pdrv : Volumes, mount : Nat]
        /\ m.on = FALSE /\ m.mount = mem[op.fs].mount
    BY <2>1, <2>2
  <2>4. mem' = [mem EXCEPT ![op.fs] = m]
    BY <1>3, <2>1, <2>2 DEF MountAgain
  <2>5. /\ op' \in Operations /\ op'.step = "initialize" /\ op'.drive = op.drive
        /\ op'.kind = op.kind /\ op'.vol = op.vol /\ op'.fs = op.fs
    BY <1>3, GotoFacts DEF MountAgain, StepNames
  <2>6. UNCHANGED <<plug, slot, block, FatFs, fsid, session, handle, result, served, touched>>
    BY DEF MountAgain
  <2>7. ~Listed(op.drive)'
    BY <2>1, <2>5, <2>6 DEF Listed
  <2>8. Steps'
    BY <2>1, <2>5, <2>6, <2>7
    DEF Steps, StepTypes, StepsOwn, SessionSteps, MountSteps, AnewSteps, VolumeSteps, Placed
  <2> HIDE DEF m
  <2> QED BY <2>1, <2>2, <2>3, <2>4, <2>5, <2>6, <2>8, RenewStep
<1> QED BY <1>2, <1>3

LEMMA InitializeStep ==
    ASSUME IInv, Initialize
    PROVE  IInv'
<1>1. /\ op.step = "initialize" /\ op.step \in AnewSteps /\ UNCHANGED <<manager, session>>
  BY DEF Initialize, AnewSteps
<1>2. /\ op.fs \in Blocks /\ op.vol \in Volumes /\ op.kind = "label" /\ op.drive \in Drives
      /\ ~Listed(op.drive) /\ op \in Operations
  BY <1>1, AnewFacts
<1>3. CASE /\ slot[op.vol] \in Drives
           /\ touched' = <<"label", op.drive, slot[op.vol]>>
           /\ served' = TRUE
           /\ Goto("remount")
           /\ UNCHANGED <<handle, result>>
  <2>1. /\ op' \in Operations /\ op'.step = "remount" /\ op'.drive = op.drive
        /\ op'.kind = op.kind /\ op'.vol = op.vol /\ op'.fs = op.fs
    BY <1>3, GotoFacts DEF StepNames
  <2>2. touched' \in Touches /\ served' \in BOOLEAN
    BY <1>2, <1>3 DEF Touches
  <2> QED
    BY <1>1, <1>2, <1>3, <2>1, <2>2, ReadingStep DEF MountSteps, VolumeSteps, AnewSteps, Placed
<1>4. CASE Finish("error") /\ UNCHANGED <<served, touched>>
  <2>1. touched' \in Touches /\ served' \in BOOLEAN
    BY <1>4 DEF IInv, TypeOK
  <2> QED BY <1>1, <1>4, <2>1, FinishStep
<1> QED BY <1>3, <1>4 DEF Initialize

LEMMA RemountStep ==
    ASSUME IInv, Remount
    PROVE  IInv'
<1>1. op.step = "remount" /\ op.step \in AnewSteps
  BY DEF Remount, AnewSteps
<1>2. CASE Foreign
  BY <1>1, <1>2, AstrayStep DEF Remount, manager
<1>3. CASE ~Foreign /\ Finish("error") /\ UNCHANGED <<mem, fsid>>
  <2>1. /\ touched' \in Touches /\ served' \in BOOLEAN /\ UNCHANGED <<manager, session>>
    BY <1>3 DEF IInv, TypeOK, Remount, manager
  <2> QED BY <1>3, <2>1, FinishStep
<1>4. CASE /\ ~Foreign
           /\ mem' = [mem EXCEPT ![op.fs] = MountedFs(op.vol)]
           /\ fsid' = fsid + 1
           /\ op' = [op EXCEPT !.step = "io", !.left = MaxSteps]
           /\ UNCHANGED <<handle, result>>
  <2>1. /\ op.fs \in Blocks /\ op.vol \in Volumes /\ op.kind = "label" /\ op.drive \in Drives
        /\ block[op.drive] \in Blocks /\ ~Listed(op.drive) /\ op \in Operations
        /\ \A d \in Drives : Listed(d) => block[d] # op.fs
    BY <1>1, <1>4, AnewFacts
  <2>2. fsid \in Nat
    BY DEF IInv, TypeOK
  <2>3. /\ MountedFs(op.vol) \in [on : BOOLEAN, id : Nat, pdrv : Volumes, mount : Nat]
        /\ MountedFs(op.vol).mount = fsid + 1 /\ MountedFs(op.vol).id = (fsid + 1) % IdWord
    BY <2>1, <2>2, MountedFsType
  <2>4. MaxSteps \in 0 .. MaxSteps
    BY ConstantsAssumption
  <2>5. /\ op' \in Operations /\ op'.step = "io" /\ op'.drive = op.drive
        /\ op'.kind = op.kind /\ op'.vol = op.vol /\ op'.fs = op.fs
    BY <1>4, <2>1, <2>4 DEF Operations
  <2>6. UNCHANGED <<plug, slot, block, FatFs, session, handle, result, served, touched>>
    BY <1>4 DEF Remount
  <2>7. ~Listed(op.drive)'
    BY <2>1, <2>5, <2>6 DEF Listed
  <2>8. Steps'
    BY <2>1, <2>5, <2>6, <2>7
    DEF Steps, StepTypes, StepsOwn, SessionSteps, MountSteps, AnewSteps, VolumeSteps, Placed
  <2>9. MountedFs(op.vol).mount =< fsid' /\ MountedFs(op.vol).mount > fsid
    BY <1>4, <2>2, <2>3
  <2> QED BY <1>4, <2>1, <2>3, <2>5, <2>6, <2>8, <2>9, RenewStep
<1> QED BY <1>2, <1>3, <1>4 DEF Remount

-----------------------------------------------------------------------------
LEMMA ValidateStep ==
    ASSUME IInv, Validate
    PROVE  IInv'
<1>1. /\ op.step = "validate" /\ op \in Operations
      /\ UNCHANGED <<manager, session, served, touched>>
      /\ served' \in BOOLEAN /\ touched' \in Touches
      /\ op.kind \in {"file", "close"} /\ handle # Closed /\ op.drive = handle.drive
  BY DEF Validate, IInv, Steps, StepTypes, TypeOK
<1>2. CASE Finish("invalid")
  BY <1>1, <1>2, FinishStep
<1>3. CASE /\ IdMatches
           /\ op' = [op EXCEPT !.step = "pdrv", !.fs = handle.block]
           /\ UNCHANGED <<result, handle>>
  <2>1. handle.block # Null /\ handle.block \in Blocks /\ handle.block = block[handle.drive]
    BY <1>3 DEF IdMatches, IInv, HandleOwn, TypeOK, Handles
  <2>2. /\ op' \in Operations /\ op'.step = "pdrv" /\ op'.drive = op.drive
        /\ op'.kind = op.kind /\ op'.vol = op.vol /\ op'.fs = handle.block
    BY <1>1, <1>3, <2>1 DEF Operations
  <2> QED
    BY <1>1, <1>3, <2>1, <2>2, ReadingStep DEF MountSteps, VolumeSteps, AnewSteps, Placed
<1> QED BY <1>2, <1>3 DEF Validate

\* What holds where FatFs works on a volume without the lock.
LEMMA VolumeFacts ==
    ASSUME IInv, op.step \in VolumeSteps
    PROVE  /\ op \in Operations /\ op.drive \in Drives /\ op.fs \in Blocks
           /\ op.step \notin {"idle", "check"} /\ op.pdrv \in Volumes
           /\ op.kind \in {"label", "file", "close"}
           /\ op.kind = "label" => op.vol \in Volumes
           /\ op.kind # "label" => handle # Closed /\ op.drive = handle.drive
           /\ Listed(op.drive) => op.fs = block[op.drive]
           /\ mem[op.fs].pdrv \in Volumes
           /\ Listed(op.drive) => slot[mem[op.fs].pdrv] = op.drive
<1>1. /\ op \in Operations /\ op.step \notin {"idle", "check"} /\ op.drive \in Drives
      /\ op.fs \in Blocks
  BY DEF IInv, TypeOK, Steps, StepTypes, VolumeSteps
<1>2. /\ op.kind \in {"label", "file", "close"}
      /\ op.kind = "label" => op.vol \in Volumes
      /\ op.kind # "label" => handle # Closed /\ op.drive = handle.drive
      /\ Listed(op.drive) => op.fs = block[op.drive]
  BY DEF IInv, Steps, StepTypes, StepsOwn
<1>3. mem[op.fs].pdrv \in Volumes /\ op.pdrv \in Volumes
  BY <1>1 DEF IInv, TypeOK, Operations
<1> QED BY <1>1, <1>2, <1>3, OwnReached

LEMMA ReadPdrvStep ==
    ASSUME IInv, ReadPdrv
    PROVE  IInv'
<1>1. /\ op.step \in VolumeSteps /\ op' = [op EXCEPT !.step = "status", !.pdrv = mem[op.fs].pdrv]
      /\ UNCHANGED <<manager, session, handle, result, served, touched>>
      /\ served' \in BOOLEAN /\ touched' \in Touches
  BY DEF ReadPdrv, VolumeSteps, IInv, TypeOK
<1>2. /\ op' \in Operations /\ op'.step = "status" /\ op'.drive = op.drive
      /\ op'.kind = op.kind /\ op'.vol = op.vol /\ op'.fs = op.fs /\ op'.pdrv = mem[op.fs].pdrv
  BY <1>1, VolumeFacts DEF Operations
<1> QED
  BY <1>1, <1>2, VolumeFacts, ReadingStep DEF MountSteps, VolumeSteps, AnewSteps, Placed

LEMMA StatusStep ==
    ASSUME IInv, Status
    PROVE  IInv'
<1>1. /\ op.step = "status" /\ op.step \in VolumeSteps /\ UNCHANGED <<manager, session, touched>>
      /\ served \in BOOLEAN /\ touched' \in Touches
      /\ Listed(op.drive) => slot[op.pdrv] = op.drive
  BY DEF Status, VolumeSteps, Placed, IInv, TypeOK, Steps, StepsOwn
<1>2. CASE Finish("invalid") /\ UNCHANGED served
  BY <1>1, <1>2, FinishStep
<1>3. CASE /\ op' = [op EXCEPT !.step = "io", !.left = MaxSteps]
           /\ served' = TRUE
           /\ UNCHANGED <<handle, result>>
  <2>1. MaxSteps \in 0 .. MaxSteps
    BY ConstantsAssumption
  <2>2. /\ op' \in Operations /\ op'.step = "io" /\ op'.drive = op.drive
        /\ op'.kind = op.kind /\ op'.vol = op.vol /\ op'.fs = op.fs
    BY <1>1, <1>3, <2>1, VolumeFacts DEF Operations
  <2> QED
    BY <1>1, <1>3, <2>2, VolumeFacts, ReadingStep DEF MountSteps, VolumeSteps, AnewSteps, Placed
<1>4. CASE /\ op.kind = "label" /\ slot[op.pdrv] # op.drive
           /\ Goto("mount")
           /\ UNCHANGED <<served, handle, result>>
  <2>1. /\ op' \in Operations /\ op'.step = "mount" /\ op'.drive = op.drive
        /\ op'.kind = op.kind /\ op'.vol = op.vol /\ op'.fs = op.fs
    BY <1>4, GotoFacts DEF StepNames
  <2>2. ~Listed(op.drive)
    BY <1>1, <1>4
  <2> QED
    BY <1>1, <1>4, <2>1, <2>2, VolumeFacts, ReadingStep
    DEF MountSteps, VolumeSteps, AnewSteps, Placed
<1> QED BY <1>2, <1>3, <1>4 DEF Status

LEMMA AddressStep ==
    ASSUME IInv, Address
    PROVE  IInv'
<1>1. /\ op.step \in VolumeSteps /\ op.left > 0
      /\ op' = [op EXCEPT !.step = "sector", !.pdrv = mem[op.fs].pdrv, !.left = @ - 1]
      /\ UNCHANGED <<manager, session, handle, result, served, touched>>
      /\ served' \in BOOLEAN /\ touched' \in Touches
  BY DEF Address, VolumeSteps, IInv, TypeOK
<1>2. op.left - 1 \in 0 .. MaxSteps
  BY <1>1, VolumeFacts, ConstantsAssumption DEF Operations
<1>3. /\ op' \in Operations /\ op'.step = "sector" /\ op'.drive = op.drive
      /\ op'.kind = op.kind /\ op'.vol = op.vol /\ op'.fs = op.fs /\ op'.pdrv = mem[op.fs].pdrv
  BY <1>1, <1>2, VolumeFacts DEF Operations
<1> QED
  BY <1>1, <1>3, VolumeFacts, ReadingStep DEF MountSteps, VolumeSteps, AnewSteps, Placed

LEMMA SectorStep ==
    ASSUME IInv, Sector
    PROVE  IInv'
<1>1. /\ op.step \in VolumeSteps /\ UNCHANGED <<manager, session, served>>
      /\ served' \in BOOLEAN /\ touched \in Touches
  BY DEF Sector, VolumeSteps, IInv, TypeOK
<1>2. CASE Finish("error") /\ UNCHANGED touched
  BY <1>1, <1>2, FinishStep
<1>3. CASE /\ slot[op.pdrv] \in Drives
           /\ touched' = <<IF op.kind = "label" THEN "label" ELSE "file", op.drive, slot[op.pdrv]>>
           /\ Goto("io")
           /\ UNCHANGED <<handle, result>>
  <2>1. touched' \in Touches
    BY <1>1, <1>3, VolumeFacts DEF Touches
  <2>2. /\ op' \in Operations /\ op'.step = "io" /\ op'.drive = op.drive
        /\ op'.kind = op.kind /\ op'.vol = op.vol /\ op'.fs = op.fs
    BY <1>3, GotoFacts DEF StepNames
  <2> QED
    BY <1>1, <1>3, <2>1, <2>2, VolumeFacts, ReadingStep
    DEF MountSteps, VolumeSteps, AnewSteps, Placed
<1> QED BY <1>2, <1>3 DEF Sector

LEMMA DoneStep ==
    ASSUME IInv, Done
    PROVE  IInv'
<1>1. served' \in BOOLEAN /\ touched' \in Touches
  BY DEF Done, IInv, TypeOK
<1> QED BY <1>1, FinishStep DEF Done

LEMMA SecondCallStep ==
    ASSUME IInv, SecondCall
    PROVE  IInv'
<1>1. /\ op.step \in VolumeSteps /\ op.kind # "label"
      /\ op' = [op EXCEPT !.step = "validate", !.named = TRUE]
      /\ UNCHANGED <<manager, session, handle, result, served, touched>>
      /\ served' \in BOOLEAN /\ touched' \in Touches
  BY DEF SecondCall, IInv, TypeOK, VolumeSteps
<1>2. op' \in Operations /\ op'.step = "validate" /\ op'.drive = op.drive /\ op'.kind = op.kind
  BY <1>1, VolumeFacts DEF Operations
<1>3. /\ op.drive \in Drives /\ block[op.drive] \in Blocks
      /\ op.kind \in {"file", "close"} /\ handle # Closed /\ op.drive = handle.drive
  BY <1>1, VolumeFacts DEF IInv, HandleOwn
<1>4. Steps'
  BY <1>1, <1>2, <1>3
  DEF Steps, StepTypes, StepsOwn, SessionSteps, MountSteps, AnewSteps, VolumeSteps, Placed, manager
<1> QED BY <1>1, <1>2, <1>4, InnerStep

-----------------------------------------------------------------------------
LEMMA NextStep == IInv /\ [Next]_vars => IInv'
<1> SUFFICES ASSUME IInv, [Next]_vars PROVE IInv'
  OBVIOUS
<1>1. CASE Manager
  BY <1>1, PlugSteps, AttachStep, DropStep, LoseStep DEF Manager
<1>2. CASE Proceed
  BY <1>2, CheckStep, LookUpStep, PathBodyStep, OpenDirStep, ReadDirStep, UnlinkStep,
     CloseDirStep, FindFsStep, TestTypeStep, MountAgainStep, InitializeStep, RemountStep,
     ValidateStep, ReadPdrvStep, StatusStep, AddressStep, SectorStep, DoneStep, SecondCallStep
  DEF Proceed
<1>3. CASE FileCommand
  BY <1>3, FileCommandStep
<1>4. CASE \E d \in Drives : Command(d)
  BY <1>4, CommandStep
<1>5. CASE UNCHANGED vars
  <2>1. TypeOK' /\ Housed' /\ Apart' /\ Numbered' /\ Sessions' /\ HandleOwn'
    BY <1>5 DEF vars, IInv, TypeOK, Housed, Apart, Numbered, Sessions, HandleOwn
  <2>2. Steps'
    BY <1>5 DEF vars, IInv, Steps, StepTypes, StepsOwn, Listed
  <2> QED BY <2>1, <2>2 DEF IInv
<1> QED BY <1>1, <1>2, <1>3, <1>4, <1>5 DEF Next

\* The invariant behind the theorems below.
THEOREM Invariance == Spec => []IInv
BY InitIInv, NextStep, PTL DEF Spec

\* Every variable stays in its set.
THEOREM TypeCorrect == Spec => []TypeOK
BY Invariance, PTL DEF IInv

-----------------------------------------------------------------------------
\* How the last sector access can change: by a section of the lock on a path, by
\* a mount or a sector access of a label or file command, or not at all.
LEMMA TouchedBy ==
    ASSUME Next
    PROVE  \/ UNCHANGED touched
           \/ touched' = Nothing
           \/ op.step \in SessionSteps /\ Serve /\ UNCHANGED manager
           \/ Initialize
           \/ Sector
BY DEF Next, Manager, LoseAll, Plug, Unplug, Attach, Drop, command, Proceed, FileCommand, Command,
       Begin, Check, LookUp, PathBody, OpenDir, ReadDir, Unlink, CloseDir, FindFs, TestType,
       MountAgain, Remount, Validate, ReadPdrv, Status, Address, Done, SecondCall,
       Skip, SessionSteps

\* What a path reaches: true at the start, kept or renewed by every step.
LEMMA PathsStep == IInv /\ PathsStayOnDrive /\ [Next]_vars => PathsStayOnDrive'
<1> SUFFICES ASSUME IInv, PathsStayOnDrive, [Next]_vars
             PROVE  touched'[1] = "path" => touched'[2] = touched'[3]
  BY DEF PathsStayOnDrive
<1>1. CASE UNCHANGED touched
  BY <1>1 DEF PathsStayOnDrive
<1>2. CASE op.step \in SessionSteps /\ Serve
  BY <1>2, SectionFacts
<1>3. CASE touched' = Nothing
  BY <1>3, ConstantsAssumption DEF Nothing
<1>4. ASSUME NEW how \in {"label", "file"}, NEW e, touched' = <<how, op.drive, e>>
      PROVE  touched'[1] # "path"
  BY <1>4
<1>5. CASE Initialize \/ Sector
  BY <1>1, <1>4, <1>5 DEF Initialize, Sector
<1> QED BY <1>1, <1>2, <1>3, <1>5, TouchedBy DEF vars

\* A filesystem command never leaves the drive its session was opened on.
THEOREM PathsOnDrive == Spec => []PathsStayOnDrive
<1>1. Init => PathsStayOnDrive
  BY DEF Init, Nothing, PathsStayOnDrive
<1> QED BY <1>1, Invariance, PathsStep, PTL DEF Spec

\* A drive whose sectors were reached without the lock had been mounted before,
\* and no drive is mounted a second time.
StrayInv ==
    /\ StrayOnlyUnlisted
    /\ touched[1] \in {"label", "file"} =>
           touched[2] \in Drives /\ block[touched[2]] \in Blocks

\* Mounted drives stay mounted in their block; a drive that left stays away.
LEMMA ListedOnce ==
    ASSUME IInv, Next, NEW d \in Drives, block[d] \in Blocks
    PROVE  block'[d] \in Blocks /\ (Listed(d)' => Listed(d))
<1>1. /\ slot \in [Volumes -> Drives \union {Null, Lost}]
      /\ block \in [Drives -> Blocks \union {Null}]
  BY DEF IInv, TypeOK
<1>2. ASSUME UNCHANGED <<slot, block>>
      PROVE  block'[d] \in Blocks /\ (Listed(d)' => Listed(d))
  BY <1>2 DEF Listed
<1>3. ASSUME NEW e \in Drives, Attach(e)
      PROVE  block'[d] \in Blocks /\ (Listed(d)' => Listed(d))
  BY <1>1, <1>3, ConstantsAssumption DEF Attach, Table!Claim, Listed
<1>4. ASSUME NEW e \in Drives, Drop(e)
      PROVE  block'[d] \in Blocks /\ (Listed(d)' => Listed(d))
  BY <1>1, <1>4, ConstantsAssumption DEF Drop, Table!Release, Listed
<1>5. CASE LoseAll
  BY <1>1, <1>5, ConstantsAssumption DEF LoseAll, Table!Lose, Listed
<1>6. CASE ~\E e \in Drives : Attach(e) \/ Drop(e)
  BY <1>2, <1>5, <1>6
  DEF Next, Manager, Plug, Unplug, Proceed, FileCommand, Command, manager,
      Begin, Check, LookUp, PathBody, OpenDir, ReadDir, Unlink, CloseDir, FindFs, TestType,
      MountAgain, Initialize, Remount, Validate, ReadPdrv, Status, Address, Sector, Done, SecondCall
<1> QED BY <1>3, <1>4, <1>6

LEMMA StrayStep == IInv /\ StrayInv /\ [Next]_vars => StrayInv'
<1> SUFFICES ASSUME IInv, StrayInv, [Next]_vars
             PROVE  touched'[1] \in {"label", "file"} =>
                        /\ touched'[2] \in Drives /\ block'[touched'[2]] \in Blocks
                        /\ Listed(touched[2])' => touched'[3] = touched'[2]
  BY DEF StrayInv, StrayOnlyUnlisted
<1>1. CASE UNCHANGED vars
  BY <1>1 DEF vars, StrayInv, StrayOnlyUnlisted, Listed
<1>2. CASE Next /\ UNCHANGED touched
  BY <1>2, ListedOnce DEF StrayInv, StrayOnlyUnlisted
<1>3. CASE touched' = Nothing
  BY <1>3, ConstantsAssumption DEF Nothing
<1>4. CASE op.step \in SessionSteps /\ Serve
  BY <1>4, SectionFacts
<1>5. CASE Initialize /\ ~UNCHANGED touched
  <2>1. op.step \in AnewSteps /\ UNCHANGED manager
    BY <1>5 DEF Initialize, AnewSteps
  <2>2. touched' = <<"label", op.drive, slot[op.vol]>>
    BY <1>5 DEF Initialize
  <2>3. op.drive \in Drives /\ block[op.drive] \in Blocks /\ ~Listed(op.drive)
    BY <2>1, AnewFacts
  <2>4. ~Listed(touched[2])'
    BY <2>1, <2>2, <2>3 DEF Listed, manager
  <2> QED BY <2>1, <2>2, <2>3, <2>4 DEF manager
<1>6. CASE Sector /\ ~UNCHANGED touched
  <2>1. op.step \in VolumeSteps /\ op.step = "sector" /\ UNCHANGED manager
    BY <1>6 DEF Sector, VolumeSteps
  <2>2. touched'[2] = op.drive /\ touched'[3] = slot[op.pdrv]
    BY <1>6 DEF Sector
  <2>3. op.drive \in Drives /\ block[op.drive] \in Blocks
    BY <2>1 DEF IInv, Steps, StepTypes
  <2>4. Listed(op.drive) => slot[op.pdrv] = op.drive
    BY <2>1 DEF IInv, Steps, StepsOwn, Placed
  <2>5. Listed(touched[2])' => Listed(op.drive)
    BY <2>1, <2>2 DEF Listed, manager
  <2> QED BY <2>1, <2>2, <2>3, <2>4, <2>5 DEF manager
<1> QED BY <1>1, <1>2, <1>3, <1>4, <1>5, <1>6, TouchedBy

\* Neither memory that was freed and reused nor an index that was given away
\* leads a file or label command to another drive while its own is in the list.
THEOREM StraysUnlisted == Spec => []StrayOnlyUnlisted
<1>1. Init => StrayInv
  BY ConstantsAssumption DEF Init, Nothing, StrayInv, StrayOnlyUnlisted
<1>2. StrayInv => StrayOnlyUnlisted
  BY DEF StrayInv
<1> QED BY <1>1, <1>2, Invariance, StrayStep, PTL DEF Spec

\* What passes the id check is the mount the FIL was opened in, whatever the
\* block was used for in between, unless the ids have come round.
THEOREM OnlyOwnValidated == Spec => ValidatedIsOwn
<1>1. IInv /\ [Next]_vars =>
        [op.step = "validate" /\ op'.step = "pdrv" /\ fsid - handle.mount < IdWord
            => /\ mem[handle.block].mount = handle.mount
               /\ slot[mem[handle.block].pdrv] \in {handle.drive, Lost}]_vars
  <2> SUFFICES ASSUME IInv, Next, op.step = "validate", op'.step = "pdrv",
                      fsid - handle.mount < IdWord
               PROVE  /\ mem[handle.block].mount = handle.mount
                      /\ slot[mem[handle.block].pdrv] \in {handle.drive, Lost}
    OBVIOUS
  <2>1. IdMatches
    <3>1. op \in Operations /\ Idle.step = "idle"
      BY DEF IInv, TypeOK, Idle
    <3>2. CASE Validate
      BY <3>1, <3>2 DEF Validate, Finish, Return, Operations
    <3>3. ~Validate => op' = op \/ op.step # "validate"
      BY DEF Next, Manager, LoseAll, Plug, Unplug, Attach, Drop, command, Proceed, FileCommand,
         Command, Begin, Check, LookUp, PathBody, OpenDir, ReadDir, Unlink, CloseDir, FindFs,
         TestType, MountAgain, Initialize, Remount, ReadPdrv, Status, Address, Sector, Done,
         SecondCall
    <3> QED BY <3>2, <3>3
  <2>2. /\ handle.block # Null /\ mem[handle.block].on /\ mem[handle.block].id = handle.id
        /\ handle.block \in Blocks
    BY <2>1 DEF IdMatches, IInv, TypeOK, Handles
  <2>3. /\ handle.mount \in Nat /\ mem[handle.block].mount \in Nat /\ fsid \in Nat
        /\ handle.mount =< mem[handle.block].mount /\ mem[handle.block].mount =< fsid
        /\ handle.mount % IdWord = mem[handle.block].mount % IdWord
        /\ mem[handle.block].mount = handle.mount =>
               slot[mem[handle.block].pdrv] \in {handle.drive, Lost}
    BY <2>2 DEF IInv, TypeOK, Handles, HandleOwn, Numbered
  <2> DEFINE a == handle.mount  b == mem[handle.block].mount
  <2>4. b - a < IdWord
    <3> HIDE DEF a, b
    <3> QED BY <2>3, ConstantsAssumption DEF a, b
  <2>5. a = b
    BY <2>3, <2>4, SameNumber, ConstantsAssumption
  <2> QED BY <2>3, <2>5
<1> QED BY <1>1, Invariance, PTL DEF Spec, ValidatedIsOwn
=============================================================================
