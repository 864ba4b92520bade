----------------------------- MODULE FatLockProofs -----------------------------
(***************************************************************************)
(* Theorems about FatLock, for every number of volumes, directories and    *)
(* lock entries, and for fewer than 256 open objects (FewHandles).         *)
(*                                                                         *)
(* The invariant says what a count counts: the entry of an object of a     *)
(* mounted volume has exactly as many holders as ctr says, or one holder   *)
(* that writes; an entry of a volume that is not mounted may be anything.  *)
(***************************************************************************)
EXTENDS FatLock, FiniteSetTheorems, WellFoundedInduction, TLAPS

\* A non-empty set of lock entries has a first one.
LEMMA LeastOf ==
    ASSUME NEW n \in Nat, NEW S \in SUBSET (1 .. n), S # {} PROVE \E i \in S : \A j \in S : i <= j
<1> DEFINE R == {ss \in Nat \X Nat : ss[1] < ss[2]}
<1>1. IsWellFoundedOn(R, Nat)
  BY NatLessThanWellFounded DEF OpToRel
<1>2. S \subseteq Nat
  OBVIOUS
<1>3. PICK i \in S : \A j \in S : <<j, i>> \notin R
  <2> HIDE DEF R
  <2> QED
    BY <1>1, <1>2, WFMin
<1>4. \A j \in S : ~(j < i)
  BY <1>2, <1>3
<1> QED
  BY <1>2, <1>4

Holders(i) == {h \in Handles : Current(h) /\ handle[h].lockid = i}

\* Mounts are numbered upwards, so a new mount makes no old handle current.
Numbered ==
    /\ \A v \in Volumes : mount[v] <= fsid
    /\ \A h \in Handles :
        /\ handle[h].id <= fsid
        /\ handle[h].state # "free" => handle[h].fs \in Volumes

\* An object has one entry, and an entry is blank exactly when nothing counts.
Entered ==
    /\ \A i, j \in Slots :
        Files[i].fs # Null /\ Files[i].fs = Files[j].fs /\ Files[i].at = Files[j].at => i = j
    /\ \A i \in Slots : Files[i].fs = Null <=> Files[i].ctr = 0

\* A handle's lockid leads to the entry of its own object; only the root
\* directory is not locked, and only files are written.
Held ==
    \A h \in Handles : Current(h) =>
        /\ handle[h].lockid = 0 <=> handle[h].at = <<Root, 0>>
        /\ handle[h].lockid # 0 =>
            /\ Files[handle[h].lockid].fs = handle[h].fs
            /\ Files[handle[h].lockid].at = handle[h].at
        /\ handle[h].write => ~IsDir(h)

\* What the count of an entry says.
Counted ==
    \A i \in Slots : Files[i].fs # Null =>
        (mount[Files[i].fs] # 0 =>
            /\ Holders(i) # {}
            /\ IF \E h \in Holders(i) : handle[h].write
               THEN Files[i].ctr = Writing /\ Cardinality(Holders(i)) = 1
               ELSE Files[i].ctr = Cardinality(Holders(i)))

\* One call of f_close or f_closedir at a time; if its volume went away under
\* it, the entry it is about to decrement is nobody else's.
OneClosing ==
    /\ \A g, h \in Handles :
        /\ handle[g].state \in {"synced", "releasing"}
        /\ handle[h].state \in {"synced", "releasing"}
        => g = h
    /\ \A h \in Handles :
        handle[h].state = "releasing" /\ ~Current(h) /\ handle[h].lockid # 0 =>
            \/ Files[handle[h].lockid].fs = Null
            \/ mount[Files[handle[h].lockid].fs] = 0

IInv ==
    /\ TypeOK /\ Numbered /\ Entered /\ Held /\ Counted /\ OneClosing
    /\ OpenFilesStay /\ LockedMeansHeld /\ NoInternalError

-----------------------------------------------------------------------------
(* The searches *)

\* First answers an element, or 0 for the empty set.
LEMMA FirstIn ==
  ASSUME NEW S \in SUBSET Slots
  PROVE  /\ S = {} => First(S) = 0
         /\ S # {} => First(S) \in S
<1>1. ASSUME S # {} PROVE \E i \in S : \A j \in S : i <= j
  BY <1>1, LeastOf, LockAssumption DEF Slots
<1> QED
  BY <1>1 DEF First

\* Find answers the entry of the object; 0 means that it has none.
LEMMA FindWorks ==
  ASSUME NEW v, NEW at
  PROVE  /\ Find(v, at) # 0 => /\ Find(v, at) \in Slots
                               /\ Files[Find(v, at)].fs = v
                               /\ Files[Find(v, at)].at = at
         /\ Find(v, at) = 0 => \A i \in Slots : ~(Files[i].fs = v /\ Files[i].at = at)
<1> DEFINE S == {i \in Slots : Files[i].fs = v /\ Files[i].at = at}
<1>1. S \in SUBSET Slots /\ Find(v, at) = First(S)
  BY DEF Find
<1>2. 0 \notin Slots
  BY DEF Slots
<1> QED
  BY <1>1, <1>2, FirstIn

\* FirstBlank answers a blank entry; 0 means that there is none.
LEMMA BlankWorks ==
  /\ FirstBlank # 0 => FirstBlank \in Slots /\ Files[FirstBlank].fs = Null
  /\ FirstBlank = 0 => \A i \in Slots : Files[i].fs # Null
<1> DEFINE S == {i \in Slots : Files[i].fs = Null}
<1>1. S \in SUBSET Slots /\ FirstBlank = First(S)
  BY DEF FirstBlank
<1>2. 0 \notin Slots
  BY DEF Slots
<1> QED
  BY <1>1, <1>2, FirstIn

LEMMA HoldersFinite ==
  ASSUME NEW i
  PROVE  /\ IsFiniteSet(Holders(i))
         /\ Cardinality(Holders(i)) \in Nat
         /\ Cardinality(Holders(i)) < Writing
<1>1. Holders(i) \in SUBSET Handles
  BY DEF Holders
<1>2. IsFiniteSet(Holders(i)) /\ Cardinality(Holders(i)) <= Cardinality(Handles)
  BY <1>1, FewHandles, FS_Subset
<1>3. Cardinality(Holders(i)) \in Nat /\ Cardinality(Handles) \in Nat
  BY <1>2, FewHandles, FS_CardinalityType
<1> QED
  BY <1>2, <1>3, FewHandles DEF Writing

-----------------------------------------------------------------------------
(* Types *)

LEMMA EntryTypes ==
  /\ Entries \subseteq Objects
  /\ \A e \in Entries : e[1] \in Dirs /\ e[2] \in Offsets /\ e[2] # 0 /\ e # <<Root, 0>>
  /\ \A d \in Dirs : <<d, 0>> \in Objects
  /\ Null \notin Volumes
  BY LockAssumption DEF Entries, Objects, Dirs

LEMMA LockTypes ==
  ASSUME TypeOK, NEW v \in Volumes, NEW at \in Objects, LockId(v, at) # 0
  PROVE  /\ LockId(v, at) \in Slots
         /\ Count(v, at) \in 0 .. Writing
         /\ Find(v, at) = 0 => Count(v, at) = 0 /\ Files[LockId(v, at)].fs = Null
         /\ Find(v, at) # 0 => LockId(v, at) = Find(v, at)
  BY FindWorks, BlankWorks DEF TypeOK, LockId, Count, Writing

-----------------------------------------------------------------------------
(* Opening *)

\* What the entry that Find answers says of an object of a mounted volume.
LEMMA Found ==
  ASSUME IInv, NEW v \in Volumes, mount[v] # 0, NEW at \in Objects, Find(v, at) # 0
  PROVE  LET H == Holders(Find(v, at)) IN
         /\ H # {}
         /\ \A h \in H : Current(h) /\ handle[h].fs = v /\ handle[h].at = at
         /\ Count(v, at) = Writing => \E h \in H : handle[h].write
         /\ Count(v, at) # Writing => /\ \A h \in H : ~handle[h].write
                                      /\ Count(v, at) = Cardinality(H)
<1> DEFINE i == Find(v, at)
<1>1. i \in Slots /\ Files[i].fs = v /\ Files[i].at = at /\ i # 0
  BY FindWorks DEF Slots
<1>2. Count(v, at) = Files[i].ctr
  BY <1>1 DEF Count
<1>3. v # Null
  BY EntryTypes
<1>4. /\ Holders(i) # {}
      /\ IF \E h \in Holders(i) : handle[h].write
         THEN Files[i].ctr = Writing /\ Cardinality(Holders(i)) = 1
         ELSE Files[i].ctr = Cardinality(Holders(i))
  BY <1>1, <1>3 DEF IInv, Counted
<1>5. ASSUME NEW h \in Holders(i)
      PROVE  Current(h) /\ handle[h].fs = v /\ handle[h].at = at
  <2>1. h \in Handles /\ Current(h) /\ handle[h].lockid = i
    BY <1>5 DEF Holders
  <2> QED
    BY <2>1, <1>1 DEF IInv, Held
<1>6. Cardinality(Holders(i)) # Writing
  BY HoldersFinite DEF Writing
<1> HIDE DEF i
<1>7. /\ Count(v, at) = Writing => \E h \in Holders(i) : handle[h].write
      /\ Count(v, at) # Writing => /\ \A h \in Holders(i) : ~handle[h].write
                                   /\ Count(v, at) = Cardinality(Holders(i))
  BY <1>2, <1>4, <1>6
<1> QED
  BY <1>4, <1>5, <1>7 DEF i

\* The condition under which inc_lock succeeds, and counts right.
Lockable(v, at, acc) ==
    /\ LockId(v, at) # 0
    /\ Find(v, at) = 0 \/ (acc = "read" /\ Count(v, at) # Writing)

\* chk_lock is the condition inc_lock needs.
LEMMA ChkLockSuffices ==
  ASSUME NEW v, NEW at, NEW acc \in {"read", "write"}, ChkLock(v, at, acc) = "ok"
  PROVE  Lockable(v, at, acc)
<1>1. CASE Find(v, at) = 0
  BY <1>1 DEF ChkLock, Lockable, LockId
<1>2. CASE Find(v, at) # 0
  BY <1>2 DEF ChkLock, Lockable, LockId, Count
<1> QED
  BY <1>1, <1>2

\* enq_lock is, because a new directory entry has no entry in Files[] yet.
LEMMA EnqLockSuffices ==
  ASSUME IInv, NEW v \in Volumes, mount[v] # 0, NEW e \in Entries,
         tree[v][e] = Null, FirstBlank # 0
  PROVE  Lockable(v, e, "write")
<1>1. ASSUME Find(v, e) # 0 PROVE FALSE
  <2>1. PICK h \in Holders(Find(v, e)) : Current(h) /\ handle[h].fs = v /\ handle[h].at = e
    BY <1>1, Found, EntryTypes
  <2>2. h \in Handles /\ ~IsDir(h)
    BY <2>1, EntryTypes DEF Holders, IsDir
  <2>3. tree[v][e] = File
    BY <2>1, <2>2 DEF IInv, OpenFilesStay
  <2> QED
    BY <2>3, LockAssumption
<1> QED
  BY <1>1 DEF Lockable, LockId

\* A directory is never open for writing, so f_opendir needs no check.
LEMMA OpenDirSuffices ==
  ASSUME IInv, NEW v \in Volumes, mount[v] # 0, NEW d \in Dirs, LockId(v, <<d, 0>>) # 0
  PROVE  Lockable(v, <<d, 0>>, "read")
<1>1. ASSUME Find(v, <<d, 0>>) # 0, Count(v, <<d, 0>>) = Writing PROVE FALSE
  <2>1. PICK h \in Holders(Find(v, <<d, 0>>)) : handle[h].write
    BY <1>1, Found, EntryTypes
  <2>2. Current(h) /\ handle[h].at = <<d, 0>>
    BY <1>1, <2>1, Found, EntryTypes
  <2>3. h \in Handles
    BY <2>1 DEF Holders
  <2>4. handle[h].at[2] = 0
    BY <2>2
  <2> QED
    BY <2>1, <2>2, <2>3, <2>4 DEF IInv, Held, IsDir
<1> QED
  BY <1>1 DEF Lockable

LEMMA LockableTypes ==
  ASSUME TypeOK, NEW v \in Volumes, NEW at \in Objects, NEW acc \in {"read", "write"},
         Lockable(v, at, acc)
  PROVE  /\ LockId(v, at) \in Slots
         /\ ~Violation(v, at, acc)
         /\ (IF acc = "read" THEN Count(v, at) + 1 ELSE Writing) \in 1 .. Writing
<1>1. LockId(v, at) \in Slots /\ Count(v, at) \in 0 .. Writing /\ (Find(v, at) = 0 => Count(v, at) = 0)
  BY LockTypes DEF Lockable
<1>2. acc = "read" => Count(v, at) + 1 \in 1 .. Writing
  BY <1>1 DEF Lockable, Writing
<1> QED
  BY <1>1, <1>2 DEF Lockable, Violation, Slots, Writing

\* What inc_lock and the handle it is for do to the invariant.
LEMMA OpenKeeps ==
  ASSUME IInv, NEW h \in Handles, NEW v \in Volumes, NEW at \in Objects,
         NEW acc \in {"read", "write"}, NEW state \in {"open", "left"},
         PathCall(v), handle[h].state = "free", Lockable(v, at, acc),
         at # <<Root, 0>>, acc = "write" => at[2] # 0,
         IncLock(v, at, acc), Opened(h, v, at, acc, state), UNCHANGED <<mount, fsid>>
  PROVE  /\ Files' \in [Slots -> [fs : Volumes \union {Null}, at : Objects, ctr : 0 .. Writing]]
         /\ handle' \in [Handles -> HandleRecords]
         /\ Numbered' /\ Entered' /\ Held' /\ Counted' /\ OneClosing'
         /\ \A g \in Handles : Current(g)' <=> Current(g) \/ g = h
<1> DEFINE i == LockId(v, at)
           n == IF acc = "read" THEN Count(v, at) + 1 ELSE Writing
           new == [state |-> state, fs |-> v, id |-> mount[v], at |-> at,
                   lockid |-> i, write |-> acc = "write"]
<1>. TypeOK /\ Numbered /\ Entered /\ Held /\ Counted /\ OneClosing
  BY DEF IInv
<1>1. i \in Slots /\ n \in 1 .. Writing /\ i # 0
  BY LockableTypes DEF Slots
<1>2. Files' = [Files EXCEPT ![i] = [fs |-> v, at |-> at, ctr |-> n]]
  BY DEF IncLock
<1>3. handle' = [handle EXCEPT ![h] = new]
  BY DEF Opened
<1>4. mount[v] # 0 /\ \A g \in Handles : handle[g].state \notin {"synced", "releasing"}
  BY DEF PathCall
<1>5. v # Null /\ mount[v] \in Nat
  BY EntryTypes DEF TypeOK
<1>6. /\ Find(v, at) # 0 => i = Find(v, at) /\ Files[i].fs = v /\ Files[i].at = at
      /\ Find(v, at) = 0 => Files[i].fs = Null /\ \A j \in Slots : ~(Files[j].fs = v /\ Files[j].at = at)
  BY FindWorks, LockTypes DEF Lockable
<1>7. ~Current(h)
  BY DEF Current
<1> HIDE DEF i, n
<1>8. Files' \in [Slots -> [fs : Volumes \union {Null}, at : Objects, ctr : 0 .. Writing]]
  BY <1>1, <1>2 DEF TypeOK, Writing
<1>9. new \in HandleRecords
  BY <1>1, <1>5 DEF HandleRecords, Slots
<1>10. handle' \in [Handles -> HandleRecords]
  BY <1>3, <1>9 DEF TypeOK
<1>11. /\ handle'[h] = new
       /\ \A g \in Handles : g # h => handle'[g] = handle[g]
  BY <1>3 DEF TypeOK
<1>12. /\ Files'[i] = [fs |-> v, at |-> at, ctr |-> n]
       /\ \A j \in Slots : j # i => Files'[j] = Files[j]
  BY <1>1, <1>2 DEF TypeOK
<1>22. /\ handle'[h].lockid = i /\ handle'[h].at = at /\ handle'[h].fs = v
      /\ handle'[h].write = (acc = "write") /\ handle'[h].state = state
  BY <1>11
<1>23. Files'[i].fs = v /\ Files'[i].at = at /\ Files'[i].ctr = n
  BY <1>12
<1>13. \A g \in Handles : Current(g)' <=> Current(g) \/ g = h
  BY <1>4, <1>5, <1>7, <1>11 DEF Current
<1>14. Numbered'
  BY <1>11 DEF Numbered, TypeOK
<1>15. Entered'
  BY <1>1, <1>5, <1>6, <1>12 DEF Entered, Writing
<1>16. Held'
  <2> SUFFICES ASSUME NEW g \in Handles, Current(g)'
               PROVE  /\ handle'[g].lockid = 0 <=> handle'[g].at = <<Root, 0>>
                      /\ handle'[g].lockid # 0 =>
                            /\ Files'[handle'[g].lockid].fs = handle'[g].fs
                            /\ Files'[handle'[g].lockid].at = handle'[g].at
                      /\ handle'[g].write => handle'[g].at[2] # 0
    BY DEF Held, IsDir
  <2>1. CASE g = h
    BY <2>1, <1>1, <1>22, <1>23
  <2>2. CASE g # h
    <3>1. Current(g) /\ handle'[g] = handle[g]
      BY <2>2, <1>11, <1>13
    <3>2. /\ handle[g].lockid = 0 <=> handle[g].at = <<Root, 0>>
          /\ handle[g].lockid # 0 =>
                /\ Files[handle[g].lockid].fs = handle[g].fs
                /\ Files[handle[g].lockid].at = handle[g].at
          /\ handle[g].write => handle[g].at[2] # 0
      BY <3>1 DEF Held, IsDir
    <3>3. handle[g].lockid \in Slots \union {0} /\ handle[g].fs \in Volumes
      BY <3>1 DEF TypeOK, HandleRecords, Numbered, Current, Slots
    <3>4. handle[g].lockid = i => Find(v, at) # 0
      BY <3>2, <3>3, <1>1, <1>6, EntryTypes
    <3> QED
      BY <3>1, <3>2, <3>3, <3>4, <1>1, <1>6, <1>12
  <2> QED
    BY <2>1, <2>2
<1>17. \A j \in Slots : Holders(j)' = IF j = i THEN Holders(j) \union {h} ELSE Holders(j)
  BY <1>7, <1>11, <1>13 DEF Holders
<1>18. h \notin Holders(i)
  BY <1>7 DEF Holders
<1>19. Cardinality(Holders(i) \union {h}) = Cardinality(Holders(i)) + 1
  BY <1>18, HoldersFinite, FS_AddElement
<1>20. Counted'
  <2> DEFINE Right(j) == /\ Holders(j)' # {}
                         /\ IF \E g \in Holders(j)' : handle'[g].write
                            THEN Files'[j].ctr = Writing /\ Cardinality(Holders(j)') = 1
                            ELSE Files'[j].ctr = Cardinality(Holders(j)')
  <2>1. ASSUME NEW j \in Slots, j # i, Files'[j].fs # Null, mount[Files'[j].fs] # 0
        PROVE  Right(j)
    <3>1. Files'[j] = Files[j] /\ Holders(j)' = Holders(j)
      BY <2>1, <1>12, <1>17
    <3>2. \A g \in Holders(j) : handle'[g] = handle[g]
      <4> TAKE g \in Holders(j)
      <4>1. g \in Handles /\ g # h
        BY <1>7 DEF Holders
      <4> QED
        BY <4>1, <1>11
    <3>3. /\ Holders(j) # {}
          /\ IF \E g \in Holders(j) : handle[g].write
             THEN Files[j].ctr = Writing /\ Cardinality(Holders(j)) = 1
             ELSE Files[j].ctr = Cardinality(Holders(j))
      BY <2>1, <3>1 DEF Counted
    <3> QED
      BY <3>1, <3>2, <3>3
  <2>2. ASSUME NEW j \in Slots, j = i PROVE Right(j)
    <3>1. Holders(j)' = Holders(i) \union {h} /\ Files'[j].ctr = n
      <4>1. Holders(j)' = Holders(j) \union {h}
        BY <2>2, <1>17
      <4>2. Holders(j) = Holders(i)
        BY <2>2
      <4> QED
        BY <2>2, <4>1, <4>2, <1>23
    <3>2. CASE Find(v, at) = 0
      <4>1. Holders(i) = {}
        <5> SUFFICES ASSUME NEW g \in Holders(i) PROVE FALSE
          OBVIOUS
        <5>1. g \in Handles /\ Current(g) /\ handle[g].lockid = i
          BY DEF Holders
        <5>2. Files[i].fs = handle[g].fs /\ handle[g].fs \in Volumes
          BY <5>1, <1>1 DEF Held, Numbered, Current
        <5> QED
          BY <5>2, <3>2, <1>6, EntryTypes
      <4>2. Holders(j)' = {h} /\ Cardinality({h}) = 1
        BY <3>1, <4>1, FS_Singleton
      <4>3. handle'[h].write = (acc = "write")
        BY <1>11
      <4>4. n = IF acc = "read" THEN 1 ELSE Writing
        BY <3>2, LockTypes DEF n, Lockable
      <4> QED
        BY <3>1, <4>2, <4>3, <4>4
    <3>3. CASE Find(v, at) # 0
      <4>1. acc = "read" /\ Count(v, at) # Writing /\ i = Find(v, at)
        BY <3>3, <1>6 DEF Lockable
      <4>2. (\A g \in Holders(i) : ~handle[g].write) /\ Count(v, at) = Cardinality(Holders(i))
        BY <3>3, <4>1, <1>4, Found
      <4>3. \A g \in Holders(j)' : ~handle'[g].write
        <5> TAKE g \in Holders(j)'
        <5>1. CASE g = h
          BY <5>1, <4>1, <1>22
        <5>2. CASE g # h
          <6>1. g \in Holders(i) /\ g \in Handles
            BY <5>2, <3>1 DEF Holders
          <6> QED
            BY <6>1, <5>2, <4>2, <1>11
        <5> QED
          BY <5>1, <5>2
      <4>4. n = Cardinality(Holders(i)) + 1
        BY <4>1, <4>2 DEF n
      <4> QED
        BY <3>1, <4>3, <4>4, <1>19
    <3> QED
      BY <3>2, <3>3
  <2>3. ASSUME NEW j \in Slots, Files'[j].fs # Null, mount'[Files'[j].fs] # 0 PROVE Right(j)
    BY <2>1, <2>2, <2>3
  <2> QED
    BY <2>3 DEF Counted
<1>21. OneClosing'
  <2>1. \A g \in Handles : handle'[g].state \notin {"synced", "releasing"}
    BY <1>4, <1>11
  <2> QED
    BY <2>1 DEF OneClosing
<1> QED
  BY <1>8, <1>10, <1>13, <1>14, <1>15, <1>16, <1>20, <1>21

-----------------------------------------------------------------------------
(* Calls that leave the table alone *)

LEMMA LocksUnchanged ==
  ASSUME IInv, UNCHANGED <<mount, fsid, Files, handle>>
  PROVE  /\ Numbered' /\ Entered' /\ Held' /\ Counted' /\ OneClosing'
         /\ \A h \in Handles : Current(h)' <=> Current(h)
<1>1. \A h \in Handles : Current(h)' <=> Current(h)
  BY DEF Current
<1>2. \A i \in Slots : Holders(i)' = Holders(i)
  BY <1>1 DEF Holders
<1>3. Numbered' /\ Entered' /\ Held' /\ OneClosing'
  BY <1>1 DEF IInv, Numbered, Entered, Held, OneClosing, IsDir
<1>4. Counted'
  BY <1>2 DEF IInv, Counted
<1> QED
  BY <1>1, <1>3, <1>4

Refusals ==
    [code : {"none", "locked", "too_many", "int_err"},
     fs : Volumes \union {Null}, at : Objects]

LEMMA DoneKeeps ==
  ASSUME Done
  PROVE  refused' \in Refusals /\ LockedMeansHeld' /\ NoInternalError'
<1>1. <<Root, 0>> \in Objects
  BY DEF Objects, Dirs
<1> QED
  BY <1>1 DEF Done, Nothing, Refusals, LockedMeansHeld, NoInternalError

LEMMA TooManyKeeps ==
  ASSUME NEW v \in Volumes, NEW at \in Objects, Refuse("too_many", v, at)
  PROVE  refused' \in Refusals /\ LockedMeansHeld' /\ NoInternalError'
  BY DEF Refuse, Refusals, LockedMeansHeld, NoInternalError

\* FR_LOCKED names an object that chk_lock found in the table.
LEMMA RefusedKeeps ==
  ASSUME IInv, NEW v \in Volumes, mount[v] # 0, NEW at \in Objects,
         NEW acc \in {"read", "write", "delete"}, ChkLock(v, at, acc) # "ok",
         Refuse(ChkLock(v, at, acc), v, at), UNCHANGED <<mount, handle>>
  PROVE  refused' \in Refusals /\ LockedMeansHeld' /\ NoInternalError'
<1>1. ChkLock(v, at, acc) \in {"locked", "too_many"}
  BY DEF ChkLock
<1>2. refused' = [code |-> ChkLock(v, at, acc), fs |-> v, at |-> at]
  BY DEF Refuse
<1>3. CASE Find(v, at) = 0
  <2>1. ChkLock(v, at, acc) = "too_many"
    BY <1>1, <1>3 DEF ChkLock
  <2> QED
    BY <1>2, <2>1 DEF Refusals, LockedMeansHeld, NoInternalError
<1>4. CASE Find(v, at) # 0
  <2>1. PICK h \in Holders(Find(v, at)) : Current(h) /\ handle[h].fs = v /\ handle[h].at = at
    BY <1>4, Found
  <2>2. h \in Handles
    BY <2>1 DEF Holders
  <2>3. Current(h)' /\ handle'[h].fs = v /\ handle'[h].at = at
    BY <2>1 DEF Current
  <2>4. LockedMeansHeld'
    BY <1>2, <2>2, <2>3 DEF LockedMeansHeld
  <2> QED
    BY <1>1, <1>2, <2>4 DEF Refusals, NoInternalError
<1> QED
  BY <1>3, <1>4

\* An object without an entry in the table is not open.
LEMMA NotOpen ==
  ASSUME IInv, NEW v \in Volumes, NEW e \in Entries, Find(v, e) = 0,
         NEW h \in Handles, Current(h), handle[h].fs = v
  PROVE  handle[h].at # e
<1>1. SUFFICES ASSUME handle[h].at = e PROVE FALSE
  OBVIOUS
<1>2. handle[h].lockid # 0
  BY <1>1, EntryTypes DEF IInv, Held
<1>3. handle[h].lockid \in Slots
  BY <1>2 DEF IInv, TypeOK, HandleRecords, Slots
<1>4. Files[handle[h].lockid].fs = v /\ Files[handle[h].lockid].at = e
  BY <1>1, <1>2 DEF IInv, Held
<1> QED
  BY <1>3, <1>4, FindWorks

LEMMA FileEntries ==
  ASSUME IInv, NEW h \in Handles, Current(h), ~IsDir(h)
  PROVE  /\ handle[h].at \in Entries /\ handle[h].fs \in Volumes
         /\ tree[handle[h].fs][handle[h].at] = File
<1>1. handle[h].at \in Objects /\ handle[h].at[2] # 0
  BY DEF IInv, TypeOK, HandleRecords, IsDir
<1>2. handle[h].at \in Entries
  BY <1>1 DEF Objects, Entries
<1> QED
  BY <1>2 DEF IInv, OpenFilesStay, Numbered, Current

\* A call that changes the content of one entry, which is not open.
LEMMA TreeKeeps ==
  ASSUME IInv, NEW v \in Volumes, NEW e \in Entries, NEW x,
         tree' = [tree EXCEPT ![v] = [@ EXCEPT ![e] = x]], UNCHANGED <<mount, handle>>,
         tree[v][e] # File \/ Find(v, e) = 0
  PROVE  OpenFilesStay'
<1> SUFFICES ASSUME NEW h \in Handles, Current(h)', ~IsDir(h)'
             PROVE  tree'[handle'[h].fs][handle'[h].at] = File
  BY DEF OpenFilesStay
<1>1. Current(h) /\ ~IsDir(h)
  BY DEF Current, IsDir
<1>2. handle[h].at \in Entries /\ handle[h].fs \in Volumes /\ tree[handle[h].fs][handle[h].at] = File
  BY <1>1, FileEntries
<1>3. ~(handle[h].fs = v /\ handle[h].at = e)
  BY <1>1, <1>2, NotOpen
<1>4. tree'[handle[h].fs][handle[h].at] = tree[handle[h].fs][handle[h].at]
  BY <1>2, <1>3 DEF IInv, TypeOK
<1> QED
  BY <1>2, <1>4

LEMMA TreeType ==
  ASSUME IInv, NEW v \in Volumes, NEW e \in Entries, NEW x \in Clusters \union {File, Null},
         tree' = [tree EXCEPT ![v] = [@ EXCEPT ![e] = x]]
  PROVE  tree' \in [Volumes -> [Entries -> Clusters \union {File, Null}]]
  BY DEF IInv, TypeOK

-----------------------------------------------------------------------------
(* The calls on paths *)

\* Unlink, Rename and Mkdir touch neither the table nor a handle.
LEMMA NamingStep ==
  ASSUME IInv, UNCHANGED <<mount, fsid, Files, handle>>,
         tree' \in [Volumes -> [Entries -> Clusters \union {File, Null}]],
         refused' \in Refusals,
         OpenFilesStay', LockedMeansHeld', NoInternalError'
  PROVE  IInv'
<1>1. TypeOK'
  BY DEF IInv, TypeOK, Refusals
<1> QED
  BY <1>1, LocksUnchanged DEF IInv

\* A call that changes nothing but refused.
LEMMA RefusedStep ==
  ASSUME IInv, UNCHANGED <<tree, mount, fsid, Files, handle>>,
         refused' \in Refusals, LockedMeansHeld', NoInternalError'
  PROVE  IInv'
<1>1. tree' \in [Volumes -> [Entries -> Clusters \union {File, Null}]]
  BY DEF IInv, TypeOK
<1>2. OpenFilesStay'
  BY DEF IInv, OpenFilesStay, Current, IsDir
<1> QED
  BY <1>1, <1>2, NamingStep

\* An object that chk_lock lets a call remove has no entry in the table.
LEMMA DeleteUnlocked ==
  ASSUME NEW v, NEW at, ChkLock(v, at, "delete") = "ok"
  PROVE  Find(v, at) = 0
  BY DEF ChkLock

LEMMA UnlinkKeeps ==
  ASSUME IInv, NEW v \in Volumes, NEW e \in Entries, Unlink(v, e)
  PROVE  IInv'
<1>1. UNCHANGED <<mount, fsid, Files, handle>> /\ mount[v] # 0 /\ e \in Objects
  BY EntryTypes DEF Unlink, PathCall
<1>2. CASE ChkLock(v, e, "delete") = "ok"
  <2>1. tree' = [tree EXCEPT ![v] = [@ EXCEPT ![e] = Null]] /\ Done
    BY <1>2 DEF Unlink
  <2>2. OpenFilesStay'
    BY <1>1, <1>2, <2>1, DeleteUnlocked, TreeKeeps
  <2> QED
    BY <1>1, <2>1, <2>2, DoneKeeps, TreeType, NamingStep
<1>3. CASE ChkLock(v, e, "delete") # "ok"
  <2>1. Refuse(ChkLock(v, e, "delete"), v, e) /\ UNCHANGED tree
    BY <1>3 DEF Unlink
  <2> QED
    BY <1>1, <1>3, <2>1, RefusedKeeps, RefusedStep
<1> QED
  BY <1>2, <1>3

LEMMA RenameKeeps ==
  ASSUME IInv, NEW v \in Volumes, NEW e \in Entries, NEW n \in Entries, Rename(v, e, n)
  PROVE  IInv'
<1>1. UNCHANGED <<mount, fsid, Files, handle>> /\ mount[v] # 0 /\ e \in Objects
  BY EntryTypes DEF Rename, PathCall
<1>2. CASE ChkLock(v, e, "delete") = "ok"
  <2>1. tree' = [tree EXCEPT ![v] = [[@ EXCEPT ![e] = Null] EXCEPT ![n] = tree[v][e]]] /\ Done
    BY <1>2 DEF Rename, IInv, TypeOK
  <2>2. tree' \in [Volumes -> [Entries -> Clusters \union {File, Null}]]
    BY <2>1 DEF IInv, TypeOK
  <2>3. tree[v][n] # File /\ Find(v, e) = 0
    BY <1>2, DeleteUnlocked, LockAssumption DEF Rename
  <2>4. OpenFilesStay'
    <3> SUFFICES ASSUME NEW h \in Handles, Current(h)', ~IsDir(h)'
                 PROVE  tree'[handle'[h].fs][handle'[h].at] = File
      BY DEF OpenFilesStay
    <3>1. Current(h) /\ ~IsDir(h) /\ handle'[h] = handle[h]
      BY <1>1 DEF Current, IsDir
    <3>2. /\ handle[h].at \in Entries /\ handle[h].fs \in Volumes
          /\ tree[handle[h].fs][handle[h].at] = File
      BY <3>1, FileEntries
    <3>3. ~(handle[h].fs = v /\ handle[h].at = e) /\ ~(handle[h].fs = v /\ handle[h].at = n)
      BY <2>3, <3>1, <3>2, NotOpen
    <3> QED
      BY <2>1, <3>1, <3>2, <3>3 DEF IInv, TypeOK
  <2> QED
    BY <1>1, <2>1, <2>2, <2>4, DoneKeeps, NamingStep
<1>3. CASE ChkLock(v, e, "delete") # "ok"
  <2>1. Refuse(ChkLock(v, e, "delete"), v, e) /\ UNCHANGED tree
    BY <1>3 DEF Rename
  <2> QED
    BY <1>1, <1>3, <2>1, RefusedKeeps, RefusedStep
<1> QED
  BY <1>2, <1>3

LEMMA MkdirKeeps ==
  ASSUME IInv, NEW v \in Volumes, NEW e \in Entries, NEW c \in Clusters, Mkdir(v, e, c)
  PROVE  IInv'
<1>1. UNCHANGED <<mount, fsid, Files, handle>> /\ Done /\ tree[v][e] # File
  BY LockAssumption DEF Mkdir
<1>2. tree' = [tree EXCEPT ![v] = [@ EXCEPT ![e] = c]]
  BY DEF Mkdir
<1> QED
  BY <1>1, <1>2, DoneKeeps, TreeType, TreeKeeps, NamingStep

\* A successful open, of whatever kind.
LEMMA OpenStep ==
  ASSUME IInv, NEW h \in Handles, NEW v \in Volumes, NEW at \in Objects,
         NEW acc \in {"read", "write"}, NEW state \in {"open", "left"},
         PathCall(v), handle[h].state = "free", Lockable(v, at, acc),
         at # <<Root, 0>>, acc = "write" => at[2] # 0,
         IncLock(v, at, acc), Opened(h, v, at, acc, state), UNCHANGED <<mount, fsid>>,
         Done,
         tree' \in [Volumes -> [Entries -> Clusters \union {File, Null}]],
         \A u \in Volumes, x \in Entries : tree[u][x] = File => tree'[u][x] = File,
         at[2] # 0 => tree'[v][at] = File
  PROVE  IInv'
<1>1. /\ Files' \in [Slots -> [fs : Volumes \union {Null}, at : Objects, ctr : 0 .. Writing]]
      /\ handle' \in [Handles -> HandleRecords]
      /\ Numbered' /\ Entered' /\ Held' /\ Counted' /\ OneClosing'
      /\ \A g \in Handles : Current(g)' <=> Current(g) \/ g = h
  BY OpenKeeps
<1>2. refused' \in Refusals /\ LockedMeansHeld' /\ NoInternalError'
  BY DoneKeeps
<1>3. TypeOK'
  BY <1>1, <1>2 DEF IInv, TypeOK, Refusals
<1>4. OpenFilesStay'
  <2> SUFFICES ASSUME NEW g \in Handles, Current(g)', handle'[g].at[2] # 0
               PROVE  tree'[handle'[g].fs][handle'[g].at] = File
    BY DEF OpenFilesStay, IsDir
  <2>1. CASE g = h
    <3>1. handle'[g].fs = v /\ handle'[g].at = at
      BY <2>1 DEF Opened, IInv, TypeOK
    <3> QED
      BY <3>1
  <2>2. CASE g # h
    <3>1. Current(g) /\ handle'[g] = handle[g]
      BY <1>1, <2>2 DEF Opened, IInv, TypeOK
    <3>2. /\ handle[g].at \in Entries /\ handle[g].fs \in Volumes
          /\ tree[handle[g].fs][handle[g].at] = File
      BY <3>1, FileEntries DEF IsDir
    <3> QED
      BY <3>1, <3>2
  <2> QED
    BY <2>1, <2>2
<1> QED
  BY <1>1, <1>2, <1>3, <1>4 DEF IInv

\* inc_lock and the append seek: an open or a FIL left behind.
LEMMA LockOpens ==
  ASSUME TypeOK, NEW h \in Handles, NEW v \in Volumes, NEW at \in Objects,
         NEW acc \in {"read", "write"}, Lockable(v, at, acc), Lock(h, v, at, acc)
  PROVE  /\ IncLock(v, at, acc) /\ Done
         /\ \E state \in {"open", "left"} : Opened(h, v, at, acc, state)
  BY LockableTypes DEF Lock

LEMMA OpenExistingKeeps ==
  ASSUME IInv, NEW h \in Handles, NEW v \in Volumes, NEW e \in Entries,
         NEW acc \in {"read", "write"}, OpenExisting(h, v, e, acc)
  PROVE  IInv'
<1>1. /\ UNCHANGED <<tree, mount, fsid>> /\ PathCall(v) /\ handle[h].state = "free"
      /\ tree[v][e] = File /\ mount[v] # 0
      /\ e \in Objects /\ e[2] # 0 /\ e # <<Root, 0>>
  BY EntryTypes DEF OpenExisting, PathCall
<1>2. CASE ChkLock(v, e, acc) = "ok"
  <2>1. Lockable(v, e, acc) /\ Lock(h, v, e, acc) /\ TypeOK
    BY <1>2, ChkLockSuffices DEF OpenExisting, IInv
  <2>2. PICK state \in {"open", "left"} : Opened(h, v, e, acc, state)
    BY <1>1, <2>1, LockOpens
  <2>3. IncLock(v, e, acc) /\ Done
    BY <1>1, <2>1, LockOpens
  <2>4. tree' \in [Volumes -> [Entries -> Clusters \union {File, Null}]]
    BY <1>1, <2>1 DEF TypeOK
  <2> QED
    BY <1>1, <2>1, <2>2, <2>3, <2>4, OpenStep
<1>3. CASE ChkLock(v, e, acc) # "ok"
  <2>1. Refuse(ChkLock(v, e, acc), v, e) /\ UNCHANGED <<Files, handle>>
    BY <1>3 DEF OpenExisting
  <2> QED
    BY <1>1, <1>3, <2>1, RefusedKeeps, RefusedStep
<1> QED
  BY <1>2, <1>3

LEMMA OpenNewKeeps ==
  ASSUME IInv, NEW h \in Handles, NEW v \in Volumes, NEW e \in Entries, OpenNew(h, v, e)
  PROVE  IInv'
<1>1. /\ UNCHANGED <<mount, fsid>> /\ PathCall(v) /\ handle[h].state = "free"
      /\ tree[v][e] = Null /\ mount[v] # 0
      /\ e \in Objects /\ e[2] # 0 /\ e # <<Root, 0>>
  BY EntryTypes DEF OpenNew, PathCall
<1>2. CASE FirstBlank = 0
  <2>1. Refuse("too_many", v, e) /\ UNCHANGED <<tree, Files, handle>>
    BY <1>2 DEF OpenNew
  <2> QED
    BY <1>1, <2>1, TooManyKeeps, RefusedStep
<1>3. CASE FirstBlank # 0
  <2>1. tree' = [tree EXCEPT ![v] = [@ EXCEPT ![e] = File]] /\ Lock(h, v, e, "write")
    BY <1>3 DEF OpenNew
  <2>2. Lockable(v, e, "write") /\ TypeOK
    BY <1>1, <1>3, EnqLockSuffices DEF IInv
  <2>3. PICK state \in {"open", "left"} : Opened(h, v, e, "write", state)
    BY <1>1, <2>1, <2>2, LockOpens
  <2>4. IncLock(v, e, "write") /\ Done
    BY <1>1, <2>1, <2>2, LockOpens
  <2>5. /\ tree' \in [Volumes -> [Entries -> Clusters \union {File, Null}]]
        /\ \A u \in Volumes, x \in Entries : tree[u][x] = File => tree'[u][x] = File
        /\ tree'[v][e] = File
    BY <2>1, <2>2 DEF TypeOK
  <2> QED
    BY <1>1, <2>2, <2>3, <2>4, <2>5, OpenStep
<1> QED
  BY <1>2, <1>3

\* The root directory is open without an entry in the table.
LEMMA OpenRootStep ==
  ASSUME IInv, NEW h \in Handles, NEW v \in Volumes,
         PathCall(v), handle[h].state = "free",
         handle' = [handle EXCEPT ![h] =
             [state |-> "open", fs |-> v, id |-> mount[v], at |-> <<Root, 0>>,
              lockid |-> 0, write |-> FALSE]],
         Done, UNCHANGED <<tree, mount, fsid, Files>>
  PROVE  IInv'
<1>. TypeOK /\ Numbered /\ Entered /\ Held /\ Counted /\ OneClosing /\ OpenFilesStay
  BY DEF IInv
<1>1. /\ handle'[h].state = "open" /\ handle'[h].fs = v /\ handle'[h].id = mount[v]
      /\ handle'[h].at = <<Root, 0>> /\ handle'[h].lockid = 0 /\ ~handle'[h].write
      /\ \A g \in Handles : g # h => handle'[g] = handle[g]
  BY DEF TypeOK
<1>2. mount[v] # 0 /\ mount[v] \in Nat /\ \A g \in Handles : handle[g].state \notin {"synced", "releasing"}
  BY DEF PathCall, TypeOK
<1>3. ~Current(h) /\ \A g \in Handles : Current(g)' <=> Current(g) \/ g = h
  BY <1>1, <1>2 DEF Current
<1>4. handle' \in [Handles -> HandleRecords]
  <2>1. [state |-> "open", fs |-> v, id |-> mount[v], at |-> <<Root, 0>>,
         lockid |-> 0, write |-> FALSE] \in HandleRecords
    BY <1>2, LockAssumption, EntryTypes DEF HandleRecords, Dirs
  <2> QED
    BY <2>1 DEF TypeOK
<1>5. refused' \in Refusals /\ LockedMeansHeld' /\ NoInternalError'
  BY DoneKeeps
<1>6. TypeOK'
  BY <1>4, <1>5 DEF TypeOK, Refusals
<1>7. Numbered' /\ Entered' /\ OneClosing'
  BY <1>1, <1>2 DEF Numbered, Entered, OneClosing
<1>8. Held' /\ OpenFilesStay'
  BY <1>1, <1>3 DEF Held, OpenFilesStay, IsDir
<1>9. Counted'
  <2>1. \A j \in Slots : Holders(j)' = Holders(j) /\ h \notin Holders(j) /\ Holders(j) \subseteq Handles
    BY <1>1, <1>3 DEF Holders, Slots
  <2>2. \A j \in Slots : \A g \in Holders(j) : handle'[g] = handle[g]
    BY <2>1, <1>1
  <2> QED
    BY <2>1, <2>2 DEF Counted
<1> QED
  BY <1>5, <1>6, <1>7, <1>8, <1>9 DEF IInv

LEMMA OpenDirKeeps ==
  ASSUME IInv, NEW h \in Handles, NEW v \in Volumes, NEW d \in Dirs, OpenDir(h, v, d)
  PROVE  IInv'
<1> DEFINE at == <<d, 0>>
<1>1. /\ UNCHANGED <<tree, mount, fsid>> /\ PathCall(v) /\ handle[h].state = "free"
      /\ mount[v] # 0 /\ at \in Objects
  BY EntryTypes DEF OpenDir, PathCall
<1>2. CASE d = Root
  BY <1>1, <1>2, OpenRootStep DEF OpenDir
<1>3. CASE d # Root /\ LockId(v, at) = 0
  <2>1. Refuse("too_many", v, at) /\ UNCHANGED <<Files, handle>>
    BY <1>3 DEF OpenDir
  <2> QED
    BY <1>1, <2>1, TooManyKeeps, RefusedStep
<1>4. CASE d # Root /\ LockId(v, at) # 0
  <2>1. IncLock(v, at, "read") /\ Opened(h, v, at, "read", "open") /\ Done
    BY <1>4 DEF OpenDir
  <2>2. Lockable(v, at, "read")
    BY <1>1, <1>4, OpenDirSuffices
  <2>3. at # <<Root, 0>> /\ at[2] = 0
    BY <1>4
  <2>4. tree' \in [Volumes -> [Entries -> Clusters \union {File, Null}]]
    BY <1>1 DEF IInv, TypeOK
  <2> HIDE DEF at
  <2> QED
    BY <1>1, <2>1, <2>2, <2>3, <2>4, OpenStep
<1> QED
  BY <1>2, <1>3, <1>4

-----------------------------------------------------------------------------
(* Closing *)

\* A handle moves on in f_close, or a handle that counts nowhere is gone.
LEMMA HandleStep ==
  ASSUME IInv, NEW h \in Handles, UNCHANGED <<tree, mount, fsid, Files>>, Done,
         handle[h].state # "free",
         \/ \E s \in {"synced", "releasing", "left"} : Moves(h, s)
         \/ ~Current(h) /\ Goes(h),
         OneClosing'
  PROVE  IInv'
<1>. TypeOK /\ Numbered /\ Entered /\ Held /\ Counted /\ OpenFilesStay
  BY DEF IInv
<1>1. /\ handle' \in [Handles -> HandleRecords]
      /\ \A g \in Handles : Current(g)' <=> Current(g)
      /\ \A g \in Handles : Current(g) => /\ handle'[g].fs = handle[g].fs
                                          /\ handle'[g].at = handle[g].at
                                          /\ handle'[g].lockid = handle[g].lockid
                                          /\ handle'[g].write = handle[g].write
      /\ Numbered'
  <2>1. CASE \E s \in {"synced", "releasing", "left"} : Moves(h, s)
    <3>1. PICK s \in {"synced", "releasing", "left"} : Moves(h, s)
      BY <2>1
    <3>2. handle' \in [Handles -> HandleRecords]
      <4>1. handle[h] \in HandleRecords
        BY DEF TypeOK
      <4>2. [handle[h] EXCEPT !.state = s] \in HandleRecords
        BY <4>1 DEF HandleRecords
      <4>3. handle' = [handle EXCEPT ![h] = [handle[h] EXCEPT !.state = s]]
        BY <3>1 DEF Moves, TypeOK
      <4> QED
        BY <4>2, <4>3 DEF TypeOK
    <3>3. \A g \in Handles : /\ handle'[g].state = IF g = h THEN s ELSE handle[g].state
                             /\ handle'[g].fs = handle[g].fs /\ handle'[g].id = handle[g].id
                             /\ handle'[g].at = handle[g].at
                             /\ handle'[g].lockid = handle[g].lockid
                             /\ handle'[g].write = handle[g].write
      BY <3>1 DEF Moves, TypeOK, HandleRecords
    <3>4. Numbered'
      BY <3>3 DEF Numbered
    <3>5. \A g \in Handles : Current(g)' <=> Current(g)
      BY <3>3 DEF Current
    <3> QED
      BY <3>2, <3>3, <3>4, <3>5
  <2>2. CASE ~Current(h) /\ Goes(h)
    <3>1. NoHandle \in HandleRecords
      BY LockAssumption, EntryTypes DEF NoHandle, HandleRecords, Dirs
    <3>2. handle' = [handle EXCEPT ![h] = NoHandle]
      BY <2>2 DEF Goes
    <3>3. handle'[h] = NoHandle /\ \A g \in Handles : g # h => handle'[g] = handle[g]
      BY <3>2 DEF TypeOK
    <3>4. Numbered'
      BY <3>3 DEF Numbered, NoHandle, TypeOK
    <3>5. \A g \in Handles : Current(g)' <=> Current(g)
      BY <2>2, <3>3 DEF Current, NoHandle
    <3>6. handle' \in [Handles -> HandleRecords]
      BY <3>1, <3>2 DEF TypeOK
    <3> QED
      BY <2>2, <3>3, <3>4, <3>5, <3>6
  <2> QED
    BY <2>1, <2>2
<1>2. refused' \in Refusals /\ LockedMeansHeld' /\ NoInternalError'
  BY DoneKeeps
<1>3. TypeOK'
  BY <1>1, <1>2 DEF TypeOK, Refusals
<1>4. Entered' /\ Held' /\ OpenFilesStay'
  BY <1>1 DEF Entered, Held, OpenFilesStay, IsDir
<1>5. Counted'
  <2>1. \A j \in Slots : Holders(j)' = Holders(j)
    BY <1>1 DEF Holders
  <2>2. \A j \in Slots : \A g \in Holders(j) : handle'[g].write = handle[g].write
    BY <1>1 DEF Holders
  <2> QED
    BY <2>1, <2>2 DEF Counted
<1> QED
  BY <1>1, <1>2, <1>3, <1>4, <1>5 DEF IInv

LEMMA SyncKeeps ==
  ASSUME IInv, NEW h \in Handles, Sync(h)
  PROVE  IInv'
<1>1. /\ UNCHANGED <<tree, mount, fsid, Files>> /\ Done /\ handle[h].state = "open"
      /\ NoOtherCall(h)
  BY DEF Sync
<1>2. \/ Moves(h, "synced") \/ Moves(h, "left")
      \/ ~Current(h) /\ Goes(h)
  BY DEF Sync
<1>3. OneClosing'
  <2>1. handle'[h].state # "releasing" /\ \A g \in Handles \ {h} : handle'[g] = handle[g]
    BY <1>2 DEF Moves, Goes, NoHandle, IInv, TypeOK, HandleRecords
  <2>2. \A g \in Handles \ {h} : handle'[g].state \notin {"synced", "releasing"}
    BY <2>1, <1>1 DEF NoOtherCall
  <2> QED
    BY <2>1, <2>2 DEF OneClosing
<1> QED
  BY <1>1, <1>2, <1>3, HandleStep

LEMMA ValidateKeeps ==
  ASSUME IInv, NEW h \in Handles, Validate(h)
  PROVE  IInv'
<1>1. /\ UNCHANGED <<tree, mount, fsid, Files>> /\ Done /\ handle[h].state = "synced"
  BY DEF Validate
<1>2. \/ Current(h) /\ Moves(h, "releasing")
      \/ ~Current(h) /\ Goes(h)
  BY DEF Validate
<1>3. OneClosing'
  <2>1. \A g \in Handles \ {h} : /\ handle'[g] = handle[g]
                                 /\ handle[g].state \notin {"synced", "releasing"}
    BY <1>1, <1>2 DEF Moves, Goes, IInv, TypeOK, OneClosing
  <2>2. handle'[h].state = "releasing" => Current(h)'
    BY <1>1, <1>2 DEF Moves, Goes, NoHandle, IInv, TypeOK, HandleRecords, Current
  <2> QED
    BY <2>1, <2>2 DEF OneClosing
<1> QED
  BY <1>1, <1>2, <1>3, HandleStep

\* dec_lock takes one from the count of its entry, and blanks it at zero.
LEMMA DecLockWorks ==
  ASSUME NEW fs \in Volumes \union {Null}, NEW at \in Objects, NEW n \in 0 .. Writing,
         NEW e, e = [fs |-> fs, at |-> at, ctr |-> n]
  PROVE  /\ n \in {0, 1, Writing} => Decremented(e) = Blank
         /\ n \notin {0, 1, Writing} =>
               /\ Decremented(e) = [fs |-> fs, at |-> at, ctr |-> n - 1]
               /\ n - 1 \in 1 .. Writing
<1>1. CASE n \in {0, 1, Writing}
  <2>1. Less(n) = 0
    BY <1>1 DEF Less, Writing
  <2> QED
    BY <1>1, <2>1 DEF Decremented
<1>2. CASE n \notin {0, 1, Writing}
  <2>1. Less(n) = n - 1 /\ n - 1 \in 1 .. Writing
    BY <1>2 DEF Less, Writing
  <2> QED
    BY <1>2, <2>1 DEF Decremented
<1> QED
  BY <1>1, <1>2

\* The entry a call of dec_lock leaves agrees with the handles that are left.
LEMMA DecLockCounts ==
  ASSUME IInv, NEW h \in Handles, Release(h), NEW i \in Slots, handle[h].lockid = i
  PROVE  LET H == Holders(i) \ {h} IN
         /\ Files'[i] \in [fs : Volumes \union {Null}, at : Objects, ctr : 0 .. Writing]
         /\ Files'[i].fs = Null <=> Files'[i].ctr = 0
         /\ Files'[i].fs # Null => Files'[i].fs = Files[i].fs /\ Files'[i].at = Files[i].at
         /\ H # {} => Files'[i].fs # Null
         /\ Files'[i].fs # Null /\ mount[Files'[i].fs] # 0 =>
               /\ H # {}
               /\ \A g \in H : ~handle[g].write
               /\ Files'[i].ctr = Cardinality(H)
<1>. TypeOK /\ Entered /\ Held /\ Counted /\ OneClosing /\ Numbered
  BY DEF IInv
<1> DEFINE e == Files[i]
           H == Holders(i) \ {h}
<1>1. Files'[i] = Decremented(e)
  <2>1. handle[h].lockid # 0
    BY DEF Slots
  <2> QED
    BY <2>1 DEF Release, TypeOK
<1>2. /\ e.fs \in Volumes \union {Null} /\ e.at \in Objects /\ e.ctr \in 0 .. Writing
      /\ e = [fs |-> e.fs, at |-> e.at, ctr |-> e.ctr]
  BY DEF TypeOK
<1>3. /\ e.ctr \in {0, 1, Writing} => Decremented(e) = Blank
      /\ e.ctr \notin {0, 1, Writing} =>
            /\ Decremented(e) = [fs |-> e.fs, at |-> e.at, ctr |-> e.ctr - 1]
            /\ e.ctr - 1 \in 1 .. Writing
  <2> HIDE DEF e
  <2> QED
    BY <1>2, DecLockWorks
<1>4. e.fs = Null <=> e.ctr = 0
  BY DEF Entered
<1>5. Blank \in [fs : Volumes \union {Null}, at : Objects, ctr : 0 .. Writing]
      /\ Blank.fs = Null /\ Blank.ctr = 0
  BY LockAssumption, EntryTypes DEF Blank, Dirs, Writing
<1>6. /\ IsFiniteSet(Holders(i)) /\ Cardinality(Holders(i)) \in Nat
      /\ Cardinality(Holders(i)) < Writing
  BY HoldersFinite
<1>7. CASE Current(h)
  <2>1. h \in Holders(i)
    BY <1>7 DEF Holders
  <2>2. e.fs \in Volumes /\ mount[e.fs] # 0 /\ e.fs # Null
    <3>1. handle[h].fs \in Volumes /\ mount[handle[h].fs] # 0
      BY <1>7 DEF Current, Numbered
    <3>2. handle[h].lockid # 0
      BY DEF Slots
    <3> QED
      BY <1>7, <3>1, <3>2, EntryTypes DEF Held
  <2>3. Cardinality(H) = Cardinality(Holders(i)) - 1 /\ IsFiniteSet(H)
    BY <1>6, <2>1, FS_RemoveElement
  <2>4. IF \E g \in Holders(i) : handle[g].write
        THEN e.ctr = Writing /\ Cardinality(Holders(i)) = 1
        ELSE e.ctr = Cardinality(Holders(i))
    BY <2>2 DEF Counted
  <2>5. H = {} <=> Cardinality(H) = 0
    BY <2>3, FS_EmptySet
  <2> HIDE DEF e, H
  <2>6. CASE \E g \in Holders(i) : handle[g].write
    BY <1>1, <1>3, <1>5, <2>3, <2>4, <2>5, <2>6 DEF H
  <2>7. CASE ~ \E g \in Holders(i) : handle[g].write
    <3>1. e.ctr # Writing /\ e.ctr = Cardinality(H) + 1
      BY <1>6, <2>3, <2>4, <2>7
    <3>2. \A g \in H : ~handle[g].write
      BY <2>7 DEF H
    <3>3. CASE e.ctr = 1
      BY <1>1, <1>3, <1>5, <2>5, <3>1, <3>3, <2>3, <1>6 DEF H
    <3>4. CASE e.ctr # 1
      <4>1. e.ctr \notin {0, 1, Writing}
        BY <1>4, <2>2, <3>1, <3>4
      <4>2. Files'[i] = [fs |-> e.fs, at |-> e.at, ctr |-> e.ctr - 1] /\ e.ctr - 1 \in 1 .. Writing
        BY <4>1, <1>1, <1>3
      <4>3. Cardinality(H) = e.ctr - 1 /\ H # {}
        BY <3>1, <4>2, <2>5, <2>3, <1>6, <1>2
      <4>4. Files'[i].fs = e.fs /\ Files'[i].at = e.at /\ Files'[i].ctr = e.ctr - 1
        BY <4>2
      <4>5. Files'[i] \in [fs : Volumes \union {Null}, at : Objects, ctr : 0 .. Writing]
        BY <4>2, <1>2, <2>2 DEF Writing
      <4> QED
        BY <4>2, <4>3, <4>4, <4>5, <3>2, <2>2, <1>4 DEF H, e
    <3> QED
      BY <3>3, <3>4
  <2> QED
    BY <2>6, <2>7
<1>8. CASE ~Current(h)
  <2>1. e.fs = Null \/ mount[e.fs] = 0
    <3>1. handle[h].state = "releasing" /\ handle[h].lockid # 0
      BY DEF Release, Slots
    <3> QED
      BY <1>8, <3>1 DEF OneClosing
  <2>2. Holders(i) = {}
    <3> SUFFICES ASSUME NEW g \in Handles, Current(g), handle[g].lockid = i PROVE FALSE
      BY DEF Holders
    <3>1. e.fs = handle[g].fs
      BY DEF Held, Slots
    <3>2. handle[g].fs \in Volumes /\ mount[handle[g].fs] # 0
      BY DEF Current, Numbered
    <3> QED
      BY <2>1, <3>1, <3>2, EntryTypes
  <2>3. H = {}
    BY <2>2
  <2>4. /\ Files'[i] = Blank \/ ( /\ Files'[i].fs = e.fs /\ Files'[i].at = e.at
                                  /\ Files'[i].ctr \in 1 .. Writing
                                  /\ Files'[i].ctr # 0 /\ e.fs # Null)
        /\ Files'[i] \in [fs : Volumes \union {Null}, at : Objects, ctr : 0 .. Writing]
    <3> HIDE DEF e
    <3>1. CASE e.ctr \in {0, 1, Writing}
      BY <3>1, <1>1, <1>3, <1>5
    <3>2. CASE e.ctr \notin {0, 1, Writing}
      <4>1. Files'[i] = [fs |-> e.fs, at |-> e.at, ctr |-> e.ctr - 1] /\ e.ctr - 1 \in 1 .. Writing
        BY <3>2, <1>1, <1>3
      <4>2. e.ctr - 1 \in 0 .. Writing /\ e.ctr - 1 # 0
        BY <4>1 DEF Writing
      <4> QED
        BY <4>1, <4>2, <3>2, <1>2, <1>4
    <3> QED
      BY <3>1, <3>2
  <2> HIDE DEF H, e
  <2>5. (Files'[i].fs = Null <=> Files'[i].ctr = 0) /\ (Files'[i].fs # Null => mount[Files'[i].fs] = 0)
    BY <2>1, <2>4, <1>5
  <2> QED
    BY <2>3, <2>4, <2>5, <1>5 DEF H, e
<1> QED
  BY <1>7, <1>8

LEMMA ReleaseKeeps ==
  ASSUME IInv, NEW h \in Handles, Release(h)
  PROVE  IInv'
<1>. TypeOK /\ Numbered /\ Entered /\ Held /\ Counted /\ OneClosing /\ OpenFilesStay
  BY DEF IInv
<1> DEFINE i == handle[h].lockid
<1>1. /\ UNCHANGED <<tree, mount, fsid>> /\ Done /\ handle[h].state = "releasing"
      /\ handle' = [handle EXCEPT ![h] = NoHandle]
      /\ i \in Slots \union {0}
  BY DEF Release, Goes, TypeOK, HandleRecords, Slots
<1>2. /\ i = 0 => Files' = Files
      /\ \A j \in Slots : j # i => Files'[j] = Files[j]
      /\ i # 0 => Files' = [Files EXCEPT ![i] = Decremented(@)]
  BY DEF Release, TypeOK
<1>3. handle'[h] = NoHandle /\ \A g \in Handles : g # h => handle'[g] = handle[g]
  BY <1>1 DEF TypeOK
<1>4. i # 0 =>
        /\ Files'[i] \in [fs : Volumes \union {Null}, at : Objects, ctr : 0 .. Writing]
        /\ Files'[i].fs = Null <=> Files'[i].ctr = 0
        /\ Files'[i].fs # Null => Files'[i].fs = Files[i].fs /\ Files'[i].at = Files[i].at
        /\ Holders(i) \ {h} # {} => Files'[i].fs # Null
        /\ Files'[i].fs # Null /\ mount[Files'[i].fs] # 0 =>
              /\ Holders(i) \ {h} # {}
              /\ \A g \in Holders(i) \ {h} : ~handle[g].write
              /\ Files'[i].ctr = Cardinality(Holders(i) \ {h})
  BY <1>1, DecLockCounts
<1> HIDE DEF i
<1>5. \A g \in Handles : Current(g)' <=> Current(g) /\ g # h
  BY <1>1, <1>3 DEF Current, NoHandle
<1>6. \A j \in Slots : Holders(j)' = IF j = i THEN Holders(j) \ {h} ELSE Holders(j)
  BY <1>3, <1>5 DEF Holders, i
<1>7. Files' \in [Slots -> [fs : Volumes \union {Null}, at : Objects, ctr : 0 .. Writing]]
  <2>1. CASE i = 0
    BY <2>1, <1>2 DEF TypeOK
  <2>2. CASE i # 0
    <3>1. DOMAIN Files' = Slots /\ Files' = [j \in Slots |-> Files'[j]]
      BY <2>2, <1>2 DEF TypeOK
    <3>2. \A j \in Slots : Files'[j] \in [fs : Volumes \union {Null}, at : Objects, ctr : 0 .. Writing]
      BY <2>2, <1>2, <1>4 DEF TypeOK
    <3> QED
      BY <3>1, <3>2
  <2> QED
    BY <2>1, <2>2
<1>8. handle' \in [Handles -> HandleRecords]
  <2>1. NoHandle \in HandleRecords
    BY LockAssumption, EntryTypes DEF NoHandle, HandleRecords, Dirs
  <2> QED
    BY <1>1, <2>1 DEF TypeOK
<1>9. refused' \in Refusals /\ LockedMeansHeld' /\ NoInternalError'
  BY <1>1, DoneKeeps
<1>10. TypeOK'
  BY <1>1, <1>7, <1>8, <1>9 DEF TypeOK, Refusals
<1>11. Numbered' /\ OpenFilesStay'
  <2>1. Numbered'
    BY <1>1, <1>3 DEF Numbered, NoHandle, TypeOK
  <2>2. OpenFilesStay'
    BY <1>1, <1>3, <1>5 DEF OpenFilesStay, IsDir
  <2> QED
    BY <2>1, <2>2
<1>12. Entered'
  <2>1. ASSUME NEW j \in Slots, Files'[j].fs # Null
        PROVE  Files[j].fs = Files'[j].fs /\ Files[j].at = Files'[j].at
    BY <2>1, <1>2, <1>4, <1>1
  <2>2. \A j \in Slots : Files'[j].fs = Null <=> Files'[j].ctr = 0
    BY <1>1, <1>2, <1>4 DEF Entered
  <2> QED
    BY <2>1, <2>2 DEF Entered
<1>13. Held'
  <2> SUFFICES ASSUME NEW g \in Handles, Current(g)'
               PROVE  /\ handle'[g].lockid = 0 <=> handle'[g].at = <<Root, 0>>
                      /\ handle'[g].lockid # 0 =>
                            /\ Files'[handle'[g].lockid].fs = handle'[g].fs
                            /\ Files'[handle'[g].lockid].at = handle'[g].at
                      /\ handle'[g].write => handle'[g].at[2] # 0
    BY DEF Held, IsDir
  <2>1. Current(g) /\ g # h /\ handle'[g] = handle[g]
    BY <1>3, <1>5
  <2>2. /\ handle[g].lockid = 0 <=> handle[g].at = <<Root, 0>>
        /\ handle[g].lockid # 0 =>
              /\ Files[handle[g].lockid].fs = handle[g].fs
              /\ Files[handle[g].lockid].at = handle[g].at
        /\ handle[g].write => handle[g].at[2] # 0
    BY <2>1 DEF Held, IsDir
  <2>3. handle[g].lockid \in Slots \union {0}
    BY DEF TypeOK, HandleRecords, Slots
  <2>4. CASE handle[g].lockid # i \/ i = 0
    BY <2>1, <2>2, <2>3, <2>4, <1>2
  <2>5. CASE handle[g].lockid = i /\ i # 0
    <3>1. g \in Holders(i) \ {h}
      BY <2>1, <2>5 DEF Holders
    <3>2. Files'[i].fs = Files[i].fs /\ Files'[i].at = Files[i].at
      BY <3>1, <2>5, <1>4
    <3> QED
      BY <3>2, <2>1, <2>2, <2>5
  <2> QED
    BY <2>4, <2>5
<1>14. Counted'
  <2> SUFFICES ASSUME NEW j \in Slots, Files'[j].fs # Null, mount'[Files'[j].fs] # 0
               PROVE  /\ Holders(j)' # {}
                      /\ IF \E g \in Holders(j)' : handle'[g].write
                         THEN Files'[j].ctr = Writing /\ Cardinality(Holders(j)') = 1
                         ELSE Files'[j].ctr = Cardinality(Holders(j)')
    BY DEF Counted
  <2>1. CASE j # i
    <3>1. Files'[j] = Files[j] /\ Holders(j)' = Holders(j)
      BY <2>1, <1>2, <1>6
    <3>2. h \notin Holders(j) /\ Holders(j) \subseteq Handles
      BY <2>1 DEF Holders, i
    <3>3. \A g \in Holders(j) : handle'[g] = handle[g]
      BY <3>2, <1>3
    <3>4. /\ Holders(j) # {}
          /\ IF \E g \in Holders(j) : handle[g].write
             THEN Files[j].ctr = Writing /\ Cardinality(Holders(j)) = 1
             ELSE Files[j].ctr = Cardinality(Holders(j))
      BY <3>1, <1>1 DEF Counted
    <3> QED
      BY <3>1, <3>3, <3>4
  <2>2. CASE j = i
    <3>1. Holders(j)' = Holders(i) \ {h} /\ i # 0
      <4>1. Holders(j)' = Holders(j) \ {h}
        BY <2>2, <1>6
      <4>2. Holders(j) = Holders(i)
        BY <2>2
      <4> QED
        BY <4>1, <4>2, <2>2 DEF Slots
    <3>2. Holders(i) \ {h} # {} /\ Files'[j].ctr = Cardinality(Holders(i) \ {h})
      BY <3>1, <2>2, <1>1, <1>4
    <3>3. \A g \in Holders(i) \ {h} : ~handle'[g].write
      <4> TAKE g \in Holders(i) \ {h}
      <4>1. g \in Handles /\ g # h
        BY DEF Holders
      <4>2. ~handle[g].write
        BY <3>1, <2>2, <1>1, <1>4
      <4> QED
        BY <4>1, <4>2, <1>3
    <3> QED
      BY <3>1, <3>2, <3>3
  <2> QED
    BY <2>1, <2>2
<1>15. OneClosing'
  <2>1. \A g \in Handles : handle'[g].state \notin {"synced", "releasing"}
    BY <1>1, <1>3 DEF OneClosing, NoHandle
  <2> QED
    BY <2>1 DEF OneClosing
<1> QED
  BY <1>9, <1>10, <1>11, <1>12, <1>13, <1>14, <1>15 DEF IInv

-----------------------------------------------------------------------------
(* The update thread *)

\* A volume comes or goes: whoever had something of it open is not current any
\* more, and if it comes the table is rid of its entries.
LEMMA MountStep ==
  ASSUME IInv, NEW v \in Volumes, NEW m \in Nat,
         mount' = [mount EXCEPT ![v] = m], fsid' \in Nat,
         \/ m = 0 /\ fsid' = fsid /\ handle' = Forget(v)
         \/ m = fsid + 1 /\ fsid' = m /\ mount[v] = 0 /\ handle' = handle /\ Files' = Cleared(v),
         Files' = Cleared(v) \/ Files' = Files,
         tree' \in [Volumes -> [Entries -> Clusters \union {File, Null}]],
         \A u \in Volumes \ {v} : tree'[u] = tree[u],
         Done
  PROVE  IInv'
<1>. TypeOK /\ Numbered /\ Entered /\ Held /\ Counted /\ OneClosing /\ OpenFilesStay
  BY DEF IInv
<1>1. mount'[v] = m /\ \A u \in Volumes : u # v => mount'[u] = mount[u]
  BY DEF TypeOK
<1>2. /\ \A g \in Handles : handle'[g] = handle[g] \/ (handle'[g] = NoHandle /\ handle[g].state = "left" /\ handle[g].fs = v /\ m = 0)
      /\ handle' \in [Handles -> HandleRecords]
  <2>1. NoHandle \in HandleRecords
    BY LockAssumption, EntryTypes DEF NoHandle, HandleRecords, Dirs
  <2> QED
    BY <2>1 DEF TypeOK, Forget
<1>3. \A j \in Slots : Files'[j] = Files[j] \/ (Files'[j] = Blank /\ Files[j].fs = v)
  BY DEF Cleared
<1>4. \A j \in Slots : m # 0 => Files'[j].fs # v
  <2> SUFFICES ASSUME NEW j \in Slots, m # 0 PROVE Files'[j].fs # v
    OBVIOUS
  <2>1. Files' = Cleared(v)
    OBVIOUS
  <2>2. Blank.fs # v
    BY EntryTypes DEF Blank
  <2> QED
    BY <2>1, <2>2 DEF Cleared
<1>5. Files' \in [Slots -> [fs : Volumes \union {Null}, at : Objects, ctr : 0 .. Writing]]
  <2>1. Blank \in [fs : Volumes \union {Null}, at : Objects, ctr : 0 .. Writing]
    BY LockAssumption, EntryTypes DEF Blank, Dirs, Writing
  <2> QED
    BY <2>1 DEF TypeOK, Cleared
<1>6. \A g \in Handles : Current(g)' <=> Current(g) /\ handle[g].fs # v
  <2> TAKE g \in Handles
  <2>1. CASE handle[g].state = "free" \/ handle'[g] = NoHandle
    BY <2>1, <1>1, <1>2 DEF Current, NoHandle, Numbered
  <2>2. CASE handle[g].state # "free" /\ handle'[g] = handle[g]
    <3>1. handle[g].fs \in Volumes /\ handle[g].id <= fsid /\ handle[g].id \in Nat
      BY <2>2 DEF Numbered, TypeOK, HandleRecords
    <3>2. CASE handle[g].fs = v
      BY <2>2, <3>1, <3>2, <1>1 DEF Current, TypeOK
    <3>3. CASE handle[g].fs # v
      BY <2>2, <3>1, <3>3, <1>1 DEF Current
    <3> QED
      BY <3>2, <3>3
  <2> QED
    BY <2>1, <2>2, <1>2
<1>7. \A g \in Handles : Current(g)' => handle'[g] = handle[g]
  BY <1>2 DEF Current, NoHandle
<1>8. refused' \in Refusals /\ LockedMeansHeld' /\ NoInternalError'
  BY DoneKeeps
<1>9. TypeOK'
  <2>1. mount' \in [Volumes -> Nat]
    BY DEF TypeOK
  <2> QED
    BY <2>1, <1>2, <1>5, <1>8 DEF TypeOK, Refusals
<1>10. Numbered'
  <2>1. fsid <= fsid' /\ m <= fsid'
    BY DEF TypeOK
  <2>2. \A u \in Volumes : mount'[u] <= fsid'
    BY <2>1, <1>1 DEF Numbered, TypeOK
  <2>3. ASSUME NEW g \in Handles
        PROVE  handle'[g].id <= fsid' /\ (handle'[g].state # "free" => handle'[g].fs \in Volumes)
    <3>1. handle[g].id <= fsid /\ handle[g].id \in Nat /\ (handle[g].state # "free" => handle[g].fs \in Volumes)
      BY DEF Numbered, TypeOK, HandleRecords
    <3> QED
      BY <3>1, <2>1, <1>2 DEF NoHandle, TypeOK
  <2> QED
    BY <2>2, <2>3 DEF Numbered
<1>11. Entered'
  BY <1>3 DEF Entered, Blank
<1>12. Held'
  <2> SUFFICES ASSUME NEW g \in Handles, Current(g)'
               PROVE  /\ handle'[g].lockid = 0 <=> handle'[g].at = <<Root, 0>>
                      /\ handle'[g].lockid # 0 =>
                            /\ Files'[handle'[g].lockid].fs = handle'[g].fs
                            /\ Files'[handle'[g].lockid].at = handle'[g].at
                      /\ handle'[g].write => handle'[g].at[2] # 0
    BY DEF Held, IsDir
  <2>1. Current(g) /\ handle[g].fs # v /\ handle'[g] = handle[g]
    BY <1>6, <1>7
  <2>2. handle[g].lockid \in Slots \union {0}
    BY DEF TypeOK, HandleRecords, Slots
  <2> QED
    BY <2>1, <2>2, <1>3 DEF Held, IsDir
<1>13. Counted'
  <2> SUFFICES ASSUME NEW j \in Slots, Files'[j].fs # Null, mount'[Files'[j].fs] # 0
               PROVE  /\ Holders(j)' # {}
                      /\ IF \E g \in Holders(j)' : handle'[g].write
                         THEN Files'[j].ctr = Writing /\ Cardinality(Holders(j)') = 1
                         ELSE Files'[j].ctr = Cardinality(Holders(j)')
    BY DEF Counted
  <2>1. Files'[j] = Files[j]
    BY <1>3 DEF Blank
  <2>2. Files[j].fs # v /\ Files[j].fs \in Volumes
    BY <2>1, <1>1, <1>4 DEF TypeOK
  <2>3. mount[Files[j].fs] # 0
    BY <2>1, <2>2, <1>1
  <2>4. Holders(j)' = Holders(j) /\ \A g \in Holders(j) : handle'[g] = handle[g]
    <3>1. ASSUME NEW g \in Handles, Current(g), handle[g].lockid = j
          PROVE  Current(g)' /\ handle'[g] = handle[g]
      <4>1. handle[g].fs = Files[j].fs
        BY <3>1 DEF Held, Slots
      <4> QED
        BY <4>1, <3>1, <2>2, <1>6, <1>7
    <3>2. ASSUME NEW g \in Handles, Current(g)', handle'[g].lockid = j
          PROVE  Current(g) /\ handle[g].lockid = j
      BY <3>2, <1>6, <1>7
    <3> QED
      BY <3>1, <3>2 DEF Holders
  <2>5. /\ Holders(j) # {}
        /\ IF \E g \in Holders(j) : handle[g].write
           THEN Files[j].ctr = Writing /\ Cardinality(Holders(j)) = 1
           ELSE Files[j].ctr = Cardinality(Holders(j))
    BY <2>1, <2>3 DEF Counted
  <2> QED
    BY <2>1, <2>4, <2>5
<1>14. OneClosing'
  <2>1. ASSUME NEW g \in Handles, handle'[g].state \in {"synced", "releasing"}
        PROVE  handle'[g] = handle[g]
    BY <2>1, <1>2 DEF NoHandle
  <2>2. ASSUME NEW g \in Handles, handle'[g].state = "releasing", ~Current(g)', handle'[g].lockid # 0
        PROVE  \/ Files'[handle'[g].lockid].fs = Null
               \/ mount'[Files'[handle'[g].lockid].fs] = 0
    <3>1. handle'[g] = handle[g] /\ handle[g].lockid \in Slots
      BY <2>1, <2>2 DEF TypeOK, HandleRecords, Slots
    <3> DEFINE i == handle[g].lockid
    <3>2. Files[i].fs = Null \/ mount[Files[i].fs] = 0 \/ Files[i].fs = v
      BY <2>2, <3>1, <1>6 DEF OneClosing, Held
    <3>3. CASE Files'[i] = Files[i]
      <4>1. Files[i].fs \in Volumes \union {Null}
        BY <3>1 DEF TypeOK
      <4>2. CASE Files[i].fs = v
        BY <4>2, <3>1, <3>3, <1>1, <1>4
      <4>3. CASE Files[i].fs # v
        BY <4>1, <4>3, <3>1, <3>2, <3>3, <1>1
      <4> QED
        BY <4>2, <4>3
    <3>4. CASE Files'[i] = Blank
      BY <3>1, <3>4 DEF Blank
    <3> QED
      BY <3>1, <3>3, <3>4, <1>3
  <2> QED
    BY <2>1, <2>2 DEF OneClosing
<1>15. OpenFilesStay'
  <2> SUFFICES ASSUME NEW g \in Handles, Current(g)', handle'[g].at[2] # 0
               PROVE  tree'[handle'[g].fs][handle'[g].at] = File
    BY DEF OpenFilesStay, IsDir
  <2>1. Current(g) /\ handle[g].fs # v /\ handle'[g] = handle[g]
    BY <1>6, <1>7
  <2>2. handle[g].fs \in Volumes /\ tree[handle[g].fs][handle[g].at] = File
    BY <2>1, FileEntries DEF IsDir
  <2> QED
    BY <2>1, <2>2
<1> QED
  BY <1>8, <1>9, <1>10, <1>11, <1>12, <1>13, <1>14, <1>15 DEF IInv

-----------------------------------------------------------------------------
(* The invariant and what follows from it *)

LEMMA InitInv == Init => IInv
<1> SUFFICES ASSUME Init PROVE IInv
  OBVIOUS
<1>1. \A h \in Handles : ~Current(h) /\ handle[h] = NoHandle
  BY DEF Init, Current, NoHandle
<1>2. Blank \in [fs : Volumes \union {Null}, at : Objects, ctr : 0 .. Writing]
  BY LockAssumption, EntryTypes DEF Blank, Dirs, Writing
<1>3. NoHandle \in HandleRecords
  BY LockAssumption, EntryTypes DEF NoHandle, HandleRecords, Dirs
<1>4. Nothing \in Refusals
  BY EntryTypes DEF Nothing, Refusals, Objects, Dirs
<1>5. TypeOK
  BY <1>2, <1>3, <1>4 DEF Init, TypeOK, Empty, Refusals
<1>6. Numbered
  BY <1>1 DEF Init, Numbered, NoHandle
<1>7. \A i \in Slots : Files[i].fs = Null /\ Files[i].ctr = 0
  BY DEF Init, Blank
<1>8. Entered /\ Counted
  BY <1>7 DEF Entered, Counted
<1>9. Held /\ OpenFilesStay
  BY <1>1 DEF Held, OpenFilesStay
<1>10. OneClosing
  BY <1>1 DEF OneClosing, NoHandle
<1>11. LockedMeansHeld /\ NoInternalError
  BY DEF Init, Nothing, LockedMeansHeld, NoInternalError
<1> QED
  BY <1>5, <1>6, <1>8, <1>9, <1>10, <1>11 DEF IInv

LEMMA MountKeeps ==
  ASSUME IInv, NEW v \in Volumes, Mount(v)
  PROVE  IInv'
<1>1. fsid + 1 \in Nat
  BY DEF IInv, TypeOK
<1>2. \A t \in {tree[v], Empty} : t \in [Entries -> Clusters \union {File, Null}]
  BY DEF IInv, TypeOK, Empty
<1>3. /\ tree' \in [Volumes -> [Entries -> Clusters \union {File, Null}]]
      /\ \A u \in Volumes \ {v} : tree'[u] = tree[u]
  BY <1>2 DEF Mount, IInv, TypeOK
<1> QED
  BY <1>1, <1>3, MountStep DEF Mount

LEMMA UnmountKeeps ==
  ASSUME IInv, NEW v \in Volumes, Unmount(v) \/ Lose(v)
  PROVE  IInv'
<1>1. /\ mount' = [mount EXCEPT ![v] = 0] /\ handle' = Forget(v) /\ Done
      /\ UNCHANGED <<tree, fsid>> /\ (Files' = Cleared(v) \/ Files' = Files)
  BY DEF Unmount, Lose
<1>2. /\ tree' \in [Volumes -> [Entries -> Clusters \union {File, Null}]]
      /\ \A u \in Volumes \ {v} : tree'[u] = tree[u]
      /\ fsid' \in Nat
  BY <1>1 DEF IInv, TypeOK
<1> QED
  BY <1>1, <1>2, MountStep

LEMMA NextInv == IInv /\ [Next]_vars => IInv'
<1> SUFFICES ASSUME IInv, [Next]_vars PROVE IInv'
  OBVIOUS
<1>1. CASE UpdateThread
  BY <1>1, MountKeeps, UnmountKeeps DEF UpdateThread
<1>2. CASE Closing
  BY <1>2, SyncKeeps, ValidateKeeps, ReleaseKeeps DEF Closing
<1>3. CASE Opening
  BY <1>3, OpenExistingKeeps, OpenNewKeeps, OpenDirKeeps DEF Opening
<1>4. CASE Naming
  BY <1>4, UnlinkKeeps, RenameKeeps, MkdirKeeps DEF Naming
<1>5. CASE UNCHANGED vars
  <2>1. UNCHANGED <<tree, mount, fsid, Files, handle, refused>>
    BY <1>5 DEF vars
  <2>2. refused' \in Refusals
    BY <2>1 DEF IInv, TypeOK, Refusals
  <2>3. LockedMeansHeld' /\ NoInternalError'
    BY <2>1 DEF IInv, LockedMeansHeld, NoInternalError, Current
  <2> QED
    BY <2>1, <2>2, <2>3, RefusedStep
<1> QED
  BY <1>1, <1>2, <1>3, <1>4, <1>5 DEF Next

\* The invariant holds in every reachable state.
THEOREM Invariance == Spec => []IInv
  BY InitInv, NextInv, PTL DEF Spec

\* Every variable keeps its type: a lock count never leaves 0 .. 256.
THEOREM TypeCorrect == Spec => []TypeOK
<1>1. IInv => TypeOK
  BY DEF IInv
<1> QED
  BY <1>1, Invariance, PTL

\* A file open for writing is not open a second time (chk_lock, inc_lock).
THEOREM NoSecondWriter == Spec => []WriterAlone
<1>1. IInv => WriterAlone
  <2> SUFFICES ASSUME IInv, NEW g \in Handles, NEW h \in Handles,
                      g # h, Current(g), Current(h), Same(g, h), handle[g].write
               PROVE  FALSE
    BY DEF WriterAlone
  <2> DEFINE i == handle[g].lockid
  <2>1. handle[g].at # <<Root, 0>> /\ handle[h].fs = handle[g].fs /\ handle[h].at = handle[g].at
    BY DEF IInv, Held, IsDir, Same
  <2>2. i # 0 /\ handle[h].lockid # 0
    BY <2>1 DEF IInv, Held
  <2>3. i \in Slots /\ handle[h].lockid \in Slots
    BY <2>2 DEF IInv, TypeOK, HandleRecords, Slots
  <2>4. /\ Files[i].fs = handle[g].fs /\ Files[i].at = handle[g].at
        /\ Files[handle[h].lockid].fs = handle[g].fs
        /\ Files[handle[h].lockid].at = handle[g].at
    BY <2>1, <2>2 DEF IInv, Held
  <2>5. handle[g].fs \in Volumes /\ handle[g].fs # Null /\ mount[handle[g].fs] # 0
    BY EntryTypes DEF IInv, Numbered, Current
  <2>6. handle[h].lockid = i
    BY <2>3, <2>4, <2>5 DEF IInv, Entered
  <2>7. g \in Holders(i) /\ h \in Holders(i)
    BY <2>6 DEF Holders
  <2>8. Cardinality(Holders(i)) = 1
    BY <2>3, <2>4, <2>5, <2>7 DEF IInv, Counted
  <2>9. IsFiniteSet(Holders(i) \ {g}) /\ Cardinality(Holders(i) \ {g}) = 0
    BY <2>7, <2>8, HoldersFinite, FS_RemoveElement
  <2>10. Holders(i) \ {g} = {}
    BY <2>9, FS_EmptySet
  <2> QED
    BY <2>7, <2>10
<1> QED
  BY <1>1, Invariance, PTL

\* The directory entry of an open file stays a file's (f_unlink, f_rename,
\* and the loss and return of its drive).
THEOREM OpenFilesSafe == Spec => []OpenFilesStay
<1>1. IInv => OpenFilesStay
  BY DEF IInv
<1> QED
  BY <1>1, Invariance, PTL

\* What f_close and f_closedir will decrement is their own object's entry.
THEOREM LocksSafe == Spec => []LocksHeld
<1>1. IInv => LocksHeld
  <2> SUFFICES ASSUME IInv, NEW h \in Handles, Current(h), handle[h].lockid # 0
               PROVE  LET e == Files[handle[h].lockid] IN
                      e.fs = handle[h].fs /\ e.at = handle[h].at /\ e.ctr # 0
    BY DEF LocksHeld
  <2>1. handle[h].lockid \in Slots
    BY DEF IInv, TypeOK, HandleRecords, Slots
  <2>2. /\ Files[handle[h].lockid].fs = handle[h].fs
        /\ Files[handle[h].lockid].at = handle[h].at
    BY DEF IInv, Held
  <2>3. handle[h].fs # Null
    BY EntryTypes DEF IInv, Numbered, Current
  <2>4. Files[handle[h].lockid].ctr # 0
    BY <2>1, <2>2, <2>3 DEF IInv, Entered
  <2> QED
    BY <2>2, <2>4
<1> QED
  BY <1>1, Invariance, PTL

\* FR_LOCKED is never the remains of an earlier mount or of another volume.
THEOREM RefusalsJustified == Spec => []LockedMeansHeld
<1>1. IInv => LockedMeansHeld
  BY DEF IInv
<1> QED
  BY <1>1, Invariance, PTL

\* inc_lock never fails after the check that comes before it.
THEOREM ChecksSuffice == Spec => []NoInternalError
<1>1. IInv => NoInternalError
  BY DEF IInv
<1> QED
  BY <1>1, Invariance, PTL

\* The table of locks: held entries, justified refusals, checks that suffice.
THEOREM TableTruthful == Spec => []LocksRight
BY LocksSafe, RefusalsJustified, ChecksSuffice, PTL DEF LocksRight
=============================================================================
