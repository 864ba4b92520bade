----------------------------- MODULE FatDirectory -----------------------------
(***************************************************************************)
(* How FatFs keeps a directory table (ff.c): on FAT an entry with a short  *)
(* name, and before it the pieces of the long name tied to it by a         *)
(* checksum; on exFAT a set of 85, C0 and C1 entries under a sum.  Names   *)
(* are looked up, entries are allocated, written and removed one at a time *)
(* through the one-sector window, the table is stretched by a cluster at a *)
(* time, and directories that are open read on, one f_readdir after the    *)
(* other, while the table changes under them.                              *)
(*                                                                         *)
(* table is what FatFs sees through its window, disk what the drive holds; *)
(* they differ in the sector `dirty'.  A call looks its names up and then  *)
(* makes the steps of todo; the drive can be pulled between any two.  The  *)
(* table is the root's, a chain of clusters; the fixed root of FAT16 is as *)
(* one whose volume has no cluster left.                                   *)
(* What the calls do to cluster chains is FatAlloc's, whether an open      *)
(* object may be touched is FatLock's.                                     *)
(***************************************************************************)
EXTENDS Integers, Sequences, FiniteSets

CONSTANTS
    FsTypes,      \* which of "fat32", "exfat"
    Names,        \* the names used, as create_name leaves them: the text in
                  \* pieces of an entry, the short name, NS_LFN and NS_LOSS
    PerSector,    \* entries in a sector; a cluster is one sector
    MaxClusters,  \* clusters the volume has for a table that grows
    MaxNumber,    \* 99: the last number gen_numname is asked for
    MaxCalls,     \* bound: calls that change the table
    MaxPulls      \* bound: times the drive is pulled and comes back

\* Short names that are stored: as they were given, or with the number of gen_numname.
ShortNames ==
    {n.sfn : n \in {m \in Names : ~m.lossy}}
        \cup {<<n.sfn[1], k>> : n \in {m \in Names : m.lossy}, k \in 1 .. MaxNumber}

\* create_name makes a short name of every text, and of a text that is one the same.
ASSUME DirectoryAssumption ==
    /\ FsTypes \subseteq {"fat32", "exfat"}
    /\ \A n \in Names :
        /\ n.text \in Seq({n.text[k] : k \in DOMAIN n.text}) /\ Len(n.text) >= 1
        /\ {n.lfn, n.lossy} \subseteq BOOLEAN
        /\ n.lossy => n.lfn
        /\ ~n.lfn => n.text = <<n.sfn>>
        /\ \A m \in Names : m.text = n.text => m.sfn = n.sfn /\ m.lossy = n.lossy
        /\ \A sfn \in ShortNames : n.text = <<sfn>> => n.sfn = sfn /\ ~n.lossy
    /\ {PerSector, MaxClusters, MaxNumber} \subseteq Nat \ {0}
    /\ MaxCalls \in Nat /\ MaxPulls \in Nat

VARIABLES
    fs_type,
    table, disk,  \* [len, slot]: entries linked, and what each holds
    dirty,        \* the window's sector while wflag is set, else 0
    todo,         \* the steps the call under way has still to make
    call,         \* the call: what it does to `made' once it is done
    made,         \* history: entry and object of each name that was made
    fresh,        \* history: names made without a sync, and not written since
    rd,           \* an open directory
    objects, pulls, calls

vars == <<fs_type, table, disk, dirty, todo, call, made, fresh, rd, objects, pulls, calls>>

ExFat == fs_type = "exfat"
MaxSlots == MaxClusters * PerSector
First(S) == CHOOSE x \in S : \A y \in S : x <= y
Latest(S) == CHOOSE x \in S : \A y \in S : x >= y

-----------------------------------------------------------------------------
(* What an entry can hold *)

Zero == [kind |-> "zero"]        \* 0: nothing from here on
Gone == [kind |-> "gone"]        \* DDEM, or InUse cleared
Junk == [kind |-> "junk"]        \* left by the last owner of a cluster
Sfn(sfn, obj) == [kind |-> "sfn", sfn |-> sfn, obj |-> obj]
Lfn(text, ord, last, sum) == [kind |-> "lfn", text |-> text, ord |-> ord, last |-> last, sum |-> sum]
FileDir(text, obj) == [kind |-> "85", num |-> Len(text) + 1, sum |-> <<text, obj>>]
Stream(text, obj) == [kind |-> "c0", hash |-> text, obj |-> obj]
FileName(text) == [kind |-> "c1", text |-> text]

\* sum_sfn: short names with the same checksum are left out.
SumSfn(sfn) == sfn
Free(s) == s.kind \in {"zero", "gone"}
End(T, from) == LET Z == {i \in from .. T.len : T.slot[i].kind = "zero"} IN
                IF Z = {} THEN T.len + 1 ELSE First(Z)
Kind(T, from, k) == {i \in from .. End(T, from) - 1 : T.slot[i].kind = k}

\* FAT: how many pieces of a valid long name, from `from' on, lead up to entry i.
Run(T, i, from) ==
    {m \in 1 .. i - from : \A k \in 1 .. m :
        LET s == T.slot[i - k] IN
        /\ s.kind = "lfn"
        /\ s.ord = k
        /\ s.sum = SumSfn(T.slot[i].sfn)
        /\ s.last <=> k = m}
TextAt(T, i, from) ==
    IF Run(T, i, from) = {} THEN <<T.slot[i].sfn>>
    ELSE [k \in 1 .. First(Run(T, i, from)) |-> T.slot[i - k].text]

\* exFAT: load_xdir finds the set at i complete, in order and with the right sum.
SetText(T, i) == [k \in 1 .. T.slot[i].num - 1 |-> T.slot[i + 1 + k].text]
Whole(T, i) ==
    LET n == T.slot[i].num IN
    /\ i + n <= T.len
    /\ T.slot[i + 1].kind = "c0"
    /\ \A k \in 2 .. n : T.slot[i + k].kind = "c1"
    /\ T.slot[i].sum = <<SetText(T, i), T.slot[i + 1].obj>>

-----------------------------------------------------------------------------
(* dir_find: the entry a name leads to, 0 (FR_NO_FILE), or -1 (FR_INT_ERR) *)

Hit(T, n, i) ==
    IF ExFat THEN Whole(T, i) /\ SetText(T, i) = n.text
    ELSE \/ Run(T, i, 1) # {} /\ TextAt(T, i, 1) = n.text
         \/ ~n.lossy /\ T.slot[i].sfn = n.sfn
Heads(T) == IF ExFat THEN Kind(T, 1, "85") ELSE Kind(T, 1, "sfn")
Find(T, n) ==
    LET stops == {i \in Heads(T) : Hit(T, n, i) \/ (ExFat /\ ~Whole(T, i))} IN
    CASE stops = {} -> 0
      [] stops # {} /\ Hit(T, n, First(stops)) -> First(stops)
      [] OTHER -> -1
ObjAt(T, i) == IF ExFat THEN T.slot[i + 1].obj ELSE T.slot[i].obj

\* Where the block starts that dir_remove clears, and where it ends: on FAT from
\* the last start of a long name that dir_find came by since an entry or a deleted one.
BlockStart(T, i) ==
    IF ExFat THEN i
    ELSE LET before == {j \in 1 .. i - 1 : T.slot[j].kind # "lfn"}
             starts == {j \in 1 .. i - 1 : T.slot[j].kind = "lfn" /\ T.slot[j].last
                                            /\ \A b \in before : b < j}
         IN IF starts = {} THEN i ELSE Latest(starts)
BlockEnd(T, i) == IF ExFat THEN i + T.slot[i].num ELSE i

-----------------------------------------------------------------------------
(* The window *)

SectorOf(i) == (i + PerSector - 1) \div PerSector
Flushed ==
    [disk EXCEPT !.slot = [i \in 1 .. MaxSlots |-> IF SectorOf(i) = dirty THEN table.slot[i] ELSE @[i]]]

-----------------------------------------------------------------------------
(* The steps a call is made of *)

Link == [do |-> "link"]
Clear == [do |-> "clear"]
Sync == [do |-> "sync"]
Put(i, s) == [do |-> "put", at |-> i, entry |-> s]

\* dir_alloc: the first run of free entries; at the end of the table it goes on in
\* clusters that dir_next stretches it by, until there are none.
RunsOf(nent) == {i \in 1 .. table.len - nent + 1 : \A k \in i .. i + nent - 1 : Free(table.slot[k])}
Tail0 == First({i \in 1 .. table.len + 1 : \A k \in i .. table.len : Free(table.slot[k])})
Wanted(nent) == SectorOf(Tail0 + nent - 1) - SectorOf(table.len)
Left == MaxClusters - SectorOf(table.len)
Stretch(k) == [i \in 1 .. 2 * k |-> IF i % 2 = 1 THEN Link ELSE Clear]
Allocated(nent) ==
    IF RunsOf(nent) # {}
    THEN [ok |-> TRUE, start |-> First(RunsOf(nent)), steps |-> <<>>]
    ELSE [ok |-> Wanted(nent) <= Left, start |-> Tail0,
          steps |-> Stretch(IF Wanted(nent) <= Left THEN Wanted(nent) ELSE Left)]

\* gen_numname: the numbers whose name no entry has, as dir_find with NS_NOLFN says.
\* Mutant: it does not ask.
AnyNumber(n) == 1 .. MaxNumber
FreeNumbers(n) == {k \in 1 .. MaxNumber : \A i \in Kind(table, 1, "sfn") : table.slot[i].sfn # <<n.sfn[1], k>>}
Numbered(n) ==
    IF ~n.lossy THEN n.sfn ELSE <<n.sfn[1], First(FreeNumbers(n))>>
NumberLeft(n) == ExFat \/ ~n.lossy \/ FreeNumbers(n) # {}

\* The entries of name n for an object: the pieces last first, then the short name;
\* create_xdir and store_xdir: the set.
Entries(n, obj) ==
    LET m == Len(n.text) IN
    CASE ExFat -> <<FileDir(n.text, obj), Stream(n.text, obj)>> \o [k \in 1 .. m |-> FileName(n.text[k])]
      [] ~ExFat /\ ~n.lfn -> <<Sfn(n.sfn, obj)>>
      [] OTHER -> [k \in 1 .. m |-> Lfn(n.text[m + 1 - k], m + 1 - k, k = 1, SumSfn(Numbered(n)))]
                  \o <<Sfn(Numbered(n), obj)>>
PutFrom(start, E) == [k \in 1 .. Len(E) |-> Put(start + k - 1, E[k])]

\* dir_register, with the entry's data that its callers fill in in the same sector.
Register(n, obj) == LET a == Allocated(Len(Entries(n, obj))) IN
                    a.steps \o (IF a.ok THEN PutFrom(a.start, Entries(n, obj)) ELSE <<>>)
RegisteredAt(n, obj) == LET a == Allocated(Len(Entries(n, obj))) IN
                        IF ~a.ok THEN 0
                        ELSE IF ExFat THEN a.start ELSE a.start + Len(Entries(n, obj)) - 1
\* dir_remove.  Mutant: without dir_sdi to the start of the block.
RemoveEntry(i) == <<Put(BlockEnd(table, i), Gone)>>
Remove(i) == LET b == BlockStart(table, i) IN
             [k \in 1 .. BlockEnd(table, i) - b + 1 |-> Put(b + k - 1, Gone)]

-----------------------------------------------------------------------------
(* Calls *)

NoName == [text |-> <<>>, sfn |-> <<>>, lfn |-> FALSE, lossy |-> FALSE]
Idle == [op |-> "none", name |-> NoName, new |-> NoName, old |-> 0, at |-> 0, id |-> 0]
Nothing == [at |-> 0, id |-> 0]
Closed == [open |-> FALSE, pos |-> 0, failed |-> FALSE, stay |-> {}, seen |-> [i \in 1 .. MaxSlots |-> 0], at |-> 0, name |-> NoName]

Visit(i, j) ==
    IF dirty = 0 \/ SectorOf(i) .. SectorOf(j) = {dirty} THEN UNCHANGED <<disk, dirty>>
    ELSE disk' = Flushed /\ dirty' = 0
\* follow_path has looked for n.
Looked(n) == LET i == Find(table, n) IN
             Visit(1, IF i > 0 THEN BlockEnd(table, i)
                      ELSE IF End(table, 1) > table.len THEN table.len ELSE End(table, 1))

\* History: what a window gone to the drive has saved, and a call not synced made.
Unsaved ==
    (IF dirty' = dirty THEN fresh ELSE {})
        \cup (IF call.op = "create" /\ call.at # 0 /\ todo' = <<>> /\ dirty' # 0 THEN {call.name} ELSE {})

Ready == todo = <<>> /\ calls < MaxCalls
Begin(c, steps) ==
    /\ steps # <<>>
    /\ todo' = steps
    /\ call' = c
    /\ calls' = calls + 1
    /\ rd' = [rd EXCEPT !.stay = @ \ {c.old}, !.seen = [i \in 1 .. MaxSlots |-> IF i = c.old THEN 0 ELSE @[i]],
                        !.at = IF @ = c.old THEN 0 ELSE @, !.name = IF rd.at = c.old THEN NoName ELSE @]
    /\ Looked(IF c.op = "rename" THEN c.new ELSE c.name)
    /\ UNCHANGED <<fs_type, table, made, pulls>>
    /\ fresh' = Unsaved

\* f_open with a new file: CreateFileImpl closes it, which syncs; OpenFileImpl need
\* not.  f_mkdir, as far as this table goes, is the former.
Create(n, sync) ==
    /\ Ready
    /\ Find(table, n) = 0
    /\ NumberLeft(n)
    /\ LET obj == [id |-> objects + 1, ver |-> 0]
           at == RegisteredAt(n, obj)
       IN Begin([Idle EXCEPT !.op = "create", !.name = n, !.at = at, !.id = obj.id],
                Register(n, obj) \o (IF sync /\ at # 0 THEN <<Sync>> ELSE <<>>))
    /\ objects' = objects + 1

\* f_unlink, f_rmdir
Delete(n) ==
    /\ Ready
    /\ LET i == Find(table, n) IN
       /\ i > 0
       /\ Begin([Idle EXCEPT !.op = "delete", !.name = n, !.old = i], Remove(i) \o <<Sync>>)
    /\ UNCHANGED objects

\* f_rename.  Mutant: the old entry is removed before the new one is there.
MovedEarly(n, obj, i) == Remove(i) \o Register(n, obj)
Moved(n, obj, i) == Register(n, obj) \o Remove(i)
Rename(o, n) ==
    /\ Ready
    /\ LET i == Find(table, o) IN
       /\ i > 0
       /\ Find(table, n) \in {0, i}
       /\ NumberLeft(n)
       /\ LET obj == ObjAt(table, i)
              at == RegisteredAt(n, obj)
          IN Begin([Idle EXCEPT !.op = "rename", !.name = o, !.new = n, !.at = at, !.id = obj.id,
                                !.old = IF at = 0 THEN 0 ELSE i],
                   IF at = 0 THEN Register(n, obj) ELSE Moved(n, obj, i) \o <<Sync>>)
    /\ UNCHANGED objects

\* f_sync of a file that was written: its entry, or its whole set, again.
\* Mutant: the sum of the set is the one it had.
TouchedStale(i, obj) ==
    IF ~ExFat THEN <<Put(i, Sfn(table.slot[i].sfn, obj))>> ELSE <<Put(i + 1, Stream(SetText(table, i), obj))>>
Touched(i, obj) ==
    IF ~ExFat THEN <<Put(i, Sfn(table.slot[i].sfn, obj))>>
    ELSE LET text == SetText(table, i) IN
         PutFrom(i, <<FileDir(text, obj), Stream(text, obj)>>
                    \o [k \in 1 .. Len(text) |-> FileName(text[k])])
Touch(n) ==
    /\ Ready
    /\ LET i == Find(table, n) IN
       /\ i > 0
       /\ ObjAt(table, i).ver = 0    \* bound: a file is written once
       /\ LET obj == [ObjAt(table, i) EXCEPT !.ver = 1]
          IN Begin([Idle EXCEPT !.op = "touch", !.name = n], Touched(i, obj) \o <<Sync>>)
    /\ UNCHANGED objects

\* What a call that is done has made.
Done(c) ==
    LET rest == [m \in Names |-> IF made[m].at = c.old /\ c.old # 0 THEN Nothing ELSE made[m]] IN
    CASE c.op = "create" /\ c.at # 0 -> [rest EXCEPT ![c.name] = [at |-> c.at, id |-> c.id]]
      [] c.op = "rename" /\ c.at # 0 -> [rest EXCEPT ![c.new] = [at |-> c.at, id |-> c.id]]
      [] OTHER -> rest

Grown(T, s) == [len |-> T.len + PerSector,
                slot |-> [i \in 1 .. MaxSlots |-> IF i \in T.len + 1 .. T.len + PerSector THEN s ELSE T.slot[i]]]
Cleared(T) == [T EXCEPT !.slot = [i \in 1 .. MaxSlots |-> IF i \in T.len - PerSector + 1 .. T.len THEN Zero ELSE @[i]]]

\* dir_next with stretch: create_chain links the cluster, dir_clear's sync_window
\* takes the link to the drive, and then the cluster is cleared there.
LinkCluster(s) ==
    /\ s.do = "link"
    /\ table' = Grown(table, Junk)
    /\ disk' = Grown(Flushed, Junk)
    /\ dirty' = 0
ClearCluster(s) ==
    /\ s.do = "clear"
    /\ table' = Cleared(table)
    /\ disk' = Cleared(disk)
    /\ dirty' = 0
PutEntry(s) ==
    /\ s.do = "put"
    /\ table' = [table EXCEPT !.slot[s.at] = s.entry]
    /\ disk' = IF dirty \in {0, SectorOf(s.at)} THEN disk ELSE Flushed
    /\ dirty' = SectorOf(s.at)
SyncFs(s) ==
    /\ s.do = "sync"
    /\ disk' = Flushed
    /\ dirty' = 0
    /\ UNCHANGED table

Step ==
    /\ todo # <<>>
    /\ \/ LinkCluster(Head(todo)) \/ ClearCluster(Head(todo))
       \/ PutEntry(Head(todo)) \/ SyncFs(Head(todo))
    /\ todo' = Tail(todo)
    /\ IF Tail(todo) = <<>> THEN made' = Done(call) /\ call' = Idle
       ELSE UNCHANGED <<made, call>>
    /\ UNCHANGED <<fs_type, rd, objects, pulls, calls>>
    /\ fresh' = Unsaved

\* A call on another object of the volume, or one that fails, moves the window.
Elsewhere ==
    /\ todo = <<>>
    /\ dirty # 0
    /\ disk' = Flushed
    /\ dirty' = 0
    /\ UNCHANGED <<fs_type, table, todo, call, made, rd, objects, pulls, calls>>
    /\ fresh' = Unsaved

-----------------------------------------------------------------------------
(* Directories that are open *)

OpenDir ==
    /\ todo = <<>>
    /\ ~rd.open
    /\ rd' = [Closed EXCEPT !.open = TRUE, !.pos = 1, !.stay = Heads(table)]
    /\ UNCHANGED <<fs_type, table, disk, dirty, todo, call, made, objects, pulls, calls>>
    /\ fresh' = Unsaved

CloseDir ==
    /\ todo = <<>>
    /\ rd.open
    /\ rd' = Closed
    /\ UNCHANGED <<fs_type, table, disk, dirty, todo, call, made, objects, pulls, calls>>
    /\ fresh' = Unsaved

\* dir_next after the entry at i. Mutant: it is not called.
AfterSame(i) == i
After(i) == IF BlockEnd(table, i) = table.len THEN 0 ELSE BlockEnd(table, i) + 1
Ahead == IF rd.pos = 0 THEN {} ELSE Kind(table, rd.pos, IF ExFat THEN "85" ELSE "sfn")
\* get_fileinfo: the long name if its pieces were read, else the short one.
NameOfText(text) == IF \E n \in Names : n.text = text THEN CHOOSE n \in Names : n.text = text
                    ELSE [text |-> text, sfn |-> text[1], lfn |-> FALSE, lossy |-> FALSE]
Reported(i) == NameOfText(IF ExFat THEN SetText(table, i) ELSE TextAt(table, i, rd.pos))

\* dir_read to the end of the table; nothing once it was there.
ReadOn == IF rd.pos = 0 THEN UNCHANGED <<disk, dirty>>
          ELSE Visit(rd.pos, IF End(table, rd.pos) > table.len THEN table.len ELSE End(table, rd.pos))

\* DriveDirectory::ReadImpl, one turn: dir_read, get_fileinfo, dir_next.
ReadDir ==
    /\ todo = <<>>
    /\ rd.open
    /\ IF Ahead = {}
       THEN /\ rd' = [rd EXCEPT !.pos = 0]
            /\ ReadOn
       ELSE LET i == First(Ahead) IN
            IF ExFat /\ ~Whole(table, i)
            THEN /\ rd' = [rd EXCEPT !.pos = 0, !.failed = TRUE]
                 /\ Visit(rd.pos, i)
            ELSE /\ rd' = [rd EXCEPT !.pos = After(i), !.seen[i] = @ + 1, !.at = i, !.name = Reported(i)]
                 /\ Visit(rd.pos, BlockEnd(table, i))
    /\ UNCHANGED <<fs_type, table, todo, call, made, objects, pulls, calls>>
    /\ fresh' = Unsaved

\* DriveDirectory::GetEntryCountImpl: to the end, and no rewind.
GetEntryCount ==
    /\ todo = <<>>
    /\ rd.open
    /\ \A i \in Ahead : ExFat => Whole(table, i)
    /\ rd' = [rd EXCEPT !.pos = 0, !.seen = [i \in 1 .. MaxSlots |-> IF i \in Ahead THEN @[i] + 1 ELSE @[i]]]
    /\ ReadOn
    /\ UNCHANGED <<fs_type, table, todo, call, made, objects, pulls, calls>>
    /\ fresh' = Unsaved

-----------------------------------------------------------------------------
(* The drive goes and comes back, and is mounted again *)

JunkIn(T) == \E i \in 1 .. T.len : T.slot[i].kind = "junk"
Torn(T) == ExFat /\ \E i \in Heads(T) : ~Whole(T, i)

Pull ==
    /\ pulls < MaxPulls
    /\ ~JunkIn(disk)
    /\ table' = disk
    /\ dirty' = 0 /\ todo' = <<>> /\ call' = Idle /\ rd' = Closed
    /\ made' = [n \in Names |->
                  LET i == Find(disk, n) IN
                  IF i > 0 /\ (IF ExFat THEN TRUE ELSE TextAt(disk, i, 1) = n.text)
                  THEN [at |-> i, id |-> ObjAt(disk, i).id] ELSE Nothing]
    /\ pulls' = pulls + 1
    /\ UNCHANGED <<fs_type, disk, objects, calls>>
    /\ fresh' = Unsaved

EmptyTable(len) == [len |-> len, slot |-> [i \in 1 .. MaxSlots |-> IF i <= len THEN Zero ELSE Junk]]
Init ==
    /\ fs_type \in FsTypes
    /\ table = EmptyTable(PerSector)
    /\ disk = table
    /\ dirty = 0 /\ todo = <<>> /\ call = Idle
    /\ made = [n \in Names |-> Nothing]
    /\ fresh = {}
    /\ rd = Closed
    /\ objects = 0 /\ pulls = 0 /\ calls = 0

Next ==
    \/ \E n \in Names : \E sync \in BOOLEAN : Create(n, sync)
    \/ \E n \in Names : Delete(n)
    \/ \E o \in Names : \E n \in Names : Rename(o, n)
    \/ \E n \in Names : Touch(n)
    \/ Step
    \/ Elsewhere
    \/ OpenDir \/ ReadDir \/ GetEntryCount \/ CloseDir
    \/ Pull

Spec == Init /\ [][Next]_vars

-----------------------------------------------------------------------------
(* Properties *)

TypeOK ==
    /\ fs_type \in FsTypes
    /\ table.len \in 1 .. MaxSlots /\ disk.len = table.len
    /\ dirty \in 0 .. MaxClusters
    /\ \A i \in 1 .. Len(todo) : todo[i].do = "put" => todo[i].at \in 1 .. MaxSlots
    /\ \A n \in Names : made[n].at \in 0 .. table.len /\ made[n].id \in 0 .. objects
    /\ rd.pos \in 0 .. table.len
    /\ rd.stay \subseteq 1 .. table.len

\* Between calls, a name that was made leads to the entry and the object it was made
\* for, whatever was made, renamed and removed since: dir_register's search for a
\* number (2568-2574) keeps short names apart, and a name that fits 8.3 is not
\* confused with one that was generated.  On exFAT a torn set in front of it is an
\* error.  A name that was not made leads nowhere, or is the short name of another.
\* After a pull, what a call left half done can still lead somewhere: a second entry
\* of an object that was being renamed, or pieces in front of another's short name.
NamesLead ==
    todo = <<>> =>
        \A n \in Names :
            LET i == Find(table, n) IN
            \/ i = made[n].at /\ (i # 0 => ObjAt(table, i).id = made[n].id)
            \/ i = -1 /\ Torn(table)
            \/ made[n].at = 0 /\ i > 0 /\ ~n.lossy /\ ~ExFat /\ table.slot[i].sfn = n.sfn
            \/ pulls > 0 /\ i > 0 /\ (made[n].at = 0 \/ ObjAt(table, i).id = made[n].id)

\* While the drive stays in, no cluster keeps what its last owner left in it, every
\* long-name piece belongs to the entry behind it, every set is whole and no two
\* entries share a short name: dir_remove takes away all that dir_register has put
\* there.
NothingLeftBehind ==
    todo = <<>> /\ pulls = 0 => ~JunkIn(table) /\
        IF ExFat
        THEN /\ ~Torn(table)
             /\ \A i \in 1 .. table.len : table.slot[i].kind \in {"c0", "c1"} =>
                    \E h \in Heads(table) : i \in h .. BlockEnd(table, h)
        ELSE /\ \A i \in 1 .. table.len : table.slot[i].kind = "lfn" =>
                    \E h \in Heads(table) : \E m \in Run(table, h, 1) : i \in h - m .. h
             /\ \A i, j \in Heads(table) : table.slot[i].sfn = table.slot[j].sfn => i = j

\* Nothing lies behind the mark that ends the table, at no moment on the drive
\* either: dir_read and dir_find would never come by it again.
NothingBehindEnd ==
    \A T \in {table, disk} : \A i, j \in 1 .. T.len :
        i < j /\ T.slot[i].kind = "zero" => T.slot[j].kind \in {"zero", "junk"}

\* The table holds the entries that were made, where they can be found, and no more.
TableSound == TypeOK /\ NothingLeftBehind /\ NothingBehindEnd

\* Whenever the drive is pulled, the names that no call under way is about are on
\* it as they were made, except those in the sector a file's creation left in the
\* window, and on exFAT those behind a set that was half written.
OtherNamesOnDisk ==
    \A n \in Names :
        \/ made[n].at = 0
        \/ made[n].at = call.old
        \/ n \in fresh
        \/ LET i == Find(disk, n) IN
           IF i > 0 THEN ObjAt(disk, i).id = made[n].id ELSE i = -1 /\ Torn(disk)

\* f_rename and the loss of the drive: at every moment the object is on the drive
\* under an entry, the old or the new one or (in the critical section) both, unless
\* a half-written exFAT set lies in front, or it was never written before.
Listed(T) ==
    {ObjAt(T, i).id : i \in {h \in Heads(T) :
        ~ExFat \/ (Whole(T, h) /\ \A g \in Heads(T) : g < h => Whole(T, g))}}
RenameKeepsObject ==
    call.op = "rename" =>
        \/ call.id \in Listed(disk)
        \/ Torn(disk)
        \/ \E n \in fresh : made[n].at = call.old

\* What a pull at any step leaves of the names there were.
DiskKeepsNames == OtherNamesOnDisk /\ RenameKeepsObject

\* Only a set across two sectors can be torn on the drive, and only while a call is
\* at it, after a pull, or while the file is new and open: f_open does not sync, so
\* its second half may stay in the window for any length of time.
TornOnlyAcrossSectors ==
    \A i \in Heads(disk) : ExFat /\ ~Whole(disk, i) =>
        /\ todo # <<>> \/ fresh # {} \/ pulls > 0
        /\ SectorOf(i) # SectorOf(i + disk.slot[i].num)

\* A directory read to its end, entry by entry or by GetEntryCountImpl, has given
\* every entry that was there all the while exactly once, however many were made,
\* renamed and removed around it.  DeleteDirectoryRecursivelyImpl lives by it.
StayersOnce ==
    rd.open => \A i \in rd.stay : /\ rd.seen[i] <= 1
                                  /\ rd.pos = 0 /\ ~rd.failed => rd.seen[i] = 1

\* The name f_readdir gave leads to the entry it was given for until that is
\* removed: even if the handle stood in the middle of a run of entries allocated
\* since, read its tail alone, and gave the short name.
ReportedNameLeads ==
    todo = <<>> /\ rd.at # 0 /\ pulls = 0 => Find(table, rd.name) = rd.at

\* What a handle reports while the table changes under it.
ReadersRight == StayersOnce /\ ReportedNameLeads
=============================================================================
