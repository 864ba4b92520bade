------------------------------- MODULE FatFile -------------------------------
(***************************************************************************)
(* The contents of an open file: DriveFile (fspusb_file.hpp) on f_open,    *)
(* f_lseek, f_read, f_write, f_truncate, f_sync and f_close (ff.c), with   *)
(* the one-sector buffer FIL.buf that is written back late.                *)
(*                                                                         *)
(* One file with its chain of clusters, which FatAlloc shows to be its     *)
(* own; other files take and give back the clusters it does not have.      *)
(* FatLock shows that a file open for writing is open once.  Bytes are     *)
(* numbers: n for what the nth write put there, 0 for what was on the      *)
(* drive before.  f_lseek and f_truncate are one step, f_read and f_write  *)
(* one step for each turn of their loop.                                   *)
(***************************************************************************)
EXTENDS Integers, Sequences, FiniteSets

CONSTANTS
    FsTypes,            \* which of "fat", "exfat"
    NClusters,          \* clusters of the volume
    SS, csize,          \* bytes of a sector, sectors of a cluster
    Word,               \* 2^32, where a 32-bit offset wraps
    Offsets, Lengths,   \* bound: arguments of the calls
    MaxCalls, MaxOthers \* bound: calls on the file, clusters others take or give

ASSUME FileAssumption ==
    /\ FsTypes \subseteq {"fat", "exfat"}
    /\ NClusters \in Nat \ {0} /\ SS \in Nat \ {0} /\ csize \in Nat \ {0}
    /\ Word \in Nat \ {0}
    /\ Offsets \subseteq Nat /\ Lengths \subseteq 0 .. Word - 1   \* f_write takes a 32-bit length
    /\ MaxCalls \in Nat /\ MaxOthers \in Nat

bcs == csize * SS
Clusters == 1 .. NClusters
Sectors == Clusters \X (0 .. csize - 1)
Bytes == 0 .. SS - 1
NoSector == <<0, 0>>     \* fp->sect = 0

VARIABLES
    fs_type,
    disk,      \* disk[s]: the bytes of a sector
    others,    \* clusters of other files
    chain,     \* clusters of this one
    size,      \* its size in the directory entry
    fil,       \* the FIL
    call,      \* the DriveFile call under way
    content,   \* history: content[p] is the write that byte p is from, 0 if none
    got,       \* history: what the last read returned, from which offset
    calls, changes

vars == <<fs_type, disk, others, chain, size, fil, call, content, got, calls, changes>>
bounds == <<calls, changes>>

NoBuf == [b \in Bytes |-> 0]
Closed == [open |-> FALSE, read |-> FALSE, write |-> FALSE, fptr |-> 0, objsize |-> 0, clust |-> 0,
           sect |-> NoSector, buf |-> NoBuf, dirty |-> FALSE, modified |-> FALSE]
Idle == [op |-> "none", n |-> 0]

IsFree(c) == c \notin others /\ \A i \in DOMAIN chain : chain[i] # c
Min2(a, b) == IF a < b THEN a ELSE b
Max2(a, b) == IF a < b THEN b ELSE a

\* The sector byte p of the file is in, by a chain.
SectorOf(q, p) == <<q[p \div bcs + 1], (p \div SS) % csize>>
\* The cluster the file pointer is in, or at the end of.
ClusterOf(q, p) == IF p = 0 THEN 0 ELSE q[(p - 1) \div bcs + 1]
Following(q, c) ==
    LET i == CHOOSE j \in DOMAIN q : q[j] = c IN IF i < Len(q) THEN q[i + 1] ELSE 0

\* The buffer goes to the drive if it is dirty.
WrittenBack(f, d) == IF f.dirty THEN [d EXCEPT ![f.sect] = f.buf] ELSE d

Init ==
    /\ fs_type \in FsTypes
    /\ disk = [s \in Sectors |-> NoBuf]
    /\ others = {}
    /\ chain = <<>>
    /\ size = 0
    /\ fil = Closed
    /\ call = Idle
    /\ content = <<>>
    /\ got = [from |-> 0, bytes |-> <<>>]
    /\ calls = 0 /\ changes = 0

-----------------------------------------------------------------------------
(* f_open and f_close *)

Modes == {<<TRUE, FALSE>>, <<FALSE, TRUE>>, <<TRUE, TRUE>>}

\* FA_SEEKEND: to the end, with its sector in the buffer.
Appending(f, q) ==
    IF f.objsize = 0 THEN f
    ELSE LET g == [f EXCEPT !.fptr = f.objsize, !.clust = ClusterOf(q, f.objsize)] IN
         IF f.objsize % SS = 0 THEN g
         ELSE [g EXCEPT !.sect = SectorOf(q, f.objsize), !.buf = disk[SectorOf(q, f.objsize)]]
Open(m, append) ==
    LET f == [Closed EXCEPT !.open = TRUE, !.read = m[1], !.write = m[2], !.objsize = size] IN
    /\ ~fil.open
    /\ fil' = IF append THEN Appending(f, chain) ELSE f
    /\ UNCHANGED <<fs_type, disk, others, chain, size, call, content, got, bounds>>

\* f_sync writes buffer and entry if the file is marked as changed.
\* Mutant: it leaves the buffer.
SyncedSizeOnly(f) == disk
Synced(f) == WrittenBack(f, disk)
Close ==
    /\ fil.open /\ call.op = "none"
    /\ disk' = IF fil.modified THEN Synced(fil) ELSE disk
    /\ size' = IF fil.modified THEN fil.objsize ELSE size
    /\ fil' = Closed
    /\ UNCHANGED <<fs_type, others, chain, call, content, got, bounds>>

-----------------------------------------------------------------------------
(* f_lseek *)

\* Where it ends: FAT stops short of 4 GiB, a reader at the end of the file, and
\* a writer where the volume is full, at the end of the last cluster.
Target(f, q, ofs) ==
    LET o == IF fs_type # "exfat" /\ ofs >= Word THEN Word - 1 ELSE ofs IN
    IF ~f.write THEN Min2(o, f.objsize) ELSE Min2(o, Len(q) * bcs)

\* The chain has as many clusters as the target needs, or all there are.
Stretched(q, ofs) ==
    LET o == IF fs_type # "exfat" /\ ofs >= Word THEN Word - 1 ELSE ofs
        need == Max2(Len(chain), (o + bcs - 1) \div bcs)
        free == Cardinality({c \in Clusters : IsFree(c)}) IN
    IF ~fil.write THEN q = chain
    ELSE /\ Len(q) = Min2(need, Len(chain) + free)
         /\ SubSeq(q, 1, Len(chain)) = chain
         /\ \A i \in Len(chain) + 1 .. Len(q) : IsFree(q[i])
         /\ \A i, j \in DOMAIN q : q[i] = q[j] => i = j
Chains == UNION {[1 .. n -> Clusters] : n \in 0 .. NClusters}

\* The buffer is changed for the target's sector if that is begun.
Refill(f, q) == f.fptr % SS # 0 /\ f.sect # SectorOf(q, f.fptr)
Sought(f, q, ofs) ==
    LET p == Target(f, q, ofs)
        g == [f EXCEPT !.fptr = p, !.clust = ClusterOf(q, p), !.objsize = Max2(@, p),
                       !.modified = @ \/ p > f.objsize] IN
    IF Refill(g, q)
    THEN [g EXCEPT !.dirty = FALSE, !.sect = SectorOf(q, p),
                   !.buf = WrittenBack(f, disk)[SectorOf(q, p)]]
    ELSE g

\* History: bytes the file grew by are from no write.
Resized(n) == [p \in 1 .. n |-> IF p <= Len(content) THEN content[p] ELSE 0]

Seek(q, ofs) ==
    LET f == Sought(fil, q, ofs) IN
    /\ Stretched(q, ofs)
    /\ chain' = q
    /\ disk' = IF Refill([fil EXCEPT !.fptr = f.fptr], q) THEN WrittenBack(fil, disk) ELSE disk
    /\ content' = Resized(f.objsize)

Begin == fil.open /\ call.op = "none" /\ calls < MaxCalls /\ calls' = calls + 1

\* ReadImpl: f_lseek, then f_read; it asks for FA_READ, and stops at the end.
ReadImpl(q, ofs, n) ==
    LET f == Sought(fil, q, ofs) IN
    /\ Begin /\ Seek(q, ofs) /\ fil' = f
    /\ call' = IF fil.read THEN [op |-> "read", n |-> Min2(n, f.objsize - f.fptr)] ELSE Idle
    /\ got' = [from |-> f.fptr, bytes |-> <<>>]
    /\ UNCHANGED <<fs_type, others, size, changes>>

\* WriteImpl: f_lseek, then f_write; FAT cuts the length short of 4 GiB.
\* Mutant: nothing wraps.
NeverWraps(p, n) == FALSE
Wraps(p, n) == (p + n) % Word < p % Word
Writable(p, n) == IF fs_type # "exfat" /\ Wraps(p, n) THEN Word - 1 - p ELSE n
WriteImpl(q, ofs, n) ==
    LET f == Sought(fil, q, ofs) IN
    /\ Begin /\ Seek(q, ofs) /\ fil' = f
    /\ call' = IF fil.write THEN [op |-> "write", n |-> Writable(f.fptr, n)] ELSE Idle
    /\ UNCHANGED <<fs_type, others, size, got, changes>>

\* SetSizeImpl: f_lseek, and f_truncate if the file is to be smaller.  The buffer
\* is written after the chain was cut, perhaps to a cluster just freed.
\* Mutant: it stays dirty.
CleanStays(f) == f
Clean(f) == [f EXCEPT !.dirty = FALSE]
Cut(f, q) == SubSeq(q, 1, (f.fptr + bcs - 1) \div bcs)
SetSizeImpl(q, n) ==
    LET f == Sought(fil, q, n)
        cuts == n < fil.objsize /\ fil.write /\ f.fptr < f.objsize
        d == IF Refill([fil EXCEPT !.fptr = f.fptr], q) THEN WrittenBack(fil, disk) ELSE disk IN
    /\ Begin
    /\ IF cuts
       THEN /\ Stretched(q, n)
            /\ chain' = Cut(f, q)
            /\ disk' = WrittenBack(f, d)
            /\ fil' = [Clean(f) EXCEPT !.objsize = f.fptr, !.modified = TRUE]
            /\ content' = Resized(f.fptr)
       ELSE Seek(q, n) /\ fil' = f
    /\ UNCHANGED <<fs_type, others, size, call, got, changes>>

-----------------------------------------------------------------------------
(* f_read *)

\* The cluster at the pointer, if it is on a boundary.
Entering(f) == f.fptr % bcs = 0
NextCluster(f) == IF f.fptr = 0 THEN (IF chain = <<>> THEN 0 ELSE chain[1]) ELSE Following(chain, f.clust)
AtPointer(f) == <<f.clust, (f.fptr \div SS) % csize>>
Direct(f, n) == Min2(n \div SS, csize - ((f.fptr \div SS) % csize))

\* Bytes of whole sectors, the buffered one from the buffer if it is dirty.
\* Mutant: always from the drive.
FromDrive(f, s) == disk[s]
SectorRead(f, s) == IF f.dirty /\ s = f.sect THEN f.buf ELSE disk[s]

ReadTurn ==
    LET f == IF Entering(fil) THEN [fil EXCEPT !.clust = NextCluster(fil)] ELSE fil
        s == AtPointer(f)
        cc == Direct(f, call.n)
        whole == f.fptr % SS = 0 /\ call.n >= SS
        load == f.fptr % SS = 0 /\ ~whole /\ f.sect # s
        g == IF load THEN [f EXCEPT !.dirty = FALSE, !.sect = s, !.buf = WrittenBack(f, disk)[s]] ELSE f
        n == IF whole THEN SS * cc ELSE Min2(SS - (f.fptr % SS), call.n)
        out == [i \in 1 .. n |->
                   IF whole THEN SectorRead(f, <<f.clust, s[2] + (i - 1) \div SS>>)[(i - 1) % SS]
                   ELSE g.buf[(f.fptr % SS) + i - 1]] IN
    /\ call.op = "read" /\ call.n > 0
    /\ disk' = IF load THEN WrittenBack(f, disk) ELSE disk
    /\ fil' = [g EXCEPT !.fptr = @ + n]
    /\ got' = [got EXCEPT !.bytes = @ \o out]
    /\ call' = [call EXCEPT !.n = @ - n]
    /\ UNCHANGED <<fs_type, others, chain, size, content, bounds>>

ReadEnd ==
    /\ call.op = "read" /\ call.n = 0
    /\ call' = Idle
    /\ UNCHANGED <<fs_type, disk, others, chain, size, fil, content, got, bounds>>

-----------------------------------------------------------------------------
(* f_write *)

\* create_chain: the cluster that follows, a free one, or none.
Entered(f, q) ==
    IF ~Entering(f) \/ NextCluster(f) # 0
    THEN q = chain
    ELSE \/ \E c \in Clusters : IsFree(c) /\ q = Append(chain, c)
         \/ (\A c \in Clusters : ~IsFree(c)) /\ q = chain
Here(f, q) ==
    IF ~Entering(f) THEN f.clust
    ELSE IF f.fptr = 0 THEN (IF q = <<>> THEN 0 ELSE q[1]) ELSE Following(q, f.clust)

Put(p, n) == [i \in 1 .. Max2(Len(content), p + n) |->
                 IF i > p /\ i <= p + n THEN calls ELSE IF i <= Len(content) THEN content[i] ELSE 0]
\* The buffer is not filled at the growing edge.
Filled(f, s) == f.sect # s /\ f.fptr < f.objsize
\* Mutant: a buffer that is overtaken by a direct write keeps its dirty bytes.
KeptBuffer(f, c, k, cc) == f
OvertakenBuffer(f, c, k, cc) ==
    IF f.sect[1] = c /\ f.sect[2] \in k .. k + cc - 1
    THEN [f EXCEPT !.buf = [b \in Bytes |-> calls], !.dirty = FALSE] ELSE f

WriteTurn(q) ==
    LET c == Here(fil, q)
        k == (fil.fptr \div SS) % csize
        s == <<c, k>>
        onSector == fil.fptr % SS = 0
        whole == onSector /\ call.n >= SS
        cc == Direct(fil, call.n)
        n == IF whole THEN SS * cc ELSE Min2(SS - (fil.fptr % SS), call.n)
        back == IF onSector THEN WrittenBack(fil, disk) ELSE disk
        f == [fil EXCEPT !.clust = c, !.dirty = @ /\ ~onSector]
        g == IF whole THEN OvertakenBuffer(f, c, k, cc)
             ELSE [f EXCEPT !.sect = IF onSector THEN s ELSE @, !.dirty = TRUE,
                      !.buf = [b \in Bytes |->
                          IF b \in f.fptr % SS .. (f.fptr % SS) + n - 1 THEN calls
                          ELSE IF onSector /\ Filled(f, s) THEN back[s][b] ELSE f.buf[b]]] IN
    /\ call.op = "write" /\ call.n > 0
    /\ Entered(fil, q) /\ c # 0
    /\ chain' = q
    /\ disk' = IF whole THEN [t \in Sectors |-> IF t[1] = c /\ t[2] \in k .. k + cc - 1
                                                THEN [b \in Bytes |-> calls] ELSE back[t]]
               ELSE back
    /\ fil' = [g EXCEPT !.fptr = @ + n, !.objsize = Max2(@, fil.fptr + n)]
    /\ content' = Put(fil.fptr, n)
    /\ call' = [call EXCEPT !.n = @ - n]
    /\ UNCHANGED <<fs_type, others, size, got, bounds>>

\* All is written, or the volume is full: FR_OK in either case.
WriteEnd ==
    /\ call.op = "write"
    /\ call.n = 0 \/ (Entering(fil) /\ NextCluster(fil) = 0 /\ \A c \in Clusters : ~IsFree(c))
    /\ call' = Idle
    /\ fil' = [fil EXCEPT !.modified = TRUE]
    /\ UNCHANGED <<fs_type, disk, others, chain, size, content, got, bounds>>

-----------------------------------------------------------------------------
(* Other files, between calls: they fill what they take. *)

OthersTake(c) ==
    /\ call.op = "none" /\ changes < MaxOthers /\ changes' = changes + 1
    /\ IsFree(c)
    /\ others' = others \union {c}
    /\ disk' = [s \in Sectors |-> IF s[1] = c THEN NoBuf ELSE disk[s]]
    /\ UNCHANGED <<fs_type, chain, size, fil, call, content, got, calls>>
OthersGive(c) ==
    /\ call.op = "none" /\ changes < MaxOthers /\ changes' = changes + 1
    /\ c \in others
    /\ others' = others \ {c}
    /\ UNCHANGED <<fs_type, disk, chain, size, fil, call, content, got, calls>>

Next ==
    \/ \E m \in Modes, append \in BOOLEAN : Open(m, append)
    \/ Close
    \/ \E q \in Chains, ofs \in Offsets :
        \/ \E n \in Lengths : ReadImpl(q, ofs, n) \/ WriteImpl(q, ofs, n)
        \/ SetSizeImpl(q, ofs)
    \/ ReadTurn \/ ReadEnd
    \/ \E q \in Chains : WriteTurn(q)
    \/ WriteEnd
    \/ \E c \in Clusters : OthersTake(c) \/ OthersGive(c)

Spec == Init /\ [][Next]_vars

-----------------------------------------------------------------------------
(* Properties *)

TypeOK ==
    /\ chain \in Chains /\ others \subseteq Clusters
    /\ \A i \in DOMAIN chain : chain[i] \notin others
    /\ fil.fptr \in 0 .. NClusters * bcs /\ fil.objsize \in 0 .. Len(chain) * bcs
    /\ fil.sect \in Sectors \union {NoSector}
    /\ fil.dirty => fil.write /\ fil.sect # NoSector

\* Byte p, counted from 0, as the next read gets it.
Seen(p) ==
    LET s == SectorOf(chain, p) IN
    IF fil.dirty /\ fil.sect = s THEN fil.buf[p % SS] ELSE disk[s][p % SS]
Written(p) == p < Len(content) /\ content[p + 1] # 0

\* Buffer and drive together hold what was written last, byte for byte, in the
\* middle of every call: through seeks, cuts, direct transfers past the buffer.
NoByteLost == fil.open =>
    /\ Len(content) = fil.objsize
    /\ \A p \in 0 .. fil.objsize - 1 : Written(p) => Seen(p) = content[p + 1]

\* A clean buffer has the bytes of its sector that were written.
BufferCoherent == fil.open =>
    \A p \in 0 .. fil.objsize - 1 :
        Written(p) /\ fil.sect = SectorOf(chain, p) => fil.buf[p % SS] = content[p + 1]

\* f_read returns the bytes last written at the offset that was asked for.
ReadsWritten == call.op = "read" =>
    \A i \in DOMAIN got.bytes :
        Written(got.from + i - 1) => got.bytes[i] = content[got.from + i]

\* The FIL's cluster and sector are those of its file pointer: f_read and f_write
\* go on from them without looking at the chain again.
PointerInCluster == fil.open /\ fil.fptr > 0 =>
    /\ fil.clust = chain[(fil.fptr - 1) \div bcs + 1]
    /\ fil.fptr % SS # 0 => fil.sect = SectorOf(chain, fil.fptr)

\* File pointer, buffer and drive together hold what was written.
BytesKept == TypeOK /\ PointerInCluster /\ BufferCoherent /\ NoByteLost

\* A file on FAT never gets a size its 32-bit field does not hold.
SizeFits == fs_type # "exfat" => fil.objsize < Word

\* What a closed file holds is on the drive, with its size in the entry.
ClosedIsWritten == ~fil.open =>
    /\ size = Len(content)
    /\ \A p \in 0 .. size - 1 : Written(p) => disk[SectorOf(chain, p)][p % SS] = content[p + 1]

\* No step of this file writes to a cluster of another, with a buffer left over
\* from a cluster it gave up least of all.
OthersUntouched ==
    [][\A s \in Sectors : s[1] \in others \intersect others' => disk'[s] = disk[s]]_vars

\* fspusb_file.hpp:59 has it that "everything is written right away": once WriteImpl
\* has answered, the bytes it put into the file are on the drive.
WrittenRightAway == fil.open /\ call.op = "none" =>
    \A p \in 0 .. fil.objsize - 1 :
        calls > 0 /\ content[p + 1] = calls => disk[SectorOf(chain, p)][p % SS] = calls
=============================================================================
