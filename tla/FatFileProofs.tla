---------------------------- MODULE FatFileProofs ----------------------------
(***************************************************************************)
(* Theorems about FatFile, for every size of sectors, clusters and volumes *)
(* and for the 2^32 a DWORD wraps at.                                      *)
(*                                                                         *)
(* SizesFit: no sequence of seeks, writes and resizes brings a file on FAT *)
(* to a size its directory entry cannot hold.  f_lseek stops short of it,  *)
(* f_write cuts its length, and what is left to write never leads past it  *)
(* from where the file pointer is.                                         *)
(*                                                                         *)
(* PointerSafe and OthersSafe: the FIL keeps the cluster and the sector of *)
(* its pointer, and what it still has to write back is in its own chain.   *)
(* The pointer is taken apart into cluster, sector and byte (At), so that  *)
(* divisions occur in a few lemmas only.                                   *)
(*                                                                         *)
(* BytesSafe, ReadsRight and ClosedSafe: no byte that was written is lost  *)
(* or replaced, f_read hands out the last one written at each place, and   *)
(* closing leaves all of them on the drive (DataInv).                      *)
(***************************************************************************)
EXTENDS FatFile, FiniteSetTheorems, SequenceTheorems, TLAPS

\* Division by a divisor that is not a literal, which SMT does not do by itself.
LEMMA DivMod ==
    ASSUME NEW p \in Nat, NEW b \in Nat, b > 0
    PROVE  \E d \in Nat, r \in Nat : d = p \div b /\ r = p % b /\ r < b /\ p = b * d + r
<1>1. p \div b \in Nat /\ p % b \in 0 .. b - 1 /\ p % b = p - b * (p \div b)
  OBVIOUS
<1>2. PICK d \in Nat, r \in 0 .. b - 1 : d = p \div b /\ r = p % b /\ r = p - b * d
  BY <1>1, Zenon
<1>3. r \in Nat /\ r < b /\ p = b * d + r
  BY <1>2
<1> QED
  BY <1>2, <1>3, Zenon

\* There is only one such quotient and remainder.
LEMMA DivUnique == ASSUME NEW p \in Nat, NEW b \in Nat, b > 0, NEW q \in Nat, NEW r \in Nat, r < b, p = b * q + r
    PROVE  p \div b = q /\ p % b = r
<1>1. PICK d \in Nat, s \in Nat : d = p \div b /\ s = p % b /\ s < b /\ p = b * d + s
  BY DivMod
<1>2. s < b /\ p = b * d + s
  BY <1>1, Zenon
<1>3. d = q
  <2>1. CASE d < q
    <3>1. d + 1 <= q
      BY <2>1
    <3>2. b * (d + 1) <= b * q
      BY <3>1
    <3> QED
      BY <3>2, <1>2
  <2>2. CASE q < d
    <3>1. q + 1 <= d
      BY <2>2
    <3>2. b * (q + 1) <= b * d
      BY <3>1
    <3> QED
      BY <3>2, <1>2
  <2> QED
    BY <2>1, <2>2
<1>4. s = r
  BY <1>2, <1>3
<1> QED
  BY <1>1, <1>3, <1>4, Zenon

Shape(f) == f = [x \in DOMAIN Closed |-> f[x]]
\* A FIL whose file pointer and size are numbers, and on FAT fit into 32 bits.
Fits(f) ==
    /\ Shape(f) /\ f.fptr \in Nat /\ f.objsize \in Nat
    /\ fs_type # "exfat" => f.fptr < Word /\ f.objsize < Word
FitInv ==
    /\ Fits(fil)
    /\ size \in Nat /\ (fs_type # "exfat" => size < Word)
    /\ call = [op |-> call.op, n |-> call.n] /\ call.n \in Nat
    /\ call.op = "write" /\ fs_type # "exfat" => fil.fptr + call.n < Word
    /\ call.op = "read" => fil.fptr + call.n <= fil.objsize
    /\ call.op # "none" => fil.open

LEMMA Wrapped ==
    ASSUME NEW p \in Nat, p < Word, NEW n \in 0 .. Word - 1, ~Wraps(p, n) PROVE p + n < Word
<1>1. Word \in Nat \ {0}
  BY FileAssumption
<1>2. p % Word = p
  BY <1>1
<1>3. CASE p + n >= Word
  <2>1. (p + n) % Word = p + n - Word
    BY <1>1, <1>3
  <2> QED
    BY <1>1, <1>2, <2>1 DEF Wraps
<1> QED
  BY <1>1, <1>3

LEMMA Products == bcs \in Nat /\ \A n \in Nat : n * bcs \in Nat
  BY FileAssumption DEF bcs

LEMMA TargetFits ==
    ASSUME NEW f, Fits(f), NEW q, Len(q) \in Nat, NEW ofs \in Nat
    PROVE  Target(f, q, ofs) \in Nat /\ (fs_type # "exfat" => Target(f, q, ofs) < Word)
<1>1. Len(q) * bcs \in Nat
  BY Products
<1> DEFINE z == Len(q) * bcs
<1> HIDE DEF z
<1> QED
  BY <1>1, FileAssumption DEF Target, Min2, Fits, z

LEMMA SoughtFits ==
    ASSUME NEW f, Fits(f), NEW q, Len(q) \in Nat, NEW ofs \in Nat
    PROVE  LET g == Sought(f, q, ofs) IN Fits(g) /\ g.fptr <= g.objsize /\ g.open = f.open
<1> DEFINE p == Target(f, q, ofs)
           g == [f EXCEPT !.fptr = p, !.clust = ClusterOf(q, p), !.objsize = Max2(@, p),
                          !.modified = @ \/ p > f.objsize]
           h == [g EXCEPT !.dirty = FALSE, !.sect = SectorOf(q, p),
                          !.buf = WrittenBack(f, disk)[SectorOf(q, p)]]
<1>1. p \in Nat /\ (fs_type # "exfat" => p < Word)
  BY TargetFits
<1> HIDE DEF p
<1>2. Fits(g) /\ g.fptr <= g.objsize /\ g.open = f.open
  <2>1. Shape(g) /\ g.open = f.open /\ g.fptr = p /\ g.objsize = Max2(f.objsize, p)
    BY DEF Fits, Shape, Closed
  <2>2. Max2(f.objsize, p) \in {f.objsize, p} /\ p <= Max2(f.objsize, p)
    BY <1>1 DEF Max2, Fits
  <2> HIDE DEF g
  <2> QED
    BY <1>1, <2>1, <2>2 DEF Fits
<1>3. Fits(h) /\ h.fptr <= h.objsize /\ h.open = f.open
  BY <1>2 DEF Fits, Shape, Closed
<1>4. Sought(f, q, ofs) = IF Refill(g, q) THEN h ELSE g
  BY DEF Sought, p
<1> HIDE DEF g, h
<1> QED
  BY <1>2, <1>3, <1>4

LEMMA ChainLength == \A q \in Chains : Len(q) \in Nat
<1> SUFFICES ASSUME NEW q \in Chains PROVE Len(q) \in Nat
  OBVIOUS
<1>1. PICK n \in 0 .. NClusters : q \in [1 .. n -> Clusters]
  BY DEF Chains
<1>2. q \in Seq(Clusters)
  BY <1>1, FileAssumption
<1> QED
  BY <1>2

\* How many bytes a turn of the loops moves.
LEMMA WholeSectors ==
    ASSUME NEW n \in Nat, NEW k \in Nat, k <= n \div SS PROVE SS * k \in 0 .. n
<1>1. SS \in Nat \ {0}
  BY FileAssumption
<1>2. PICK d \in Nat : d = n \div SS /\ SS * d <= n
  BY <1>1
<1>3. SS * k <= SS * d
  BY <1>1, <1>2
<1>4. SS * k \in Nat /\ SS * d \in Nat
  BY <1>1, <1>2
<1> QED
  BY <1>2, <1>3, <1>4
LEMMA DirectFits ==
    ASSUME NEW f, f.fptr \in Nat, NEW n \in Nat PROVE SS * Direct(f, n) \in 0 .. n
<1>1. csize \in Nat \ {0} /\ SS \in Nat \ {0}
  BY FileAssumption
<1>2. f.fptr \div SS \in Nat
  BY <1>1
<1>3. csize - ((f.fptr \div SS) % csize) \in Nat
  BY <1>1, <1>2
<1>4. n \div SS \in Nat
  BY <1>1
<1>5. Direct(f, n) \in Nat /\ Direct(f, n) <= n \div SS
  BY <1>3, <1>4 DEF Direct, Min2
<1> QED
  BY <1>5, WholeSectors
LEMMA PartFits ==
    ASSUME NEW p \in Nat, NEW n \in Nat PROVE Min2(SS - (p % SS), n) \in 0 .. n
<1>1. SS - (p % SS) \in Nat
  BY FileAssumption
<1> QED
  BY <1>1 DEF Min2

\* The three that begin with f_lseek.
LEMMA SeekFits ==
    ASSUME FitInv, NEW q \in Chains, NEW ofs \in Nat
    PROVE  LET f == Sought(fil, q, ofs) IN
           /\ Shape(f) /\ f.open = fil.open
           /\ f.fptr \in Nat /\ f.objsize \in Nat /\ f.fptr <= f.objsize
           /\ fs_type # "exfat" => f.fptr < Word /\ f.objsize < Word
  BY SoughtFits, ChainLength DEF FitInv, Fits

LEMMA FitStep == FitInv /\ [Next]_vars => FitInv'
<1> SUFFICES ASSUME FitInv, [Next]_vars PROVE FitInv'
  OBVIOUS
<1>a. Fits(Closed)
  BY FileAssumption DEF Fits, Shape, Closed
<1>b. UNCHANGED fs_type => \A f : Fits(f)' <=> Fits(f)
  BY DEF Fits
<1>c. /\ Shape(fil) /\ fil.fptr \in Nat /\ fil.objsize \in Nat /\ size \in Nat /\ call.n \in Nat
      /\ fs_type # "exfat" => fil.fptr < Word /\ fil.objsize < Word /\ size < Word
      /\ Word \in Nat \ {0} /\ SS \in Nat \ {0}
  BY FileAssumption DEF FitInv, Fits
<1>1. ASSUME NEW m \in Modes, NEW append \in BOOLEAN, Open(m, append) PROVE FitInv'
  <2> DEFINE f == [Closed EXCEPT !.open = TRUE, !.read = m[1], !.write = m[2], !.objsize = size]
  <2>1. f.objsize = size /\ f.fptr = 0 /\ Shape(f)
    BY DEF Shape, Closed
  <2>2. fil' = f \/ fil' = Appending(f, chain)
    BY <1>1 DEF Open
  <2>3. UNCHANGED <<fs_type, size, call>> /\ call.op = "none"
    BY <1>1 DEF Open, FitInv
  <2> HIDE DEF f
  <2>4. Fits(f)
    BY <1>c, <2>1 DEF Fits
  <2>5. Fits(Appending(f, chain))
    BY <2>4 DEF Appending, Fits, Shape, Closed
  <2>6. Fits(fil')
    BY <2>2, <2>4, <2>5
  <2> QED
    BY <1>b, <2>3, <2>6 DEF FitInv, Fits
<1>2. CASE Close
  BY <1>2, <1>a, <1>b DEF Close, FitInv, Fits
<1>3. ASSUME NEW q \in Chains, NEW ofs \in Offsets, NEW n \in Lengths, ReadImpl(q, ofs, n) PROVE FitInv'
  <2>1. PICK f : f = Sought(fil, q, ofs)
    OBVIOUS
  <2>2. ofs \in Nat /\ n \in Nat
    BY FileAssumption
  <2>3. /\ fil' = f /\ fil.open /\ UNCHANGED <<fs_type, size>>
        /\ call' = [op |-> "read", n |-> Min2(n, f.objsize - f.fptr)] \/ call' = Idle
    BY <1>3, <2>1 DEF ReadImpl, Begin
  <2>4. /\ Shape(f) /\ f.open = fil.open
        /\ f.fptr \in Nat /\ f.objsize \in Nat /\ f.fptr <= f.objsize
        /\ fs_type # "exfat" => f.fptr < Word /\ f.objsize < Word
    BY <2>1, <2>2, SeekFits
  <2>5. /\ call' = [op |-> call'.op, n |-> call'.n] /\ call'.n \in Nat /\ call'.op \in {"read", "none"}
        /\ call'.op = "read" => f.fptr + call'.n <= f.objsize
    BY <2>2, <2>3, <2>4 DEF Idle, Min2
  <2> QED
    BY <1>c, <2>3, <2>4, <2>5 DEF FitInv, Fits, Shape
<1>4. ASSUME NEW q \in Chains, NEW ofs \in Offsets, NEW n \in Lengths, WriteImpl(q, ofs, n) PROVE FitInv'
  <2>1. PICK f : f = Sought(fil, q, ofs)
    OBVIOUS
  <2>2. ofs \in Nat /\ n \in 0 .. Word - 1
    BY FileAssumption
  <2>3. /\ fil' = f /\ fil.open /\ UNCHANGED <<fs_type, size>>
        /\ call' = [op |-> "write", n |-> Writable(f.fptr, n)] \/ call' = Idle
    BY <1>4, <2>1 DEF WriteImpl, Begin
  <2>4. /\ Shape(f) /\ f.open = fil.open
        /\ f.fptr \in Nat /\ f.objsize \in Nat /\ f.fptr <= f.objsize
        /\ fs_type # "exfat" => f.fptr < Word /\ f.objsize < Word
    BY <2>1, <2>2, SeekFits
  <2>5. Writable(f.fptr, n) \in Nat /\ (fs_type # "exfat" => f.fptr + Writable(f.fptr, n) < Word)
    BY <1>c, <2>2, <2>4, Wrapped DEF Writable
  <2>6. /\ call' = [op |-> call'.op, n |-> call'.n] /\ call'.n \in Nat /\ call'.op \in {"write", "none"}
        /\ call'.op = "write" /\ fs_type # "exfat" => f.fptr + call'.n < Word
    BY <2>3, <2>5 DEF Idle
  <2> QED
    BY <1>c, <2>3, <2>4, <2>6 DEF FitInv, Fits, Shape
<1>5. ASSUME NEW q \in Chains, NEW n \in Offsets, SetSizeImpl(q, n) PROVE FitInv'
  <2>1. PICK f : f = Sought(fil, q, n)
    OBVIOUS
  <2>2. /\ fil' = f \/ fil' = [Clean(f) EXCEPT !.objsize = f.fptr, !.modified = TRUE]
        /\ fil.open /\ call.op = "none" /\ UNCHANGED <<fs_type, size, call>>
    BY <1>5, <2>1 DEF SetSizeImpl, Begin
  <2>3. /\ Shape(f) /\ f.fptr \in Nat /\ f.objsize \in Nat
        /\ fs_type # "exfat" => f.fptr < Word /\ f.objsize < Word
    BY <2>1, SeekFits, FileAssumption
  <2>4. Fits(fil')
    BY <2>2, <2>3 DEF Fits, Clean, Shape, Closed
  <2> QED
    BY <1>b, <2>2, <2>4 DEF FitInv, Fits
<1>6. CASE ReadTurn
  <2> DEFINE Moves(n, g) == /\ fil' = [g EXCEPT !.fptr = @ + n] /\ Shape(g)
                            /\ g.fptr = fil.fptr /\ g.objsize = fil.objsize /\ g.open = fil.open
                            /\ call' = [call EXCEPT !.n = @ - n]
  <2>a. \E n \in 0 .. call.n : \E g : Moves(n, g)
    <3> DEFINE f == IF Entering(fil) THEN [fil EXCEPT !.clust = NextCluster(fil)] ELSE fil
               s == AtPointer(f)
               whole == f.fptr % SS = 0 /\ call.n >= SS
               load == f.fptr % SS = 0 /\ ~whole /\ f.sect # s
               g == IF load THEN [f EXCEPT !.dirty = FALSE, !.sect = s, !.buf = WrittenBack(f, disk)[s]] ELSE f
               n == IF whole THEN SS * Direct(f, call.n) ELSE Min2(SS - (f.fptr % SS), call.n)
    <3>1. fil' = [g EXCEPT !.fptr = @ + n] /\ call' = [call EXCEPT !.n = @ - n]
      BY <1>6 DEF ReadTurn
    <3>2. Shape(f) /\ f.fptr = fil.fptr /\ f.objsize = fil.objsize /\ f.open = fil.open
      BY <1>c DEF Shape, Closed
    <3> HIDE DEF f, s, whole, load
    <3>3. Shape(g) /\ g.fptr = fil.fptr /\ g.objsize = fil.objsize /\ g.open = fil.open
      BY <3>2 DEF Shape, Closed
    <3>4. n \in 0 .. call.n
      BY <1>c, <3>2, DirectFits, PartFits
    <3> HIDE DEF g, n
    <3> QED
      BY <3>1, <3>3, <3>4
  <2>b. PICK n \in 0 .. call.n : \E g : Moves(n, g)
    BY <2>a
  <2>1. PICK g : Moves(n, g)
    BY <2>b
  <2>2. call.op = "read" /\ UNCHANGED <<fs_type, size>>
    BY <1>6 DEF ReadTurn
  <2>3. call' = [op |-> "read", n |-> call.n - n]
    BY <2>1, <2>2 DEF FitInv
  <2>4. Shape(fil') /\ fil'.fptr = fil.fptr + n /\ fil'.objsize = fil.objsize /\ fil'.open = fil.open
    BY <2>1 DEF Shape, Closed
  <2>5. fil.fptr + call.n <= fil.objsize /\ fil.open
    BY <2>2 DEF FitInv
  <2> QED
    BY <1>c, <2>1, <2>2, <2>3, <2>4, <2>5 DEF FitInv, Fits, Shape
<1>7. CASE ReadEnd
  BY <1>7, <1>b DEF ReadEnd, FitInv, Fits, Idle
<1>8. ASSUME NEW q \in Chains, WriteTurn(q) PROVE FitInv'
  <2> DEFINE Moves(n, g) == /\ fil' = [g EXCEPT !.fptr = @ + n, !.objsize = Max2(@, fil.fptr + n)]
                            /\ Shape(g) /\ g.fptr = fil.fptr /\ g.objsize = fil.objsize /\ g.open = fil.open
                            /\ call' = [call EXCEPT !.n = @ - n]
  <2>a. \E n \in 0 .. call.n : \E g : Moves(n, g)
    <3> DEFINE c == Here(fil, q)
               k == (fil.fptr \div SS) % csize
               s == <<c, k>>
               onSector == fil.fptr % SS = 0
               whole == onSector /\ call.n >= SS
               cc == Direct(fil, call.n)
               n == IF whole THEN SS * cc ELSE Min2(SS - (fil.fptr % SS), call.n)
               back == IF onSector THEN WrittenBack(fil, disk) ELSE disk
               f == [fil EXCEPT !.clust = c, !.dirty = @ /\ ~onSector]
               buf == [b \in Bytes |->
                          IF b \in f.fptr % SS .. (f.fptr % SS) + n - 1 THEN calls
                          ELSE IF onSector /\ Filled(f, s) THEN back[s][b] ELSE f.buf[b]]
               g == IF whole THEN OvertakenBuffer(f, c, k, cc)
                    ELSE [f EXCEPT !.sect = IF onSector THEN s ELSE @, !.dirty = TRUE, !.buf = buf]
    <3>1. /\ fil' = [g EXCEPT !.fptr = @ + n, !.objsize = Max2(@, fil.fptr + n)]
          /\ call' = [call EXCEPT !.n = @ - n]
      BY <1>8 DEF WriteTurn
    <3>2. Shape(f) /\ f.fptr = fil.fptr /\ f.objsize = fil.objsize /\ f.open = fil.open
      BY <1>c DEF Shape, Closed
    <3>3. n \in 0 .. call.n
      BY <1>c, DirectFits, PartFits
    <3> HIDE DEF f, s, whole, onSector, c, k, cc, n, back, buf
    <3>4. Shape(g) /\ g.fptr = fil.fptr /\ g.objsize = fil.objsize /\ g.open = fil.open
      BY <3>2 DEF Shape, Closed, OvertakenBuffer
    <3> HIDE DEF g
    <3> QED
      BY <3>1, <3>3, <3>4
  <2>b. PICK n \in 0 .. call.n : \E g : Moves(n, g)
    BY <2>a
  <2>1. PICK g : Moves(n, g)
    BY <2>b
  <2>2. call.op = "write" /\ UNCHANGED <<fs_type, size>>
    BY <1>8 DEF WriteTurn
  <2>3. call' = [op |-> "write", n |-> call.n - n]
    BY <2>1, <2>2 DEF FitInv
  <2>4. /\ Shape(fil') /\ fil'.fptr = fil.fptr + n /\ fil'.open = fil.open
        /\ fil'.objsize = Max2(fil.objsize, fil.fptr + n)
    BY <2>1 DEF Shape, Closed
  <2>5. fil.open /\ (fs_type # "exfat" => fil.fptr + call.n < Word)
    BY <2>2 DEF FitInv
  <2>6. fil.fptr \in Nat /\ fil.objsize \in Nat /\ call.n \in Nat /\ n \in Nat /\ n <= call.n /\ Word \in Nat
    BY <1>c, <2>1, FileAssumption DEF FitInv, Fits
  <2>7. /\ fil'.fptr \in Nat /\ fil'.objsize \in Nat /\ call'.n \in Nat
        /\ fil'.fptr <= fil'.objsize /\ fil'.fptr + call'.n = fil.fptr + call.n
    BY <2>3, <2>4, <2>6 DEF Max2
  <2>8. fs_type # "exfat" => fil'.objsize < Word /\ fil'.fptr < Word
    BY <1>c, <2>4, <2>5, <2>6 DEF Max2, FitInv, Fits
  <2>9. Fits(fil)'
    BY <2>2, <2>4, <2>7, <2>8 DEF Fits
  <2>10. /\ call'.n \in Nat /\ call'.op = "write" /\ fil'.open
         /\ fs_type # "exfat" => fil'.fptr + call'.n < Word
    BY <2>3, <2>4, <2>5, <2>7
  <2> QED
    BY <1>b, <2>2, <2>3, <2>9, <2>10 DEF FitInv
<1>9. CASE WriteEnd
  <2>1. fil' = [fil EXCEPT !.modified = TRUE] /\ call' = Idle /\ UNCHANGED <<fs_type, size>>
    BY <1>9 DEF WriteEnd
  <2>2. Fits(fil')
    BY <1>c, <2>1 DEF Fits, Shape, Closed
  <2> QED
    BY <1>b, <2>1, <2>2 DEF FitInv, Fits, Idle
<1>10. ASSUME NEW c \in Clusters, OthersTake(c) \/ OthersGive(c) PROVE FitInv'
  BY <1>10, <1>b DEF OthersTake, OthersGive, FitInv, Fits
<1>11. CASE UNCHANGED vars
  BY <1>11, <1>b DEF vars, FitInv, Fits
<1> QED
  BY <1>1, <1>2, <1>3, <1>4, <1>5, <1>6, <1>7, <1>8, <1>9, <1>10, <1>11 DEF Next

\* No call on a file of a FAT volume brings it to 4 GiB or more.
THEOREM SizesFit == Spec => []SizeFits
<1>1. Init => FitInv
  BY FileAssumption DEF Init, FitInv, Fits, Shape, Closed, Idle
<1>2. FitInv => SizeFits
  BY DEF FitInv, Fits, SizeFits
<1> QED
  BY <1>1, <1>2, FitStep, PTL DEF Spec
-----------------------------------------------------------------------------
(* The pointer in clusters, sectors and bytes *)

LEMMA Units == SS \in Nat /\ SS > 0 /\ csize \in Nat /\ csize > 0 /\ bcs \in Nat /\ bcs > 0
  BY FileAssumption DEF bcs

LEMMA PlaceUnique ==
    ASSUME NEW d \in Nat, NEW k \in 0 .. csize - 1, NEW x \in 0 .. SS - 1, NEW p \in Nat,
           p = bcs * d + (SS * k + x)
    PROVE  /\ p \div bcs = d /\ p % bcs = SS * k + x
           /\ p \div SS = csize * d + k /\ (p \div SS) % csize = k /\ p % SS = x
<1>1. SS * k + x \in Nat /\ SS * k + x < bcs
  <2>1. SS * k <= SS * (csize - 1) /\ SS * k \in Nat
    BY Units
  <2>2. SS * (csize - 1) = bcs - SS
    BY Units DEF bcs
  <2> QED
    BY Units, <2>1, <2>2
<1>2. p \div bcs = d /\ p % bcs = SS * k + x
  BY Units, <1>1, DivUnique
<1>3. p = SS * (csize * d + k) + x /\ csize * d + k \in Nat
  BY Units DEF bcs
<1>4. p \div SS = csize * d + k /\ p % SS = x
  BY Units, <1>3, DivUnique
<1>5. PICK a \in Nat : a = csize * d + k
  BY <1>3
<1>6. a \div csize = d /\ a % csize = k
  BY Units, <1>5, DivUnique
<1>7. p \div SS = a
  BY <1>4, <1>5, Zenon
<1>8. (p \div SS) % csize = k
  BY <1>6, <1>7, Zenon
<1> QED
  BY <1>2, <1>4, <1>8, Zenon

LEMMA Quotient ==
    ASSUME NEW p \in Nat, NEW b \in Nat, b > 0
    PROVE  \E d \in Nat, r \in Nat : r < b /\ p = b * d + r
<1>1. PICK d \in Nat, r \in Nat : d = p \div b /\ r = p % b /\ r < b /\ p = b * d + r
  BY DivMod
<1>2. r < b /\ p = b * d + r
  BY <1>1, Zenon
<1> QED
  BY <1>2
LEMMA Place ==
    ASSUME NEW p \in Nat
    PROVE  \E d \in Nat, k \in 0 .. csize - 1, x \in 0 .. SS - 1 : p = bcs * d + (SS * k + x)
<1>1. PICK a \in Nat, x \in Nat : x < SS /\ p = SS * a + x
  BY Units, Quotient
<1>2. PICK d \in Nat, k \in Nat : k < csize /\ a = csize * d + k
  BY Units, Quotient
<1>3. p = bcs * d + (SS * k + x)
  BY Units, <1>1, <1>2 DEF bcs
<1>4. k \in 0 .. csize - 1 /\ x \in 0 .. SS - 1
  BY Units, <1>1, <1>2
<1> QED
  BY <1>3, <1>4

\* What the model says of a file pointer at byte x of sector k of the cluster after the
\* first d.
At(p, d, k, x) == d \in Nat /\ k \in 0 .. csize - 1 /\ x \in 0 .. SS - 1 /\ p = bcs * d + (SS * k + x)

LEMMA Terms ==
    ASSUME NEW p \in Nat, NEW d, NEW k, NEW x, At(p, d, k, x), NEW q
    PROVE  /\ SectorOf(q, p) = <<q[d + 1], k>>
           /\ (p \div SS) % csize = k /\ p % SS = x
           /\ p % bcs = 0 <=> k = 0 /\ x = 0
           /\ p = 0 <=> d = 0 /\ k = 0 /\ x = 0
<1>1. d \in Nat /\ k \in 0 .. csize - 1 /\ x \in 0 .. SS - 1 /\ p = bcs * d + (SS * k + x)
  BY DEF At
<1>2. p \div bcs = d /\ p % bcs = SS * k + x /\ (p \div SS) % csize = k /\ p % SS = x
  BY <1>1, PlaceUnique
<1>3. SectorOf(q, p) = <<q[d + 1], k>>
  BY <1>2, Zenon DEF SectorOf
<1>4. SS * k + x = 0 <=> k = 0 /\ x = 0
  BY <1>1, Units
<1>5. bcs * d = 0 <=> d = 0
  BY <1>1, Units
<1>6. bcs * d \in Nat /\ SS * k + x \in Nat
  BY <1>1, Units
<1>7. p = 0 <=> d = 0 /\ k = 0 /\ x = 0
  BY <1>1, <1>4, <1>5, <1>6
<1> QED
  BY <1>2, <1>3, <1>4, <1>7, Zenon

LEMMA Pointed ==
    ASSUME NEW p \in Nat, NEW d, NEW k, NEW x, At(p, d, k, x), NEW q
    PROVE  ClusterOf(q, p) = IF p = 0 THEN 0 ELSE IF k = 0 /\ x = 0 THEN q[d] ELSE q[d + 1]
<1>1. d \in Nat /\ k \in 0 .. csize - 1 /\ x \in 0 .. SS - 1 /\ p = bcs * d + (SS * k + x)
  BY DEF At
<1>2. CASE p = 0
  BY <1>2 DEF ClusterOf
<1>3. CASE p # 0 /\ k = 0 /\ x = 0
  <2>1. d # 0
    BY <1>1, <1>3, Units
  <2>2. PICK e \in Nat : e = d - 1 /\ d = e + 1
    BY <1>1, <2>1
  <2>3. bcs * d = bcs * e + bcs
    BY <2>2, Units
  <2>4. bcs - 1 \in Nat /\ bcs - 1 < bcs /\ p - 1 = bcs * e + (bcs - 1) /\ p - 1 \in Nat
    BY <1>1, <1>3, <2>3, Units
  <2>5. (p - 1) \div bcs = e
    BY <2>2, <2>4, Units, DivUnique
  <2>6. ClusterOf(q, p) = q[e + 1]
    BY <1>3, <2>5, Zenon DEF ClusterOf
  <2> QED
    BY <1>3, <2>2, <2>6, Zenon
<1>4. CASE k # 0 \/ x # 0
  <2>1. SS * k + x # 0 /\ SS * k + x \in Nat /\ bcs * d \in Nat
    BY <1>1, <1>4, Units
  <2>2. SS * k + x < bcs
    <3>1. SS * k <= SS * (csize - 1) /\ SS * k \in Nat
      BY <1>1, Units
    <3>2. SS * (csize - 1) = bcs - SS
      BY Units DEF bcs
    <3> QED
      BY <1>1, Units, <3>1, <3>2
  <2>3. SS * k + x - 1 \in Nat /\ SS * k + x - 1 < bcs /\ p - 1 = bcs * d + (SS * k + x - 1) /\ p - 1 \in Nat /\ p # 0
    BY <1>1, <2>1, <2>2, Units
  <2>4. (p - 1) \div bcs = d
    BY <1>1, <2>3, Units, DivUnique
  <2>5. ClusterOf(q, p) = q[d + 1]
    BY <2>3, <2>4, Zenon DEF ClusterOf
  <2> QED
    BY <1>4, <2>3, <2>5, Zenon
<1> QED
  BY <1>2, <1>3, <1>4

Moved(f, m) == IF f.fptr % SS = 0 /\ m >= SS THEN SS * Direct(f, m) ELSE Min2(SS - (f.fptr % SS), m)

\* The pointer after a turn that moved n bytes: in the cluster it was in, or at its end.
Lands(p, d, k, x, m) ==
    \E e \in Nat, l \in Nat, y \in Nat :
        /\ At(p, e, l, y)
        /\ \/ e = d /\ (l # 0 \/ y # 0)
           \/ e = d + 1 /\ l = 0 /\ y = 0
        /\ y # 0 => l = k /\ ~(x = 0 /\ m >= SS)
LEMMA Turn ==
    ASSUME NEW f, f.fptr \in Nat, NEW d \in Nat, NEW k \in Nat, NEW x \in Nat, At(f.fptr, d, k, x),
           NEW m \in Nat \ {0}, NEW n \in Nat, n = Moved(f, m)
    PROVE  Lands(f.fptr + n, d, k, x, m)
<1> SUFFICES \E e \in Nat, l \in Nat, y \in Nat :
                /\ At(f.fptr + n, e, l, y)
                /\ \/ e = d /\ (l # 0 \/ y # 0)
                   \/ e = d + 1 /\ l = 0 /\ y = 0
                /\ y # 0 => l = k /\ ~(x = 0 /\ m >= SS)
  BY DEF Lands
<1> DEFINE p == f.fptr
<1>1. d \in Nat /\ k \in 0 .. csize - 1 /\ x \in 0 .. SS - 1 /\ p = bcs * d + (SS * k + x) /\ p \in Nat
  BY DEF At
<1>2. p % SS = x /\ (p \div SS) % csize = k
  BY Terms
<1>3. n = IF x = 0 /\ m >= SS THEN SS * Min2(m \div SS, csize - k) ELSE Min2(SS - x, m)
  BY <1>2, Zenon DEF Moved, Direct
<1> HIDE DEF p
<1>4. bcs = SS * csize
  BY Units DEF bcs
<1>5. ASSUME NEW j \in k + 1 .. csize, p + n = bcs * d + SS * j
      PROVE  \E e \in Nat, l \in Nat : At(p + n, e, l, 0) /\ ((e = d /\ l # 0) \/ (e = d + 1 /\ l = 0))
  <2>1. CASE j < csize
    <3>1. At(p + n, d, j, 0) /\ j # 0
      BY <1>1, <1>5, <2>1, Units DEF At
    <3> QED
      BY <3>1
  <2>2. CASE j = csize
    <3>1. p + n = bcs * (d + 1)
      BY <1>1, <1>4, <1>5, <2>2, Units
    <3>2. At(p + n, d + 1, 0, 0)
      BY <1>1, <3>1, Units DEF At
    <3> QED
      BY <3>2
  <2> QED
    BY <1>1, <2>1, <2>2, Units
<1>6. CASE x = 0 /\ m >= SS
  <2>1. PICK a \in Nat, r \in Nat : a = m \div SS /\ r = m % SS /\ r < SS /\ m = SS * a + r
    BY Units, DivMod
  <2>2. n = SS * Min2(a, csize - k)
    BY <1>3, <1>6, <2>1, Zenon
  <2>3. r < SS /\ m = SS * a + r
    BY <2>1, Zenon
  <2>4. a # 0
    BY <1>6, <2>3, Units
  <2>a. Min2(a, csize - k) \in 1 .. csize - k
    BY <1>1, <2>4, Units DEF Min2
  <2>5. PICK c \in 1 .. csize - k : c = Min2(a, csize - k)
    BY <2>a
  <2>6. n = SS * c
    BY <2>2, <2>5, Zenon
  <2>7. k + c \in k + 1 .. csize /\ p + n = bcs * d + SS * (k + c)
    BY <1>1, <1>6, <2>6, Units
  <2> QED
    BY <1>5, <1>6, <2>7 DEF p
<1>7. CASE ~(x = 0 /\ m >= SS)
  <2>1. n = Min2(SS - x, m)
    BY <1>3, <1>7, Zenon
  <2>2. n \in 1 .. SS - x
    BY <1>1, <2>1, Units DEF Min2
  <2>3. CASE x + n < SS
    <3>1. At(p + n, d, k, x + n) /\ x + n # 0
      BY <1>1, <2>2, <2>3, Units DEF At
    <3> QED
      BY <1>7, <3>1 DEF p
  <2>4. CASE x + n = SS
    <3>0. SS * (k + 1) = SS * k + SS /\ SS * k \in Nat /\ bcs * d \in Nat
      BY <1>1, Units
    <3>a. PICK a \in Nat, b \in Nat : a = SS * k /\ b = bcs * d
      BY <3>0
    <3>b. p = b + (a + x) /\ SS * (k + 1) = a + SS
      BY <1>1, <3>0, <3>a
    <3>c. p + n = b + (a + SS)
      <4>1. p = b + (a + x) /\ x \in Nat /\ n \in Nat
        BY <1>1, <2>2, <3>b, Units
      <4> QED
        BY <2>4, <4>1, Units
    <3>1. k + 1 \in k + 1 .. csize /\ p + n = bcs * d + SS * (k + 1)
      BY <1>1, <3>a, <3>b, <3>c, Units
    <3> QED
      BY <1>5, <1>7, <3>1 DEF p
  <2> QED
    BY <1>1, <2>2, <2>3, <2>4, Units
<1> QED
  BY <1>6, <1>7

-----------------------------------------------------------------------------
(* Where the FIL is in its chain *)

Owns(q, c) == \E i \in DOMAIN q : q[i] = c
OneToOne(q) == \A i, j \in DOMAIN q : q[i] = q[j] => i = j
Room(q) == Len(q) * bcs
Lies(f, q, d, k, x) ==
    /\ k = 0 /\ x = 0 => d = 0 \/ (d <= Len(q) /\ f.clust = q[d])
    /\ k # 0 \/ x # 0 => d < Len(q) /\ f.clust = q[d + 1]
    /\ x # 0 => f.sect = <<q[d + 1], k>>
Buffered(f, q) ==
    /\ f.sect \in Sectors \union {NoSector}
    /\ f.dirty => f.write /\ f.sect \in Sectors /\ Owns(q, f.sect[1])
Placed(f, q) ==
    /\ f.objsize \in 0 .. Room(q)
    /\ \E d, k, x : At(f.fptr, d, k, x) /\ Lies(f, q, d, k, x)
    /\ Buffered(f, q)
ChainInv ==
    /\ chain \in Chains /\ OneToOne(chain)
    /\ others \subseteq Clusters /\ \A i \in DOMAIN chain : chain[i] \notin others
    /\ DOMAIN disk = Sectors
PlaceInv ==
    /\ ChainInv
    /\ Placed(fil, chain)
    /\ (fil.open /\ fil.modified) \/ size <= Room(chain)
    /\ call.op = "write" => fil.write

LEMMA ChainFacts ==
    ASSUME NEW q \in Chains
    PROVE  /\ q \in Seq(Clusters) /\ Len(q) \in 0 .. NClusters /\ DOMAIN q = 1 .. Len(q)
           /\ \A i \in 1 .. Len(q) : q[i] \in Clusters
           /\ Room(q) \in Nat
<1>1. PICK n \in 0 .. NClusters : q \in [1 .. n -> Clusters]
  BY DEF Chains
<1>2. q \in Seq(Clusters) /\ Len(q) = n
  BY <1>1, FileAssumption
<1>3. Room(q) \in Nat
  BY <1>2, Units, FileAssumption DEF Room
<1> QED
  BY <1>1, <1>2, <1>3, FileAssumption

LEMMA Longer ==
    ASSUME NEW m \in Nat, NEW n \in Nat, m <= n PROVE m * bcs <= n * bcs
  BY Units
LEMMA Below ==
    ASSUME NEW m \in Nat, NEW n \in Nat, bcs * m < n * bcs PROVE m < n
<1>1. CASE n <= m
  <2>1. bcs * n <= bcs * m /\ bcs * n = n * bcs /\ bcs * m \in Nat /\ bcs * n \in Nat
    BY <1>1, Units
  <2> QED
    BY <2>1
<1> QED
  BY <1>1
LEMMA AtBounds ==
    ASSUME NEW p \in Nat, NEW d, NEW k, NEW x, At(p, d, k, x), NEW n \in Nat
    PROVE  /\ bcs * d <= p
           /\ k # 0 \/ x # 0 => bcs * d < p
           /\ p <= n * bcs => d <= n
           /\ p < n * bcs => d < n
           /\ p <= n * bcs /\ (k # 0 \/ x # 0) => d < n
<1>1. d \in Nat /\ k \in 0 .. csize - 1 /\ x \in 0 .. SS - 1 /\ p = bcs * d + (SS * k + x)
  BY DEF At
<1>2. bcs * d \in Nat /\ n * bcs \in Nat /\ SS * k + x \in Nat /\ (k # 0 \/ x # 0 => SS * k + x # 0)
  BY <1>1, Units
<1>3. bcs * d <= p /\ (k # 0 \/ x # 0 => bcs * d < p)
  BY <1>1, <1>2
<1>4. p < n * bcs => d < n
  BY <1>1, <1>2, <1>3, Below
<1>5. p <= n * bcs => d <= n
  <2>1. SUFFICES ASSUME p <= n * bcs PROVE d < n + 1
    BY <1>1
  <2>2. (n + 1) * bcs = n * bcs + bcs
    BY Units
  <2>3. bcs * d < (n + 1) * bcs
    BY <1>2, <1>3, <2>1, <2>2, Units
  <2> QED
    BY <1>1, <2>3, Below
<1>6. p <= n * bcs /\ (k # 0 \/ x # 0) => d < n
  BY <1>1, <1>2, <1>3, Below
<1> QED
  BY <1>3, <1>4, <1>5, <1>6

LEMMA Somewhere == \A p \in Nat : \E d, k, x : At(p, d, k, x)
<1> SUFFICES ASSUME NEW p \in Nat PROVE \E d, k, x : At(p, d, k, x)
  OBVIOUS
<1>1. PICK d \in Nat, k \in 0 .. csize - 1, x \in 0 .. SS - 1 : p = bcs * d + (SS * k + x)
  BY Place
<1>2. At(p, d, k, x)
  BY <1>1, Zenon DEF At
<1> QED
  BY <1>2

\* Writing the buffer back only touches the file's own clusters.
LEMMA Back ==
    ASSUME NEW f, NEW q, Buffered(f, q), NEW d, DOMAIN d = Sectors
    PROVE  /\ DOMAIN WrittenBack(f, d) = Sectors
           /\ \A s \in Sectors : ~Owns(q, s[1]) => WrittenBack(f, d)[s] = d[s]
<1>1. CASE ~f.dirty
  BY <1>1 DEF WrittenBack
<1>2. CASE f.dirty
  <2>1. WrittenBack(f, d) = [d EXCEPT ![f.sect] = f.buf] /\ f.sect \in Sectors /\ Owns(q, f.sect[1])
    BY <1>2 DEF WrittenBack, Buffered
  <2> QED
    BY <2>1
<1> QED
  BY <1>1, <1>2

-----------------------------------------------------------------------------
(* f_lseek *)

LEMMA GrowsFrom ==
    ASSUME ChainInv, NEW q \in Chains, NEW ofs, Stretched(q, ofs), NEW o \in Nat,
           o = IF fs_type # "exfat" /\ ofs >= Word THEN Word - 1 ELSE ofs
    PROVE  /\ Len(chain) <= Len(q) /\ \A i \in 1 .. Len(chain) : q[i] = chain[i]
           /\ OneToOne(q) /\ \A i \in DOMAIN q : q[i] \notin others
           /\ ~fil.write => q = chain
<1>0. chain \in Seq(Clusters) /\ Len(chain) \in Nat /\ DOMAIN chain = 1 .. Len(chain)
  BY ChainFacts DEF ChainInv
<1>q. q \in Seq(Clusters) /\ Len(q) \in Nat /\ DOMAIN q = 1 .. Len(q)
  BY ChainFacts
<1>1. CASE ~fil.write
  BY <1>0, <1>1 DEF Stretched, ChainInv
<1>2. CASE fil.write
  <2> DEFINE need == Max2(Len(chain), (o + bcs - 1) \div bcs)
             free == {c \in Clusters : IsFree(c)}
  <2>1. Len(q) = Min2(need, Len(chain) + Cardinality(free)) /\ SubSeq(q, 1, Len(chain)) = chain
        /\ (\A i \in Len(chain) + 1 .. Len(q) : IsFree(q[i])) /\ OneToOne(q)
    BY <1>2 DEF Stretched, OneToOne
  <2>2. Cardinality(free) \in Nat
    <3>1. IsFiniteSet(Clusters)
      BY FileAssumption, FS_Interval DEF Clusters
    <3> QED
      BY <3>1, FS_Subset, FS_CardinalityType
  <2>3. (o + bcs - 1) \div bcs \in Nat
    <3>1. PICK e \in Nat : e = o + bcs - 1
      BY Units
    <3> QED
      BY <3>1, Units, DivMod
  <2>4. need \in Nat /\ Len(chain) <= need
    BY <1>0, <2>3 DEF Max2
  <2> HIDE DEF need, free
  <2>5. Len(chain) <= Len(q)
    BY <1>0, <2>1, <2>2, <2>4 DEF Min2
  <2>6. \A i \in 1 .. Len(chain) : q[i] = chain[i]
    BY <1>0, <1>q, <2>1, <2>5
  <2>7. \A i \in DOMAIN q : q[i] \notin others
    BY <1>0, <1>q, <2>1, <2>6 DEF IsFree, ChainInv
  <2> QED
    BY <1>2, <2>1, <2>5, <2>6, <2>7
<1> QED
  BY <1>1, <1>2

LEMMA SoughtPlaced ==
    ASSUME FitInv, PlaceInv, NEW q \in Chains, NEW ofs \in Nat, Stretched(q, ofs),
           NEW f, f = Sought(fil, q, ofs)
    PROVE  /\ Placed(f, q) /\ f.fptr <= Room(q)
           /\ f.write = fil.write
           /\ f.dirty => fil.dirty /\ f.sect = fil.sect
           /\ fil.open /\ fil.modified => f.modified
<1> DEFINE o == IF fs_type # "exfat" /\ ofs >= Word THEN Word - 1 ELSE ofs
           p == Target(fil, q, ofs)
           g == [fil EXCEPT !.fptr = p, !.clust = ClusterOf(q, p), !.objsize = Max2(@, p),
                            !.modified = @ \/ p > fil.objsize]
           h == [g EXCEPT !.dirty = FALSE, !.sect = SectorOf(q, p),
                          !.buf = WrittenBack(fil, disk)[SectorOf(q, p)]]
<1>1. o \in Nat
  BY FileAssumption
<1>2. /\ Len(chain) <= Len(q) /\ \A i \in 1 .. Len(chain) : q[i] = chain[i]
      /\ ~fil.write => q = chain
  BY <1>1, GrowsFrom DEF PlaceInv
<1>3. Len(chain) \in Nat /\ Len(q) \in Nat /\ Room(chain) \in Nat /\ Room(q) \in Nat
      /\ DOMAIN chain = 1 .. Len(chain) /\ DOMAIN q = 1 .. Len(q) /\ \A i \in 1 .. Len(q) : q[i] \in Clusters
  BY ChainFacts DEF PlaceInv, ChainInv
<1>4. Room(chain) <= Room(q)
  BY <1>2, <1>3, Longer DEF Room
<1>5. fil.objsize \in 0 .. Room(chain) /\ Shape(fil)
  BY DEF PlaceInv, Placed, FitInv, Fits
<1>6. p = IF ~fil.write THEN Min2(o, fil.objsize) ELSE Min2(o, Room(q))
  BY DEF Target, Room
<1> HIDE DEF p, o
<1>7. p \in 0 .. Room(q)
  BY <1>1, <1>3, <1>4, <1>5, <1>6 DEF Min2
<1>8. PICK d, k, x : At(p, d, k, x)
  BY <1>7, Somewhere
<1>9. /\ SectorOf(q, p) = <<q[d + 1], k>> /\ p % SS = x /\ (p = 0 <=> d = 0 /\ k = 0 /\ x = 0)
      /\ ClusterOf(q, p) = IF p = 0 THEN 0 ELSE IF k = 0 /\ x = 0 THEN q[d] ELSE q[d + 1]
  BY <1>7, <1>8, Terms, Pointed
<1>10. d \in Nat /\ k \in 0 .. csize - 1 /\ d <= Len(q) /\ (k # 0 \/ x # 0 => d < Len(q))
  BY <1>3, <1>7, <1>8, AtBounds DEF Room, At
<1>11. f = IF Refill(g, q) THEN h ELSE g
  BY DEF Sought, p
<1>12. /\ Shape(g) /\ g.fptr = p /\ g.clust = ClusterOf(q, p) /\ g.objsize = Max2(fil.objsize, p)
       /\ g.dirty = fil.dirty /\ g.sect = fil.sect /\ g.write = fil.write
       /\ fil.open /\ fil.modified => g.modified
  BY <1>5 DEF Shape, Closed
<1> HIDE DEF g
<1>13. /\ h.fptr = p /\ h.clust = g.clust /\ h.objsize = g.objsize /\ h.write = g.write
       /\ h.dirty = FALSE /\ h.sect = SectorOf(q, p) /\ h.modified = g.modified
  BY <1>12 DEF Shape, Closed
<1> HIDE DEF h
<1>14. Refill(g, q) <=> x # 0 /\ g.sect # SectorOf(q, p)
  BY <1>9, <1>12, Zenon DEF Refill
<1>15. f.fptr = p /\ f.clust = ClusterOf(q, p) /\ f.objsize = Max2(fil.objsize, p) /\ f.write = fil.write
       /\ (fil.open /\ fil.modified => f.modified) /\ (x # 0 => f.sect = SectorOf(q, p))
  BY <1>11, <1>12, <1>13, <1>14, Zenon
<1>16. f.objsize \in 0 .. Room(q)
  BY <1>3, <1>4, <1>5, <1>7, <1>15 DEF Max2
<1>17. Lies(f, q, d, k, x)
  BY <1>9, <1>10, <1>15 DEF Lies
<1>18. Buffered(fil, chain)
  BY DEF PlaceInv, Placed
<1>19. Buffered(fil, q)
  BY <1>2, <1>3, <1>18 DEF Buffered, Owns
<1>20. CASE Refill(g, q)
  <2>1. x # 0 /\ f.sect = <<q[d + 1], k>> /\ f.dirty = FALSE
    BY <1>9, <1>11, <1>13, <1>14, <1>20, Zenon
  <2>2. d + 1 \in 1 .. Len(q)
    BY <1>3, <1>10, <2>1
  <2>3. f.sect \in Sectors
    BY <1>3, <1>10, <2>1, <2>2 DEF Sectors
  <2>4. Buffered(f, q)
    BY <2>1, <2>3 DEF Buffered
  <2> QED
    BY <1>3, <1>7, <1>8, <1>15, <1>16, <1>17, <2>1, <2>4 DEF Placed
<1>21. CASE ~Refill(g, q)
  <2>1. f.dirty = fil.dirty /\ f.sect = fil.sect
    BY <1>11, <1>12, <1>21, Zenon
  <2>2. Buffered(f, q)
    BY <1>15, <1>19, <2>1 DEF Buffered
  <2> QED
    BY <1>3, <1>7, <1>8, <1>15, <1>16, <1>17, <2>1, <2>2 DEF Placed
<1> QED
  BY <1>20, <1>21

-----------------------------------------------------------------------------
(* Every step keeps it, and leaves the others' sectors alone. *)

Gentle == \A s \in Sectors : s[1] \in others \intersect others' => disk'[s] = disk[s]

LEMMA Facts ==
    ASSUME FitInv, PlaceInv
    PROVE  /\ chain \in Chains /\ Len(chain) \in Nat /\ DOMAIN chain = 1 .. Len(chain) /\ Room(chain) \in Nat
           /\ \A i \in 1 .. Len(chain) : chain[i] \in Clusters /\ chain[i] \notin others
           /\ Buffered(fil, chain) /\ DOMAIN disk = Sectors
           /\ Shape(fil) /\ fil.fptr \in Nat /\ fil.objsize \in 0 .. Room(chain) /\ size \in Nat
           /\ \A c \in others : ~Owns(chain, c)
  BY ChainFacts DEF PlaceInv, ChainInv, Placed, FitInv, Fits, Owns

LEMMA SeekStep ==
    ASSUME FitInv, PlaceInv, NEW q \in Chains, NEW ofs \in Nat, Seek(q, ofs), fil' = Sought(fil, q, ofs),
           fil.open, UNCHANGED <<others, size>>, call'.op = "write" => fil.write
    PROVE  PlaceInv' /\ Gentle
<1>0. PICK f : f = Sought(fil, q, ofs)
  OBVIOUS
<1>1. Stretched(q, ofs) /\ chain' = q /\ fil' = f
      /\ (disk' = disk \/ disk' = WrittenBack(fil, disk))
  BY <1>0 DEF Seek
<1>2. /\ Placed(f, q) /\ f.write = fil.write /\ f.open = fil.open
      /\ fil.open /\ fil.modified => f.modified
  BY <1>0, <1>1, SoughtPlaced, SeekFits
<1>3. PICK o \in Nat : o = IF fs_type # "exfat" /\ ofs >= Word THEN Word - 1 ELSE ofs
  BY FileAssumption
<1>4. Len(chain) <= Len(q) /\ OneToOne(q) /\ \A i \in DOMAIN q : q[i] \notin others
  BY <1>1, <1>3, GrowsFrom DEF PlaceInv
<1>5. Room(chain) <= Room(q)
  BY <1>4, Facts, ChainFacts, Longer DEF Room
<1>6. DOMAIN disk' = Sectors /\ Gentle
  BY <1>1, Facts, Back DEF Gentle
<1>7. ChainInv'
  BY <1>1, <1>4, <1>6 DEF ChainInv, PlaceInv
<1>8. (fil'.open /\ fil'.modified) \/ size' <= Room(q)
  BY <1>1, <1>2, <1>5, Facts, ChainFacts DEF PlaceInv
<1> QED
  BY <1>1, <1>2, <1>6, <1>7, <1>8 DEF PlaceInv

LEMMA OpenStep ==
    ASSUME FitInv, PlaceInv, NEW m \in Modes, NEW append \in BOOLEAN, Open(m, append)
    PROVE  PlaceInv' /\ Gentle
<1> DEFINE f == [Closed EXCEPT !.open = TRUE, !.read = m[1], !.write = m[2], !.objsize = size]
           p == f.objsize
           g == [f EXCEPT !.fptr = p, !.clust = ClusterOf(chain, p)]
           h == [g EXCEPT !.sect = SectorOf(chain, p), !.buf = disk[SectorOf(chain, p)]]
<1>1. f.objsize = size /\ f.fptr = 0 /\ f.dirty = FALSE /\ f.sect = NoSector /\ Shape(f)
  BY DEF Closed, Shape
<1>2. UNCHANGED <<others, chain, size, disk, call>> /\ ~fil.open /\ call.op = "none"
  BY DEF Open, FitInv
<1>3. size \in 0 .. Room(chain)
  BY <1>2, Facts DEF PlaceInv
<1>4. fil' = f \/ (p # 0 /\ fil' = g /\ p % SS = 0) \/ (p # 0 /\ fil' = h /\ p % SS # 0)
  BY DEF Open, Appending
<1> HIDE DEF f
<1>5. /\ g.fptr = p /\ g.clust = ClusterOf(chain, p) /\ g.objsize = p /\ g.dirty = FALSE /\ g.sect = NoSector
      /\ h.fptr = p /\ h.clust = ClusterOf(chain, p) /\ h.objsize = p /\ h.dirty = FALSE
      /\ h.sect = SectorOf(chain, p)
  BY <1>1 DEF Shape, Closed
<1>6. p = size
  BY <1>1
<1> HIDE DEF p, g, h
<1>7. Placed(f, chain)
  <2>1. At(0, 0, 0, 0)
    BY Units DEF At
  <2>2. Lies(f, chain, 0, 0, 0)
    BY DEF Lies
  <2>3. Buffered(f, chain)
    BY <1>1 DEF Buffered
  <2> QED
    BY <1>1, <1>3, <2>1, <2>2, <2>3 DEF Placed
<1>8. ASSUME p # 0, (fil' = g /\ p % SS = 0) \/ (fil' = h /\ p % SS # 0) PROVE Placed(fil', chain)
  <2>1. PICK d, k, x : At(p, d, k, x)
    BY <1>3, <1>6, Somewhere
  <2>2. /\ SectorOf(chain, p) = <<chain[d + 1], k>> /\ p % SS = x
        /\ ClusterOf(chain, p) = IF p = 0 THEN 0 ELSE IF k = 0 /\ x = 0 THEN chain[d] ELSE chain[d + 1]
    BY <1>3, <1>6, <2>1, Terms, Pointed
  <2>3. d \in Nat /\ k \in 0 .. csize - 1 /\ d <= Len(chain) /\ (k # 0 \/ x # 0 => d < Len(chain))
    BY <1>3, <1>6, <2>1, AtBounds, Facts DEF Room, At
  <2>4. fil'.fptr = p /\ fil'.clust = ClusterOf(chain, p) /\ fil'.objsize = p /\ fil'.dirty = FALSE
    BY <1>5, <1>8, Zenon
  <2>5. fil'.sect = IF x = 0 THEN NoSector ELSE <<chain[d + 1], k>>
    BY <1>5, <1>8, <2>2, Zenon
  <2>6. Lies(fil', chain, d, k, x)
    BY <1>8, <2>2, <2>3, <2>4, <2>5 DEF Lies
  <2>7. fil'.sect \in Sectors \union {NoSector}
    BY <2>3, <2>5, Facts DEF Sectors
  <2>8. Buffered(fil', chain)
    BY <2>4, <2>7 DEF Buffered
  <2> QED
    BY <1>3, <1>6, <2>1, <2>4, <2>6, <2>8 DEF Placed
<1>9. Placed(fil', chain)
  BY <1>4, <1>7, <1>8, Zenon
<1> QED
  BY <1>2, <1>3, <1>9 DEF PlaceInv, ChainInv, Gentle

LEMMA CloseStep == ASSUME FitInv, PlaceInv, Close PROVE PlaceInv' /\ Gentle
<1>1. /\ fil' = Closed /\ UNCHANGED <<others, chain, call>> /\ fil.open /\ call.op = "none"
      /\ disk' = disk \/ disk' = WrittenBack(fil, disk)
      /\ size' = IF fil.modified THEN fil.objsize ELSE size
  BY DEF Close, Synced
<1>2. DOMAIN disk' = Sectors /\ Gentle
  BY <1>1, Facts, Back DEF Gentle
<1>3. size' <= Room(chain)
  BY <1>1, Facts DEF PlaceInv
<1>4. Placed(Closed, chain)
  <2>1. At(0, 0, 0, 0) /\ Lies(Closed, chain, 0, 0, 0)
    BY Units DEF At, Lies
  <2> QED
    BY <2>1, Facts DEF Placed, Buffered, Closed
<1> QED
  BY <1>1, <1>2, <1>3, <1>4 DEF PlaceInv, ChainInv

\* SetSizeImpl cuts the chain after the cluster the new end is in.
LEMMA CutLength ==
    ASSUME NEW p \in Nat, NEW d, NEW k, NEW x, At(p, d, k, x)
    PROVE  (p + bcs - 1) \div bcs = IF k = 0 /\ x = 0 THEN d ELSE d + 1
<1>1. d \in Nat /\ k \in 0 .. csize - 1 /\ x \in 0 .. SS - 1 /\ p = bcs * d + (SS * k + x)
  BY DEF At
<1>2. PICK r \in Nat, b \in Nat : r = SS * k + x /\ b = bcs * d
  BY <1>1, Units
<1>3. r = 0 <=> k = 0 /\ x = 0
  BY <1>1, <1>2, Units
<1>4. r < bcs
  <2>1. SS * k <= SS * (csize - 1) /\ SS * k \in Nat
    BY <1>1, Units
  <2>2. SS * (csize - 1) = bcs - SS
    BY Units DEF bcs
  <2> QED
    BY <1>1, <1>2, Units, <2>1, <2>2
<1>5. p = b + r
  BY <1>1, <1>2
<1>6. PICK e \in Nat : e = p + bcs - 1
  BY Units
<1>7. CASE r = 0
  <2>1. bcs - 1 \in Nat /\ bcs - 1 < bcs /\ e = b + (bcs - 1)
    BY <1>5, <1>6, <1>7, Units
  <2>2. e = bcs * d + (bcs - 1)
    BY <1>2, <2>1
  <2>3. e \div bcs = d
    BY <1>1, <2>1, <2>2, Units, DivUnique
  <2> QED
    BY <1>3, <1>6, <1>7, <2>3, Zenon
<1>8. CASE r # 0
  <2>1. r - 1 \in Nat /\ r - 1 < bcs /\ e = b + bcs + (r - 1)
    BY <1>4, <1>5, <1>6, <1>8, Units
  <2>2. bcs * (d + 1) = b + bcs /\ d + 1 \in Nat
    BY <1>1, <1>2, Units
  <2>3. e = bcs * (d + 1) + (r - 1)
    BY <2>1, <2>2
  <2>a. PICK g \in Nat : g = d + 1
    BY <2>2
  <2>b. e = bcs * g + (r - 1)
    BY <2>3, <2>a
  <2>c. e \div bcs = g
    BY <2>1, <2>b, Units, DivUnique
  <2>4. e \div bcs = d + 1
    BY <2>a, <2>c, Zenon
  <2> QED
    BY <1>3, <1>6, <1>8, <2>4, Zenon
<1> QED
  BY <1>7, <1>8

LEMMA CutStep ==
    ASSUME FitInv, PlaceInv, NEW q \in Chains, NEW n \in Nat, Stretched(q, n), NEW f, f = Sought(fil, q, n),
           chain' = Cut(f, q), fil' = [Clean(f) EXCEPT !.objsize = f.fptr, !.modified = TRUE],
           fil.open, fil.write, UNCHANGED <<others, call>>,
           NEW d, DOMAIN d = Sectors, d = disk \/ d = WrittenBack(fil, disk), disk' = WrittenBack(f, d)
    PROVE  PlaceInv' /\ Gentle
<1>1. /\ Placed(f, q) /\ f.fptr <= Room(q) /\ f.write = fil.write
      /\ f.dirty => fil.dirty /\ f.sect = fil.sect
      /\ Shape(f) /\ f.open = fil.open /\ f.fptr \in Nat
  BY SoughtPlaced, SeekFits
<1>2. /\ Len(q) \in Nat /\ Len(q) <= NClusters /\ DOMAIN q = 1 .. Len(q) /\ q \in Seq(Clusters)
      /\ \A i \in 1 .. Len(q) : q[i] \in Clusters
  BY ChainFacts
<1>3. PICK o \in Nat : o = IF fs_type # "exfat" /\ n >= Word THEN Word - 1 ELSE n
  BY FileAssumption
<1>4. OneToOne(q) /\ \A i \in DOMAIN q : q[i] \notin others
  BY <1>3, GrowsFrom DEF PlaceInv
<1>5. PICK e, k, x : At(f.fptr, e, k, x) /\ Lies(f, q, e, k, x)
  BY <1>1 DEF Placed
<1>6. PICK m : m = (f.fptr + bcs - 1) \div bcs
  OBVIOUS
<1>7. m = IF k = 0 /\ x = 0 THEN e ELSE e + 1
  BY <1>1, <1>5, <1>6, CutLength
<1>8. e \in Nat /\ k \in 0 .. csize - 1 /\ x \in 0 .. SS - 1 /\ f.fptr = bcs * e + (SS * k + x)
  BY <1>5 DEF At
<1>9. m \in 0 .. Len(q)
  BY <1>2, <1>5, <1>7, <1>8 DEF Lies
<1>10. chain' = SubSeq(q, 1, m)
  BY <1>6 DEF Cut
<1>11. Len(chain') = m /\ DOMAIN chain' = 1 .. m /\ \A i \in 1 .. m : chain'[i] = q[i]
  BY <1>2, <1>9, <1>10
<1>12. chain' \in Chains
  <2>1. chain' \in [1 .. m -> Clusters]
    <3>1. SubSeq(q, 1, m) \in Seq(Clusters) /\ Len(SubSeq(q, 1, m)) = m
      BY <1>2, <1>9
    <3>2. SubSeq(q, 1, m) \in [1 .. Len(SubSeq(q, 1, m)) -> Clusters]
      BY <3>1, LenProperties
    <3> QED
      BY <1>10, <3>1, <3>2
  <2> QED
    BY <1>2, <1>9, <2>1, FileAssumption DEF Chains
<1>13. f.fptr <= Room(chain')
  <2>1. PICK b \in Nat, r \in Nat : b = bcs * e /\ r = SS * k + x
    BY <1>8, Units
  <2>2. r = 0 \/ ~(k = 0 /\ x = 0)
    BY <1>8, <2>1, Units
  <2>3. r < bcs
    <3>1. SS * k <= SS * (csize - 1) /\ SS * k \in Nat
      BY <1>8, Units
    <3>2. SS * (csize - 1) = bcs - SS
      BY Units DEF bcs
    <3> QED
      BY <1>8, <2>1, Units, <3>1, <3>2
  <2>4. e * bcs = b /\ (e + 1) * bcs = b + bcs
    BY <1>8, <2>1, Units
  <2>5. f.fptr = b + r
    BY <1>8, <2>1
  <2>6. Room(chain') = m * bcs
    BY <1>11 DEF Room
  <2>7. Room(chain') \in {b, b + bcs} /\ (r # 0 => Room(chain') = b + bcs)
    BY <1>7, <2>2, <2>4, <2>6
  <2> QED
    BY <2>3, <2>5, <2>7, Units
<1>14. /\ fil'.fptr = f.fptr /\ fil'.objsize = f.fptr /\ fil'.clust = f.clust /\ fil'.sect = f.sect
       /\ fil'.dirty = FALSE /\ fil'.open = f.open /\ fil'.modified = TRUE /\ fil'.write = f.write
  BY <1>1 DEF Clean, Shape, Closed
<1>15. Lies(fil', chain', e, k, x)
  BY <1>5, <1>7, <1>8, <1>9, <1>11, <1>14 DEF Lies
<1>16. Buffered(fil', chain')
  BY <1>1, <1>14 DEF Placed, Buffered
<1>17. Placed(fil', chain')
  BY <1>1, <1>5, <1>12, <1>13, <1>14, <1>15, <1>16, ChainFacts DEF Placed
<1>18. DOMAIN disk' = Sectors /\ Gentle
  <2>1. Buffered(fil, chain) /\ DOMAIN disk = Sectors
    BY Facts
  <2>2. Buffered(f, chain)
    BY <1>1, <2>1 DEF Placed, Buffered
  <2>3. \A s \in Sectors : ~Owns(chain, s[1]) => d[s] = disk[s]
    BY <2>1, Back
  <2>4. DOMAIN disk' = Sectors /\ \A s \in Sectors : ~Owns(chain, s[1]) => disk'[s] = d[s]
    BY <2>2, Back
  <2> QED
    BY <2>3, <2>4, Facts DEF Gentle
<1>19. ChainInv'
  <2>1. OneToOne(chain')
    BY <1>2, <1>4, <1>9, <1>11 DEF OneToOne
  <2>2. \A i \in DOMAIN chain' : chain'[i] \notin others
    BY <1>2, <1>4, <1>9, <1>11
  <2> QED
    BY <1>12, <1>18, <2>1, <2>2 DEF ChainInv, PlaceInv
<1> QED
  BY <1>1, <1>14, <1>17, <1>18, <1>19 DEF PlaceInv

LEMMA SetSizeStep ==
    ASSUME FitInv, PlaceInv, NEW q \in Chains, NEW n \in Offsets, SetSizeImpl(q, n) PROVE PlaceInv' /\ Gentle
<1>1. PICK f : f = Sought(fil, q, n)
  OBVIOUS
<1>2. n \in Nat /\ fil.open /\ UNCHANGED <<others, size, call>> /\ call.op = "none"
  BY FileAssumption DEF SetSizeImpl, Begin
<1>3. CASE n < fil.objsize /\ fil.write /\ f.fptr < f.objsize
  <2>1. PICK d : d \in {disk, WrittenBack(fil, disk)} /\ disk' = WrittenBack(f, d)
    BY <1>1, <1>3 DEF SetSizeImpl
  <2>2. Stretched(q, n) /\ chain' = Cut(f, q) /\ fil' = [Clean(f) EXCEPT !.objsize = f.fptr, !.modified = TRUE]
    BY <1>1, <1>3 DEF SetSizeImpl
  <2>3. DOMAIN d = Sectors
    BY <2>1, Facts, Back
  <2> QED
    BY <1>1, <1>2, <1>3, <2>1, <2>2, <2>3, CutStep
<1>4. CASE ~(n < fil.objsize /\ fil.write /\ f.fptr < f.objsize)
  <2>1. Seek(q, n) /\ fil' = f
    BY <1>1, <1>4 DEF SetSizeImpl
  <2> QED
    BY <1>1, <1>2, <2>1, SeekStep
<1> QED
  BY <1>3, <1>4

\* get_fat and the chain: what follows the cluster number d is number d + 1.
LEMMA Follows ==
    ASSUME NEW q \in Chains, OneToOne(q), NEW d \in 1 .. Len(q)
    PROVE  Following(q, q[d]) = IF d < Len(q) THEN q[d + 1] ELSE 0
<1>1. DOMAIN q = 1 .. Len(q)
  BY ChainFacts
<1> DEFINE i == CHOOSE j \in DOMAIN q : q[j] = q[d]
<1>2. i \in DOMAIN q /\ q[i] = q[d]
  BY <1>1
<1>3. Following(q, q[d]) = IF i < Len(q) THEN q[i + 1] ELSE 0
  BY DEF Following
<1> HIDE DEF i
<1>4. i = d
  BY <1>1, <1>2 DEF OneToOne
<1> QED
  BY <1>3, <1>4

\* A pointer into one of the clusters, or to the end of one.
LEMMA Inside ==
    ASSUME NEW q \in Chains, NEW p \in Nat, NEW e \in Nat, NEW l \in Nat, NEW y \in Nat, At(p, e, l, y),
           l = 0 /\ y = 0 => e <= Len(q), l # 0 \/ y # 0 => e < Len(q)
    PROVE  p \in 0 .. Room(q)
<1>1. /\ l \in 0 .. csize - 1 /\ y \in 0 .. SS - 1 /\ p = bcs * e + (SS * l + y) /\ Len(q) \in Nat
      /\ (l = 0 /\ y = 0 => e <= Len(q)) /\ (l # 0 \/ y # 0 => e < Len(q))
  BY ChainFacts DEF At
<1>2. bcs * e \in Nat /\ SS * l + y \in Nat
  BY Units
<1>3. PICK b \in Nat, r \in Nat : b = bcs * e /\ r = SS * l + y
  BY <1>2
<1>4. r < bcs
  <2>1. SS * l <= SS * (csize - 1) /\ SS * l \in Nat
    BY <1>1, Units
  <2>2. SS * (csize - 1) = bcs - SS
    BY Units DEF bcs
  <2> QED
    BY <1>1, <1>3, Units, <2>1, <2>2
<1>5. CASE l = 0 /\ y = 0
  <2>1. r = 0 /\ e <= Len(q)
    BY <1>1, <1>3, <1>5, Units
  <2>2. e * bcs <= Len(q) * bcs
    BY <1>1, <2>1, Longer
  <2>3. e * bcs = b
    BY <1>1, <1>3, Units
  <2>4. p = b
    BY <1>1, <1>3, <2>1
  <2> QED
    BY <2>2, <2>3, <2>4, ChainFacts DEF Room
<1>6. CASE l # 0 \/ y # 0
  <2>1. e + 1 <= Len(q) /\ e + 1 \in Nat
    BY <1>1, <1>6
  <2>2. (e + 1) * bcs <= Len(q) * bcs
    BY <1>1, <2>1, Longer
  <2>3. (e + 1) * bcs <= Len(q) * bcs /\ (e + 1) * bcs = b + bcs
    BY <1>1, <1>3, <2>2, Units
  <2>4. b + r < Room(q)
    BY <1>4, <2>3, ChainFacts, Units DEF Room
  <2>5. p = b + r
    BY <1>1, <1>3
  <2> QED
    BY <2>4, <2>5, ChainFacts
<1> QED
  BY <1>5, <1>6

\* The FIL after a turn in the cluster number d + 1.
LEMMA Landed ==
    ASSUME NEW q \in Chains, NEW d \in Nat, d < Len(q), NEW k \in Nat, NEW g, g.clust = q[d + 1],
           NEW e \in Nat, NEW l \in Nat, NEW y \in Nat, At(g.fptr, e, l, y),
           \/ e = d /\ (l # 0 \/ y # 0)
           \/ e = d + 1 /\ l = 0 /\ y = 0,
           y # 0 => l = k /\ g.sect = <<q[d + 1], k>>
    PROVE  (\E a, b, c : At(g.fptr, a, b, c) /\ Lies(g, q, a, b, c)) /\ g.fptr \in 0 .. Room(q)
<1>1. \/ e = d /\ (l # 0 \/ y # 0)
      \/ e = d + 1 /\ l = 0 /\ y = 0
  OBVIOUS
<1>2. d \in Nat /\ e \in Nat /\ l \in 0 .. csize - 1 /\ y \in 0 .. SS - 1 /\ g.fptr = bcs * e + (SS * l + y)
  BY <1>1 DEF At
<1>3. Len(q) \in Nat
  BY ChainFacts
<1>4. Lies(g, q, e, l, y)
  BY <1>1, <1>2, <1>3 DEF Lies
<1>5. g.fptr \in 0 .. Room(q)
  <2>1. g.fptr \in Nat
    BY <1>2, Units
  <2>2. (l = 0 /\ y = 0 => e <= Len(q)) /\ (l # 0 \/ y # 0 => e < Len(q))
    BY <1>1, <1>2, <1>3
  <2> QED
    BY <2>1, <2>2, Inside
<1> QED
  BY <1>4, <1>5

\* f_read stands before the end of the chain, and finds the cluster it is to read from.
LEMMA ReadWhere ==
    ASSUME FitInv, PlaceInv, call.op = "read", call.n > 0
    PROVE  \E d \in Nat, k \in 0 .. csize - 1, x \in 0 .. SS - 1 :
              /\ At(fil.fptr, d, k, x) /\ Lies(fil, chain, d, k, x) /\ d < Len(chain)
              /\ (IF Entering(fil) THEN NextCluster(fil) ELSE fil.clust) = chain[d + 1]
<1>1. /\ chain \in Chains /\ Len(chain) \in Nat /\ OneToOne(chain)
      /\ Shape(fil) /\ fil.fptr \in Nat /\ fil.objsize \in 0 .. Room(chain)
      /\ Room(chain) \in Nat /\ fil.fptr + call.n <= fil.objsize /\ call.n \in Nat
  BY Facts DEF PlaceInv, ChainInv, FitInv
<1>2. PICK d, k, x : At(fil.fptr, d, k, x) /\ Lies(fil, chain, d, k, x)
  BY DEF PlaceInv, Placed
<1>3. /\ fil.fptr % bcs = 0 <=> k = 0 /\ x = 0
      /\ fil.fptr = 0 <=> d = 0 /\ k = 0 /\ x = 0
  BY <1>1, <1>2, Terms
<1>4. d < Len(chain)
  <2>1. fil.fptr < Len(chain) * bcs
    BY <1>1 DEF Room
  <2> QED
    BY <1>1, <1>2, <2>1, AtBounds
<1>5. d \in Nat /\ k \in 0 .. csize - 1 /\ x \in 0 .. SS - 1
  BY <1>2 DEF At
<1>6. CASE ~Entering(fil)
  <2>1. fil.clust = chain[d + 1]
    BY <1>2, <1>3, <1>6, Zenon DEF Entering, Lies
  <2> QED
    BY <1>2, <1>4, <1>5, <1>6, <2>1
<1>7. CASE Entering(fil)
  <2>1. k = 0 /\ x = 0
    BY <1>3, <1>7, Zenon DEF Entering
  <2>2. NextCluster(fil) = chain[d + 1]
    <3>1. CASE d = 0
      <4>1. fil.fptr = 0 /\ chain # <<>>
        BY <1>1, <1>3, <1>4, <2>1, <3>1
      <4> QED
        BY <3>1, <4>1 DEF NextCluster
    <3>2. CASE d # 0
      <4>1. fil.clust = chain[d] /\ d \in 1 .. Len(chain) /\ fil.fptr # 0
        BY <1>1, <1>2, <1>3, <1>4, <1>5, <2>1, <3>2 DEF Lies
      <4> QED
        BY <1>1, <1>4, <4>1, Follows DEF NextCluster
    <3> QED
      BY <3>1, <3>2
  <2> QED
    BY <1>2, <1>4, <1>5, <1>7, <2>2
<1> QED
  BY <1>6, <1>7

LEMMA ReadStep == ASSUME FitInv, PlaceInv, ReadTurn PROVE PlaceInv' /\ Gentle
<1> DEFINE f == IF Entering(fil) THEN [fil EXCEPT !.clust = NextCluster(fil)] ELSE fil
           s == AtPointer(f)
           whole == f.fptr % SS = 0 /\ call.n >= SS
           load == f.fptr % SS = 0 /\ ~whole /\ f.sect # s
           h == [f EXCEPT !.dirty = FALSE, !.sect = s, !.buf = WrittenBack(f, disk)[s]]
           g == IF load THEN h ELSE f
           n == IF whole THEN SS * Direct(f, call.n) ELSE Min2(SS - (f.fptr % SS), call.n)
<1>1. /\ fil' = [g EXCEPT !.fptr = @ + n] /\ call.op = "read" /\ call.n > 0
      /\ call' = [call EXCEPT !.n = @ - n] /\ UNCHANGED <<others, chain, size>>
      /\ disk' = IF load THEN WrittenBack(f, disk) ELSE disk
  BY DEF ReadTurn
<1>2. /\ chain \in Chains /\ Len(chain) \in Nat /\ DOMAIN chain = 1 .. Len(chain) /\ Room(chain) \in Nat
      /\ \A i \in 1 .. Len(chain) : chain[i] \in Clusters
      /\ Buffered(fil, chain) /\ Shape(fil) /\ fil.fptr \in Nat /\ fil.objsize \in 0 .. Room(chain)
      /\ OneToOne(chain)
  BY Facts DEF PlaceInv, ChainInv
<1>3. fil.fptr + call.n <= fil.objsize /\ call.n \in Nat \ {0} /\ call = [op |-> call.op, n |-> call.n]
  BY <1>1 DEF FitInv
<1>4. PICK d \in Nat, k \in 0 .. csize - 1, x \in 0 .. SS - 1 :
              /\ At(fil.fptr, d, k, x) /\ Lies(fil, chain, d, k, x) /\ d < Len(chain)
              /\ (IF Entering(fil) THEN NextCluster(fil) ELSE fil.clust) = chain[d + 1]
  BY <1>1, ReadWhere
<1>5. fil.fptr % SS = x /\ (fil.fptr \div SS) % csize = k
  BY <1>2, <1>4, Terms
<1>6. d < Len(chain) /\ d \in Nat /\ k \in 0 .. csize - 1 /\ x \in Nat
  BY <1>4, Units
<1>7. f.clust = chain[d + 1]
  BY <1>2, <1>4 DEF Shape, Closed
<1>8. /\ Shape(f) /\ f.fptr = fil.fptr /\ f.objsize = fil.objsize /\ f.open = fil.open /\ f.write = fil.write
      /\ f.modified = fil.modified /\ f.dirty = fil.dirty /\ f.sect = fil.sect
  BY <1>2 DEF Shape, Closed
<1>9. s = <<chain[d + 1], k>>
  BY <1>5, <1>7, <1>8, Zenon DEF AtPointer
<1> HIDE DEF f
<1>10. /\ h.fptr = f.fptr /\ h.objsize = f.objsize /\ h.open = f.open /\ h.write = f.write /\ Shape(h)
       /\ h.modified = f.modified /\ h.dirty = FALSE /\ h.sect = s /\ h.clust = f.clust
  BY <1>8 DEF Shape, Closed
<1>11. (whole <=> x = 0 /\ call.n >= SS) /\ (load <=> x = 0 /\ ~(call.n >= SS) /\ f.sect # s)
  BY <1>5, <1>8, Zenon
<1>12. n = Moved(f, call.n)
  BY Zenon DEF Moved
<1> HIDE DEF s, h, whole, load, n
<1>13. /\ g.fptr = f.fptr /\ g.objsize = f.objsize /\ g.open = f.open /\ g.write = f.write /\ Shape(g)
       /\ g.modified = f.modified /\ g.clust = f.clust
       /\ (g.dirty = FALSE /\ g.sect = s) \/ (g.dirty = f.dirty /\ g.sect = f.sect)
  BY <1>8, <1>10
<1>14. ~(x = 0 /\ call.n >= SS) => g.sect = <<chain[d + 1], k>>
  <2>1. x # 0 => f.sect = <<chain[d + 1], k>>
    BY <1>4, <1>8 DEF Lies
  <2>2. x # 0 => g = f
    BY <1>11
  <2>3. x = 0 /\ ~(call.n >= SS) => g.sect = s
    BY <1>10, <1>11
  <2> QED
    BY <1>9, <2>1, <2>2, <2>3, Zenon
<1> HIDE DEF g
<1>15. /\ fil'.fptr = f.fptr + n /\ fil'.objsize = fil.objsize /\ fil'.open = fil.open /\ fil'.write = fil.write
       /\ fil'.modified = fil.modified /\ fil'.clust = chain[d + 1] /\ fil'.sect = g.sect /\ fil'.dirty = g.dirty
  BY <1>1, <1>7, <1>8, <1>13 DEF Shape, Closed
<1>16. (\E e, l, y : At(fil'.fptr, e, l, y) /\ Lies(fil', chain, e, l, y)) /\ fil'.fptr \in 0 .. Room(chain)
  <2>1. /\ At(f.fptr, d, k, x) /\ f.fptr \in Nat /\ call.n \in Nat \ {0}
        /\ d \in Nat /\ k \in Nat /\ x \in Nat
    BY <1>2, <1>3, <1>4, <1>6, <1>8
  <2>2. n \in Nat
    BY <1>2, <1>3, <1>8, <1>12, DirectFits, PartFits DEF Moved
  <2>3. PICK e \in Nat, l \in Nat, y \in Nat :
              /\ At(f.fptr + n, e, l, y)
              /\ \/ e = d /\ (l # 0 \/ y # 0)
                 \/ e = d + 1 /\ l = 0 /\ y = 0
              /\ y # 0 => l = k /\ ~(x = 0 /\ call.n >= SS)
    <3>1. Lands(f.fptr + n, d, k, x, call.n)
      BY <1>12, <2>1, <2>2, Turn, Zenon
    <3> QED
      BY <3>1 DEF Lands
  <2>4. At(fil'.fptr, e, l, y) /\ fil'.clust = chain[d + 1] /\ (y # 0 => l = k /\ fil'.sect = <<chain[d + 1], k>>)
    BY <1>14, <1>15, <2>3, Zenon
  <2> QED
    BY <1>2, <1>6, <2>1, <2>3, <2>4, Landed
<1>17. Buffered(f, chain)
  BY <1>2, <1>8 DEF Buffered
<1>18. Buffered(fil', chain)
  <2>1. s \in Sectors
    BY <1>2, <1>6, <1>9 DEF Sectors
  <2> QED
    BY <1>8, <1>13, <1>15, <1>17, <2>1 DEF Buffered
<1>19. DOMAIN disk' = Sectors /\ Gentle
  BY <1>1, <1>17, Facts, Back DEF Gentle
<1>20. call'.op = "read"
  BY <1>1, <1>3
<1>21. ChainInv'
  BY <1>1, <1>19 DEF PlaceInv, ChainInv
<1>22. Placed(fil', chain)
  BY <1>2, <1>15, <1>16, <1>18 DEF Placed
<1>23. (fil'.open /\ fil'.modified) \/ size' <= Room(chain)
  BY <1>1, <1>8, <1>15 DEF PlaceInv
<1> QED
  BY <1>1, <1>19, <1>20, <1>21, <1>22, <1>23 DEF PlaceInv

LEMMA EnteredChain ==
    ASSUME FitInv, PlaceInv, NEW q \in Chains, Entered(fil, q)
    PROVE  /\ Len(chain) <= Len(q) /\ \A i \in 1 .. Len(chain) : q[i] = chain[i]
           /\ OneToOne(q) /\ \A i \in DOMAIN q : q[i] \notin others
           /\ ~Entering(fil) => q = chain
<1>1. /\ chain \in Seq(Clusters) /\ Len(chain) \in Nat /\ DOMAIN chain = 1 .. Len(chain) /\ OneToOne(chain)
      /\ \A i \in DOMAIN chain : chain[i] \notin others
  BY ChainFacts DEF PlaceInv, ChainInv
<1>2. CASE q = chain
  BY <1>1, <1>2
<1>3. ASSUME NEW c \in Clusters, IsFree(c), q = Append(chain, c), Entering(fil) PROVE
           /\ Len(chain) <= Len(q) /\ \A i \in 1 .. Len(chain) : q[i] = chain[i]
           /\ OneToOne(q) /\ \A i \in DOMAIN q : q[i] \notin others
  <2>1. /\ Len(q) = Len(chain) + 1 /\ DOMAIN q = 1 .. Len(chain) + 1 /\ q[Len(chain) + 1] = c
        /\ \A i \in 1 .. Len(chain) : q[i] = chain[i]
    BY <1>1, <1>3
  <2>2. c \notin others /\ \A i \in 1 .. Len(chain) : chain[i] # c
    BY <1>1, <1>3 DEF IsFree
  <2>3. OneToOne(q)
    BY <1>1, <2>1, <2>2 DEF OneToOne
  <2> QED
    BY <1>1, <2>1, <2>2, <2>3
<1>4. q = chain \/ (Entering(fil) /\ \E c \in Clusters : IsFree(c) /\ q = Append(chain, c))
  BY DEF Entered
<1> QED
  BY <1>2, <1>3, <1>4

\* f_write finds the cluster it is to write to, in the chain it may have stretched.
LEMMA WriteWhere ==
    ASSUME FitInv, PlaceInv, NEW q \in Chains, Entered(fil, q), Here(fil, q) # 0
    PROVE  \E d \in Nat, k \in 0 .. csize - 1, x \in 0 .. SS - 1 :
              At(fil.fptr, d, k, x) /\ Lies(fil, chain, d, k, x) /\ d < Len(q) /\ Here(fil, q) = q[d + 1]
<1>1. Len(chain) \in Nat /\ fil.fptr \in Nat
  BY Facts
<1>2. Len(q) \in Nat /\ DOMAIN q = 1 .. Len(q)
  BY ChainFacts
<1>3. /\ Len(chain) <= Len(q) /\ \A i \in 1 .. Len(chain) : q[i] = chain[i]
      /\ OneToOne(q) /\ (~Entering(fil) => q = chain)
  BY EnteredChain
<1>4. PICK d, k, x : At(fil.fptr, d, k, x) /\ Lies(fil, chain, d, k, x)
  BY DEF PlaceInv, Placed
<1>5. /\ fil.fptr % bcs = 0 <=> k = 0 /\ x = 0
      /\ fil.fptr = 0 <=> d = 0 /\ k = 0 /\ x = 0
  BY <1>1, <1>4, Terms
<1>6. d \in Nat /\ k \in 0 .. csize - 1 /\ x \in 0 .. SS - 1
  BY <1>4 DEF At
<1>7. d < Len(q) /\ Here(fil, q) = q[d + 1]
  <2>1. CASE ~Entering(fil)
    <3>1. ~(k = 0 /\ x = 0) /\ Here(fil, q) = fil.clust
      BY <1>5, <2>1, Zenon DEF Entering, Here
    <3> QED
      BY <1>3, <1>4, <1>6, <2>1, <3>1 DEF Lies
  <2>2. CASE Entering(fil)
    <3>1. k = 0 /\ x = 0
      BY <1>5, <2>2, Zenon DEF Entering
    <3>2. CASE d = 0
      <4>1. fil.fptr = 0
        BY <1>5, <3>1, <3>2
      <4>2. Here(fil, q) = IF q = <<>> THEN 0 ELSE q[1]
        BY <2>2, <4>1 DEF Here
      <4>3. q # <<>> /\ Here(fil, q) = q[1]
        BY <4>2
      <4>4. Len(q) # 0
        BY <1>2, <4>3, ChainFacts, EmptySeq
      <4> QED
        BY <1>2, <3>2, <4>3, <4>4
    <3>3. CASE d # 0
      <4>1. fil.clust = chain[d] /\ d \in 1 .. Len(chain) /\ fil.fptr # 0
        BY <1>1, <1>4, <1>5, <1>6, <3>1, <3>3 DEF Lies
      <4>2. fil.clust = q[d] /\ d \in 1 .. Len(q)
        BY <1>1, <1>2, <1>3, <4>1
      <4>3. Here(fil, q) = Following(q, fil.clust)
        BY <2>2, <4>1 DEF Here
      <4>4. Here(fil, q) = IF d < Len(q) THEN q[d + 1] ELSE 0
        BY <1>3, <4>2, <4>3, Follows
      <4> QED
        BY <4>4
    <3> QED
      BY <3>2, <3>3
  <2> QED
    BY <2>1, <2>2
<1> QED
  BY <1>4, <1>6, <1>7

LEMMA WriteStep == ASSUME FitInv, PlaceInv, NEW q \in Chains, WriteTurn(q) PROVE PlaceInv' /\ Gentle
<1> DEFINE c == Here(fil, q)
           w == (fil.fptr \div SS) % csize
           s == <<c, w>>
           onSector == fil.fptr % SS = 0
           whole == onSector /\ call.n >= SS
           cc == Direct(fil, call.n)
           n == IF whole THEN SS * cc ELSE Min2(SS - (fil.fptr % SS), call.n)
           back == IF onSector THEN WrittenBack(fil, disk) ELSE disk
           f == [fil EXCEPT !.clust = c, !.dirty = @ /\ ~onSector]
           buf == [b \in Bytes |->
                      IF b \in f.fptr % SS .. (f.fptr % SS) + n - 1 THEN calls
                      ELSE IF onSector /\ Filled(f, s) THEN back[s][b] ELSE f.buf[b]]
           over == OvertakenBuffer(f, c, w, cc)
           part == [f EXCEPT !.sect = IF onSector THEN s ELSE @, !.dirty = TRUE, !.buf = buf]
           g == IF whole THEN over ELSE part
<1>1. /\ call.op = "write" /\ call.n > 0 /\ Entered(fil, q) /\ c # 0 /\ chain' = q
      /\ fil' = [g EXCEPT !.fptr = @ + n, !.objsize = Max2(@, fil.fptr + n)]
      /\ call' = [call EXCEPT !.n = @ - n] /\ UNCHANGED <<others, size>>
  BY DEF WriteTurn
<1>d. disk' = IF whole THEN [t \in Sectors |-> IF t[1] = c /\ t[2] \in w .. w + cc - 1
                                                THEN [b \in Bytes |-> calls] ELSE back[t]]
              ELSE back
  BY DEF WriteTurn
<1>2. /\ chain \in Chains /\ Len(chain) \in Nat /\ Room(chain) \in Nat /\ DOMAIN disk = Sectors
      /\ Buffered(fil, chain) /\ Shape(fil) /\ fil.fptr \in Nat /\ fil.objsize \in 0 .. Room(chain)
      /\ fil.write /\ size \in Nat /\ call.n \in Nat \ {0} /\ call = [op |-> call.op, n |-> call.n]
      /\ \A e \in others : ~Owns(chain, e)
  BY <1>1, Facts DEF PlaceInv, FitInv
<1>3. /\ Len(q) \in Nat /\ DOMAIN q = 1 .. Len(q) /\ Room(q) \in Nat /\ \A i \in 1 .. Len(q) : q[i] \in Clusters
  BY ChainFacts
<1>4. /\ Len(chain) <= Len(q) /\ \A i \in 1 .. Len(chain) : q[i] = chain[i]
      /\ OneToOne(q) /\ \A i \in DOMAIN q : q[i] \notin others
      /\ ~Entering(fil) => q = chain
  BY <1>1, EnteredChain
<1>5. PICK d \in Nat, k \in 0 .. csize - 1, x \in 0 .. SS - 1 :
              At(fil.fptr, d, k, x) /\ Lies(fil, chain, d, k, x) /\ d < Len(q) /\ c = q[d + 1]
  BY <1>1, WriteWhere
<1>6. fil.fptr % SS = x /\ w = k
  BY <1>2, <1>5, Terms
<1>7. d \in Nat /\ k \in 0 .. csize - 1 /\ k \in Nat /\ x \in Nat
  BY <1>5, Units
<1>8. c = q[d + 1] /\ d < Len(q)
  BY <1>5
<1>9. c \in Clusters /\ c \notin others /\ Owns(q, c)
  BY <1>3, <1>4, <1>7, <1>8 DEF Owns
<1>10. /\ Shape(f) /\ f.fptr = fil.fptr /\ f.objsize = fil.objsize /\ f.open = fil.open /\ f.write = fil.write
       /\ f.modified = fil.modified /\ f.dirty = (fil.dirty /\ ~onSector) /\ f.sect = fil.sect /\ f.clust = c
  BY <1>2 DEF Shape, Closed
<1>11. (onSector <=> x = 0) /\ (whole <=> x = 0 /\ call.n >= SS) /\ s = <<c, k>>
  BY <1>6, Zenon
<1>12. n = Moved(fil, call.n)
  BY Zenon DEF Moved
<1>13. DOMAIN back = Sectors /\ \A t \in Sectors : ~Owns(chain, t[1]) => back[t] = disk[t]
  BY <1>2, Back
<1> HIDE DEF c, w, s, onSector, whole, cc, n, back, f, buf
<1>14. /\ over.fptr = fil.fptr /\ over.objsize = fil.objsize /\ over.open = fil.open /\ over.write = fil.write
       /\ over.modified = fil.modified /\ over.sect = fil.sect /\ over.clust = c /\ Shape(over)
       /\ over.dirty = f.dirty \/ over.dirty = FALSE
  BY <1>10 DEF OvertakenBuffer, Shape, Closed
<1>15. /\ part.fptr = fil.fptr /\ part.objsize = fil.objsize /\ part.open = fil.open /\ part.write = fil.write
       /\ part.modified = fil.modified /\ part.clust = c /\ Shape(part) /\ part.dirty = TRUE
       /\ part.sect = IF onSector THEN s ELSE fil.sect
  BY <1>10 DEF Shape, Closed
<1> HIDE DEF over, part
<1>16. /\ g.fptr = fil.fptr /\ g.objsize = fil.objsize /\ g.open = fil.open /\ g.write = fil.write
       /\ g.modified = fil.modified /\ g.clust = c /\ Shape(g)
  BY <1>14, <1>15
<1>17. ~(x = 0 /\ call.n >= SS) => g.sect = <<q[d + 1], k>> /\ g.dirty = TRUE
  <2>1. x # 0 => fil.sect = <<q[d + 1], k>>
    <3>1. x # 0 => d < Len(chain) /\ fil.sect = <<chain[d + 1], k>>
      BY <1>5, Zenon DEF Lies
    <3>2. d < Len(chain) => q[d + 1] = chain[d + 1]
      <4>1. d < Len(chain) => d + 1 \in 1 .. Len(chain)
        BY <1>2, <1>7
      <4> QED
        BY <1>4, <4>1, Zenon
    <3> QED
      BY <3>1, <3>2, Zenon
  <2> QED
    BY <1>8, <1>11, <1>15, <2>1
<1>18. x = 0 /\ call.n >= SS => g.sect = fil.sect /\ g.dirty = FALSE
  BY <1>10, <1>11, <1>14
<1> HIDE DEF g
<1>19. n \in Nat
  BY <1>2, <1>12, DirectFits, PartFits DEF Moved
<1>20. /\ fil'.fptr = fil.fptr + n /\ fil'.objsize = Max2(fil.objsize, fil.fptr + n) /\ fil'.open = fil.open
       /\ fil'.write = fil.write /\ fil'.modified = fil.modified /\ fil'.clust = q[d + 1]
       /\ fil'.sect = g.sect /\ fil'.dirty = g.dirty
  BY <1>1, <1>8, <1>16 DEF Shape, Closed
<1>21. (\E e, l, y : At(fil'.fptr, e, l, y) /\ Lies(fil', q, e, l, y)) /\ fil'.fptr \in 0 .. Room(q)
  <2>0. At(fil.fptr, d, k, x) /\ fil.fptr \in Nat /\ d \in Nat /\ k \in Nat /\ x \in Nat /\ call.n \in Nat \ {0}
    BY <1>2, <1>5, <1>7
  <2>1. PICK e \in Nat, l \in Nat, y \in Nat :
              /\ At(fil.fptr + n, e, l, y)
              /\ \/ e = d /\ (l # 0 \/ y # 0)
                 \/ e = d + 1 /\ l = 0 /\ y = 0
              /\ y # 0 => l = k /\ ~(x = 0 /\ call.n >= SS)
    <3>1. Lands(fil.fptr + n, d, k, x, call.n)
      BY <1>12, <1>19, <2>0, Turn, Zenon
    <3> QED
      BY <3>1 DEF Lands
  <2>2. At(fil'.fptr, e, l, y) /\ (y # 0 => l = k /\ fil'.sect = <<q[d + 1], k>>)
    BY <1>17, <1>20, <2>1, Zenon
  <2>3. fil'.clust = q[d + 1]
    BY <1>20
  <2> QED
    BY <1>7, <1>8, <2>1, <2>2, <2>3, Landed
<1>22. Room(chain) <= Room(q)
  BY <1>2, <1>3, <1>4, Longer DEF Room
<1>23. fil'.objsize \in 0 .. Room(q)
  BY <1>2, <1>3, <1>20, <1>21, <1>22 DEF Max2
<1>24. Buffered(fil', q)
  <2>1. CASE x = 0 /\ call.n >= SS
    BY <1>2, <1>18, <1>20, <2>1 DEF Buffered
  <2>2. CASE ~(x = 0 /\ call.n >= SS)
    <3>1. fil'.sect = <<c, k>> /\ fil'.write
      BY <1>2, <1>8, <1>17, <1>20, <2>2
    <3>2. <<c, k>> \in Sectors
      BY <1>7, <1>9 DEF Sectors
    <3> QED
      BY <1>9, <3>1, <3>2 DEF Buffered
  <2> QED
    BY <2>1, <2>2
<1>25. DOMAIN disk' = Sectors
  BY <1>d, <1>13
<1>26. Gentle
  <2>1. SUFFICES ASSUME NEW t \in Sectors, t[1] \in others PROVE disk'[t] = disk[t]
    BY DEF Gentle
  <2>2. back[t] = disk[t] /\ t[1] # c
    BY <1>2, <1>9, <1>13, <2>1
  <2> QED
    BY <1>d, <2>2
<1>27. ChainInv'
  BY <1>1, <1>4, <1>25 DEF ChainInv, PlaceInv
<1>28. (fil'.open /\ fil'.modified) \/ size' <= Room(q)
  BY <1>1, <1>2, <1>3, <1>20, <1>22 DEF PlaceInv
<1> QED
  BY <1>1, <1>2, <1>20, <1>21, <1>23, <1>24, <1>26, <1>27, <1>28 DEF PlaceInv, Placed

LEMMA OthersStep ==
    ASSUME FitInv, PlaceInv, NEW c \in Clusters, OthersTake(c) \/ OthersGive(c) PROVE PlaceInv' /\ Gentle
<1>1. CASE OthersTake(c)
  <2>1. /\ IsFree(c) /\ others' = others \union {c} /\ UNCHANGED <<chain, size, fil, call>>
        /\ disk' = [s \in Sectors |-> IF s[1] = c THEN NoBuf ELSE disk[s]]
    BY <1>1 DEF OthersTake
  <2>2. Gentle
    BY <2>1 DEF Gentle, IsFree
  <2>3. ChainInv'
    BY <2>1 DEF ChainInv, PlaceInv, IsFree
  <2> QED
    BY <2>1, <2>2, <2>3 DEF PlaceInv
<1>2. CASE OthersGive(c)
  BY <1>2 DEF OthersGive, PlaceInv, ChainInv, Gentle
<1> QED
  BY <1>1, <1>2

LEMMA PlaceStep == FitInv /\ PlaceInv /\ [Next]_vars => PlaceInv' /\ Gentle
<1> SUFFICES ASSUME FitInv, PlaceInv, [Next]_vars PROVE PlaceInv' /\ Gentle
  OBVIOUS
<1>1. ASSUME NEW m \in Modes, NEW append \in BOOLEAN, Open(m, append) PROVE PlaceInv' /\ Gentle
  BY <1>1, OpenStep
<1>2. CASE Close
  BY <1>2, CloseStep
<1>3. ASSUME NEW q \in Chains, NEW ofs \in Offsets, NEW n \in Lengths, ReadImpl(q, ofs, n) \/ WriteImpl(q, ofs, n)
      PROVE  PlaceInv' /\ Gentle
  <2>1. /\ Seek(q, ofs) /\ fil' = Sought(fil, q, ofs) /\ fil.open /\ UNCHANGED <<others, size>>
        /\ call'.op = "write" => fil.write
    BY <1>3 DEF ReadImpl, WriteImpl, Begin, Idle
  <2>2. ofs \in Nat
    BY FileAssumption
  <2> QED
    BY <2>1, <2>2, SeekStep
<1>4. ASSUME NEW q \in Chains, NEW n \in Offsets, SetSizeImpl(q, n) PROVE PlaceInv' /\ Gentle
  BY <1>4, SetSizeStep
<1>5. CASE ReadTurn
  BY <1>5, ReadStep
<1>6. CASE ReadEnd
  BY <1>6 DEF ReadEnd, PlaceInv, ChainInv, Gentle, Idle
<1>7. ASSUME NEW q \in Chains, WriteTurn(q) PROVE PlaceInv' /\ Gentle
  BY <1>7, WriteStep
<1>8. CASE WriteEnd
  <2>1. /\ fil' = [fil EXCEPT !.modified = TRUE] /\ call' = Idle /\ UNCHANGED <<disk, others, chain, size>>
        /\ call.op = "write"
    BY <1>8 DEF WriteEnd
  <2>2. fil.open /\ Shape(fil)
    BY <2>1 DEF FitInv, Fits
  <2>3. /\ fil'.open = fil.open /\ fil'.modified = TRUE /\ fil'.objsize = fil.objsize /\ fil'.fptr = fil.fptr
        /\ fil'.clust = fil.clust /\ fil'.sect = fil.sect /\ fil'.dirty = fil.dirty /\ fil'.write = fil.write
    BY <2>1, <2>2 DEF Shape, Closed
  <2>4. Placed(fil', chain)
    BY <2>3 DEF PlaceInv, Placed, Lies, Buffered
  <2> QED
    BY <2>1, <2>2, <2>3, <2>4 DEF PlaceInv, ChainInv, Gentle, Idle
<1>9. ASSUME NEW c \in Clusters, OthersTake(c) \/ OthersGive(c) PROVE PlaceInv' /\ Gentle
  BY <1>9, OthersStep
<1>10. CASE UNCHANGED vars
  BY <1>10 DEF vars, PlaceInv, ChainInv, Gentle
<1> QED
  BY <1>1, <1>2, <1>3, <1>4, <1>5, <1>6, <1>7, <1>8, <1>9, <1>10 DEF Next

LEMMA PlaceStart == Init => PlaceInv
<1> SUFFICES ASSUME Init PROVE PlaceInv
  OBVIOUS
<1>1. chain = <<>> /\ others = {} /\ DOMAIN disk = Sectors /\ size = 0 /\ fil = Closed /\ call = Idle
  BY DEF Init
<1>2. <<>> \in Chains
  <2>1. <<>> \in [1 .. 0 -> Clusters] /\ 0 \in 0 .. NClusters
    BY FileAssumption
  <2> QED
    BY <2>1 DEF Chains
<1>3. Room(chain) \in Nat
  BY <1>1, <1>2, ChainFacts
<1>4. At(0, 0, 0, 0) /\ Lies(Closed, chain, 0, 0, 0)
  BY Units DEF At, Lies
<1>5. Placed(Closed, chain)
  BY <1>3, <1>4 DEF Placed, Buffered, Closed
<1>6. ChainInv
  BY <1>1, <1>2 DEF ChainInv, OneToOne
<1> QED
  BY <1>1, <1>3, <1>5, <1>6 DEF PlaceInv, Idle

LEMMA PlaceAlways == Spec => [](FitInv /\ PlaceInv)
<1>1. Init => FitInv
  BY FileAssumption DEF Init, FitInv, Fits, Shape, Closed, Idle
<1> QED
  BY <1>1, PlaceStart, FitStep, PlaceStep, PTL DEF Spec

\* The chain is the file's own, pointer and size lie inside it, and only a writer's buffer,
\* for a sector that exists, is dirty.
THEOREM TypeCorrect == Spec => []TypeOK
<1>1. FitInv /\ PlaceInv => TypeOK
  <2> SUFFICES ASSUME FitInv, PlaceInv PROVE TypeOK
    OBVIOUS
  <2>1. /\ chain \in Chains /\ others \subseteq Clusters /\ Buffered(fil, chain)
        /\ \A i \in DOMAIN chain : chain[i] \notin others
        /\ fil.objsize \in 0 .. Room(chain) /\ Len(chain) \in 0 .. NClusters /\ Room(chain) \in Nat
    BY Facts, ChainFacts DEF PlaceInv, ChainInv
  <2>2. Room(chain) <= NClusters * bcs
    BY <2>1, Longer, FileAssumption DEF Room
  <2>3. fil.fptr \in 0 .. Room(chain)
    <3>1. PICK d, k, x : At(fil.fptr, d, k, x) /\ Lies(fil, chain, d, k, x)
      BY DEF PlaceInv, Placed
    <3>2. d \in Nat /\ k \in Nat /\ x \in Nat /\ fil.fptr \in Nat
      BY <3>1, Units DEF At, FitInv, Fits
    <3>3. (k = 0 /\ x = 0 => d <= Len(chain)) /\ (k # 0 \/ x # 0 => d < Len(chain))
      BY <2>1, <3>1, <3>2 DEF Lies
    <3> QED
      BY <2>1, <3>1, <3>2, <3>3, Inside
  <2>4. NoSector \notin Sectors
    BY FileAssumption DEF NoSector, Sectors, Clusters
  <2>5. fil.fptr \in 0 .. NClusters * bcs /\ NClusters * bcs \in Nat
    BY <2>1, <2>2, <2>3, FileAssumption, Units
  <2> QED
    BY <2>1, <2>4, <2>5 DEF TypeOK, Buffered, Room
<1> QED
  BY <1>1, PlaceAlways, PTL

\* f_read and f_write go on from the cluster and sector in the FIL, which are the pointer's.
THEOREM PointerSafe == Spec => []PointerInCluster
<1>1. FitInv /\ PlaceInv => PointerInCluster
  <2> SUFFICES ASSUME FitInv, PlaceInv, fil.fptr > 0
               PROVE  /\ fil.clust = chain[(fil.fptr - 1) \div bcs + 1]
                      /\ fil.fptr % SS # 0 => fil.sect = SectorOf(chain, fil.fptr)
    BY DEF PointerInCluster
  <2>1. PICK d, k, x : At(fil.fptr, d, k, x) /\ Lies(fil, chain, d, k, x)
    BY DEF PlaceInv, Placed
  <2>2. fil.fptr \in Nat /\ fil.fptr # 0
    BY DEF FitInv, Fits
  <2>3. /\ SectorOf(chain, fil.fptr) = <<chain[d + 1], k>> /\ fil.fptr % SS = x
        /\ fil.fptr = 0 <=> d = 0 /\ k = 0 /\ x = 0
        /\ ClusterOf(chain, fil.fptr) = IF k = 0 /\ x = 0 THEN chain[d] ELSE chain[d + 1]
    BY <2>1, <2>2, Terms, Pointed
  <2>4. fil.clust = ClusterOf(chain, fil.fptr)
    BY <2>1, <2>2, <2>3 DEF Lies
  <2>5. fil.clust = chain[(fil.fptr - 1) \div bcs + 1]
    BY <2>2, <2>4, Zenon DEF ClusterOf
  <2>6. fil.fptr % SS # 0 => fil.sect = SectorOf(chain, fil.fptr)
    BY <2>1, <2>3, Zenon DEF Lies
  <2> QED
    BY <2>5, <2>6
<1> QED
  BY <1>1, PlaceAlways, PTL

\* The buffer is never written to a cluster the file gave up, nor a direct transfer made to one.
THEOREM OthersSafe == Spec => OthersUntouched
<1>1. FitInv /\ PlaceInv /\ [Next]_vars => [\A s \in Sectors : s[1] \in others \intersect others' => disk'[s] = disk[s]]_vars
  BY PlaceStep DEF Gentle
<1> QED
  BY <1>1, PlaceAlways, PTL DEF Spec, OthersUntouched

-----------------------------------------------------------------------------
(***************************************************************************)
(* The bytes of the file.  DataInv says where each of them is; a turn of   *)
(* f_read or f_write reaches them through At, so that every lemma has one  *)
(* product at most in sight.                                               *)
(***************************************************************************)

\* The bytes a reader finds in a sector: the dirty buffer's before the drive's.
Kept(f, q, d, t) ==
    \A p \in 0 .. Len(t) - 1 : t[p + 1] # 0 =>
        /\ WrittenBack(f, d)[SectorOf(q, p)][p % SS] = t[p + 1]
        /\ f.sect = SectorOf(q, p) => f.buf[p % SS] = t[p + 1]

\* The bytes the FIL and the drive keep between them, in an open file and in a closed one: what
\* the history says was written (0 stands for a byte nothing wrote) is where a reader looks for it,
\* the directory entry is behind only while FA_MODIFIED is set, and what a call of f_read handed
\* out so far is as long as the way its pointer went.
DataInv ==
    /\ content \in Seq(Nat) /\ calls \in Nat
    /\ Len(content) = IF fil.open THEN fil.objsize ELSE size
    /\ Kept(fil, chain, disk, content)
    /\ ~fil.open => fil = Closed
    /\ fil.open /\ ~fil.modified /\ call.op # "write" => fil.dirty = FALSE /\ size = fil.objsize
    /\ call.op = "read" => /\ \E m \in Nat : got.bytes = [i \in 1 .. m |-> got.bytes[i]] /\ got.from + m = fil.fptr
                           /\ got = [from |-> got.from, bytes |-> got.bytes] /\ got.from \in Nat
                           /\ ReadsWritten

\* A byte of the file is in a sector of the file's.
LEMMA InSector ==
    ASSUME NEW q \in Chains, NEW p \in Nat, p < Room(q)
    PROVE  \E d \in Nat, k \in 0 .. csize - 1, x \in Bytes :
              /\ At(p, d, k, x) /\ d < Len(q) /\ SectorOf(q, p) = <<q[d + 1], k>> /\ p % SS = x
              /\ d + 1 \in DOMAIN q /\ SectorOf(q, p) \in Sectors
<1>1. PICK d, k, x : At(p, d, k, x)
  BY Somewhere
<1>2. d \in Nat /\ k \in 0 .. csize - 1 /\ x \in Bytes
  BY <1>1 DEF At, Bytes
<1>3. SectorOf(q, p) = <<q[d + 1], k>> /\ p % SS = x
  BY <1>1, Terms
<1>4. Len(q) \in Nat /\ DOMAIN q = 1 .. Len(q) /\ \A i \in 1 .. Len(q) : q[i] \in Clusters
  BY ChainFacts
<1>5. d < Len(q)
  BY <1>1, <1>4, AtBounds DEF Room
<1>6. d + 1 \in DOMAIN q /\ q[d + 1] \in Clusters
  BY <1>2, <1>4, <1>5
<1>7. SectorOf(q, p) \in Sectors
  BY <1>2, <1>3, <1>6 DEF Sectors
<1> QED
  BY <1>1, <1>2, <1>3, <1>5, <1>6, <1>7

\* A chain that grows leaves the bytes in their sectors, and so does one that is cut.
LEMMA SameSector ==
    ASSUME NEW q \in Chains, NEW r \in Chains, NEW p \in Nat, p < Room(q), p < Room(r),
           \A i \in DOMAIN q \intersect DOMAIN r : q[i] = r[i]
    PROVE  SectorOf(r, p) = SectorOf(q, p)
<1>1. PICK d \in Nat, k \in 0 .. csize - 1, x \in Bytes :
              At(p, d, k, x) /\ SectorOf(q, p) = <<q[d + 1], k>> /\ d + 1 \in DOMAIN q
  BY InSector
<1>2. SectorOf(r, p) = <<r[d + 1], k>>
  BY <1>1, Terms
<1>3. d + 1 \in DOMAIN r
  BY <1>1, ChainFacts, AtBounds DEF Room
<1> QED
  BY <1>1, <1>2, <1>3

\* Bytes of the sector in cluster number d + 1.
LEMMA SectorBytes ==
    ASSUME NEW q \in Chains, OneToOne(q), NEW d \in Nat, d < Len(q), NEW j \in 0 .. csize - 1,
           NEW p \in Nat, p < Room(q), SectorOf(q, p) = <<q[d + 1], j>>
    PROVE  \E y \in Bytes : y = p % SS /\ p = bcs * d + (SS * j + y)
<1>1. PICK e \in Nat, k \in 0 .. csize - 1, x \in Bytes :
              At(p, e, k, x) /\ SectorOf(q, p) = <<q[e + 1], k>> /\ p % SS = x /\ e + 1 \in DOMAIN q
  BY InSector
<1>2. q[e + 1] = q[d + 1] /\ k = j
  BY <1>1
<1>3. e + 1 = d + 1
  <2>1. d + 1 \in DOMAIN q
    BY ChainFacts
  <2> QED
    BY <1>1, <1>2, <2>1, Zenon DEF OneToOne
<1>4. e = d
  BY <1>3
<1>5. p = bcs * d + (SS * j + x)
  BY <1>1, <1>2, <1>4, Zenon DEF At
<1>6. x = p % SS
  BY <1>1
<1> QED
  BY <1>5, <1>6

\* A sector after the buffer is written back: the buffer if it was dirty and its own.
LEMMA BackAt ==
    ASSUME NEW f, NEW q, Buffered(f, q), NEW d, DOMAIN d = Sectors, NEW s \in Sectors
    PROVE  /\ f.dirty /\ f.sect = s => WrittenBack(f, d)[s] = f.buf
           /\ ~(f.dirty /\ f.sect = s) => WrittenBack(f, d)[s] = d[s]
<1>1. CASE ~f.dirty
  BY <1>1 DEF WrittenBack
<1>2. CASE f.dirty
  <2>1. WrittenBack(f, d) = [d EXCEPT ![f.sect] = f.buf] /\ f.sect \in Sectors
    BY <1>2 DEF WrittenBack, Buffered
  <2> QED
    BY <1>2, <2>1
<1> QED
  BY <1>1, <1>2

\* The file has a cluster for every byte of it.
LEMMA HoldsRoom == ASSUME FitInv, PlaceInv, DataInv PROVE Len(content) <= Room(chain)
<1>1. CASE fil.open
  <2>1. Len(content) = fil.objsize
    BY <1>1 DEF DataInv
  <2> QED
    BY <2>1, Facts
<1>2. CASE ~fil.open
  <2>1. Len(content) = size
    BY <1>2 DEF DataInv
  <2> QED
    BY <1>2, <2>1 DEF PlaceInv
<1> QED
  BY <1>1, <1>2

\* f_lseek changes the buffer after it was written back, or leaves it.
LEMMA SoughtKept ==
    ASSUME FitInv, PlaceInv, DataInv, fil.open, NEW q \in Chains, NEW ofs \in Nat, Stretched(q, ofs),
           NEW f, f = Sought(fil, q, ofs),
           NEW d, d = IF Refill([fil EXCEPT !.fptr = f.fptr], q) THEN WrittenBack(fil, disk) ELSE disk
    PROVE  /\ Kept(f, q, d, content) /\ Len(content) <= f.objsize /\ f.objsize \in Nat
           /\ f.fptr \in Nat
           /\ Buffered(f, q) /\ DOMAIN d = Sectors /\ f.open
           /\ ~f.modified => ~fil.modified /\ f.objsize = fil.objsize /\ (fil.dirty = FALSE => f.dirty = FALSE)
<1> DEFINE p == Target(fil, q, ofs)
           g == [fil EXCEPT !.fptr = p, !.clust = ClusterOf(q, p), !.objsize = Max2(@, p),
                            !.modified = @ \/ p > fil.objsize]
           h == [g EXCEPT !.dirty = FALSE, !.sect = SectorOf(q, p),
                          !.buf = WrittenBack(fil, disk)[SectorOf(q, p)]]
<1>1. /\ chain \in Chains /\ Room(chain) \in Nat /\ DOMAIN chain = 1 .. Len(chain) /\ Len(chain) \in Nat
      /\ Buffered(fil, chain) /\ DOMAIN disk = Sectors /\ Shape(fil) /\ fil.objsize \in 0 .. Room(chain)
  BY Facts
<1>2. PICK o \in Nat : o = IF fs_type # "exfat" /\ ofs >= Word THEN Word - 1 ELSE ofs
  BY FileAssumption
<1>3. Len(chain) <= Len(q) /\ \A i \in 1 .. Len(chain) : q[i] = chain[i]
  BY <1>2, GrowsFrom DEF PlaceInv
<1>4. Len(q) \in Nat /\ DOMAIN q = 1 .. Len(q) /\ Room(q) \in Nat /\ Room(chain) <= Room(q)
  BY <1>1, <1>3, ChainFacts, Longer DEF Room
<1>5. Placed(f, q)
  BY SoughtPlaced
<1>6. f = IF Refill(g, q) THEN h ELSE g
  BY DEF Sought
<1>7. p \in Nat
  <2>1. p = IF ~fil.write THEN Min2(o, fil.objsize) ELSE Min2(o, Room(q))
    BY <1>2 DEF Target, Room
  <2> QED
    BY <1>1, <1>2, <1>4, <2>1 DEF Min2
<1> HIDE DEF p
<1>8. /\ g.fptr = p /\ g.objsize = Max2(fil.objsize, p) /\ g.buf = fil.buf /\ Shape(g)
      /\ g.dirty = fil.dirty /\ g.sect = fil.sect /\ g.open = fil.open
      /\ ~g.modified => ~fil.modified /\ ~(p > fil.objsize)
  BY <1>1 DEF Shape, Closed
<1> HIDE DEF g
<1>9. /\ h.fptr = p /\ h.objsize = g.objsize /\ h.modified = g.modified /\ h.dirty = FALSE /\ h.open = g.open
      /\ h.sect = SectorOf(q, p) /\ h.buf = WrittenBack(fil, disk)[SectorOf(q, p)]
  BY <1>8 DEF Shape, Closed
<1> HIDE DEF h
<1>10. /\ f.fptr = p /\ f.objsize = Max2(fil.objsize, p) /\ f.open = fil.open
       /\ ~f.modified => ~fil.modified /\ ~(p > fil.objsize)
  BY <1>6, <1>8, <1>9, Zenon
<1>11. f.objsize \in Nat /\ Len(content) <= f.objsize /\ p <= f.objsize
  BY <1>1, <1>7, <1>10 DEF Max2, DataInv
<1>12. Refill([fil EXCEPT !.fptr = f.fptr], q) <=> Refill(g, q)
  <2>1. PICK e : e = [fil EXCEPT !.fptr = f.fptr]
    OBVIOUS
  <2>2. e.fptr = p /\ e.sect = fil.sect
    BY <1>1, <1>10, <2>1 DEF Shape, Closed
  <2> QED
    BY <1>8, <2>1, <2>2, Zenon DEF Refill
<1>13. d = IF Refill(g, q) THEN WrittenBack(fil, disk) ELSE disk
  BY <1>12, Zenon
<1>14. DOMAIN d = Sectors
  BY <1>1, <1>13, Back
<1>15. Kept(f, q, d, content)
  <2> SUFFICES ASSUME NEW b \in 0 .. Len(content) - 1, content[b + 1] # 0
               PROVE  /\ WrittenBack(f, d)[SectorOf(q, b)][b % SS] = content[b + 1]
                      /\ f.sect = SectorOf(q, b) => f.buf[b % SS] = content[b + 1]
    BY DEF Kept
  <2>0. Len(content) = fil.objsize
    BY DEF DataInv
  <2>1. b \in Nat /\ b < Room(chain) /\ b < Room(q)
    BY <1>1, <1>4, <2>0
  <2>2. SectorOf(q, b) = SectorOf(chain, b) /\ SectorOf(q, b) \in Sectors
    <3>1. \A i \in DOMAIN chain \intersect DOMAIN q : chain[i] = q[i]
      BY <1>1, <1>3
    <3>2. SectorOf(q, b) = SectorOf(chain, b)
      BY <1>1, <2>1, <3>1, SameSector
    <3>3. SectorOf(q, b) \in Sectors
      BY <2>1, InSector
    <3> QED
      BY <3>2, <3>3
  <2>3. PICK s \in Sectors : s = SectorOf(q, b)
    BY <2>2
  <2>4. /\ WrittenBack(fil, disk)[s][b % SS] = content[b + 1]
        /\ fil.sect = s => fil.buf[b % SS] = content[b + 1]
    BY <2>2, <2>3 DEF Kept, DataInv
  <2>5. CASE Refill(g, q)
    <3>1. f.dirty = FALSE /\ f.sect = SectorOf(q, p) /\ f.buf = WrittenBack(fil, disk)[SectorOf(q, p)]
          /\ d = WrittenBack(fil, disk)
      BY <1>6, <1>9, <1>13, <2>5, Zenon
    <3>2. WrittenBack(f, d) = d
      BY <3>1 DEF WrittenBack
    <3> QED
      BY <2>3, <2>4, <3>1, <3>2, Zenon
  <2>6. CASE ~Refill(g, q)
    <3>1. f.dirty = fil.dirty /\ f.sect = fil.sect /\ f.buf = fil.buf /\ d = disk
      BY <1>6, <1>8, <1>13, <2>6, Zenon
    <3>2. WrittenBack(f, d) = WrittenBack(fil, disk)
      BY <3>1, Zenon DEF WrittenBack
    <3> QED
      BY <2>3, <2>4, <3>1, <3>2, Zenon
  <2> QED
    BY <2>5, <2>6
<1>16. f.dirty = fil.dirty \/ f.dirty = FALSE
  BY <1>6, <1>8, <1>9, Zenon
<1>17. ~f.modified => ~fil.modified /\ f.objsize = fil.objsize
  BY <1>1, <1>7, <1>10 DEF Max2
<1> QED
  BY <1>5, <1>7, <1>10, <1>11, <1>14, <1>15, <1>16, <1>17 DEF Placed

\* The history of a file that is resized.
LEMMA ResizedFacts ==
    ASSUME content \in Seq(Nat), NEW n \in Nat
    PROVE  /\ Resized(n) \in Seq(Nat) /\ Len(Resized(n)) = n
           /\ \A b \in 0 .. n - 1 : Resized(n)[b + 1] = IF b < Len(content) THEN content[b + 1] ELSE 0
<1>1. Resized(n) = [i \in 1 .. n |-> IF i <= Len(content) THEN content[i] ELSE 0]
  BY DEF Resized
<1>2. \A i \in 1 .. n : (IF i <= Len(content) THEN content[i] ELSE 0) \in Nat
  OBVIOUS
<1>3. Resized(n) \in [1 .. n -> Nat]
  BY <1>1, <1>2
<1>4. Resized(n) \in Seq(Nat) /\ Len(Resized(n)) = n
  BY <1>3
<1> QED
  BY <1>1, <1>4

\* The bytes a file keeps when it is resized are where they were.
LEMMA ResizedKept ==
    ASSUME content \in Seq(Nat), NEW n \in Nat, NEW f, NEW q, NEW d, Kept(f, q, d, content)
    PROVE  Kept(f, q, d, Resized(n))
<1> SUFFICES ASSUME NEW b \in 0 .. n - 1, Resized(n)[b + 1] # 0
             PROVE  /\ WrittenBack(f, d)[SectorOf(q, b)][b % SS] = Resized(n)[b + 1]
                    /\ f.sect = SectorOf(q, b) => f.buf[b % SS] = Resized(n)[b + 1]
  BY ResizedFacts DEF Kept
<1>1. b < Len(content) /\ Resized(n)[b + 1] = content[b + 1]
  BY ResizedFacts
<1>2. b \in 0 .. Len(content) - 1
  BY <1>1
<1>3. PICK v : v = content[b + 1]
  OBVIOUS
<1>4. v # 0 /\ Resized(n)[b + 1] = v
  BY <1>1, <1>3
<1> QED
  BY <1>2, <1>3, <1>4, Zenon DEF Kept

\* f_lseek in front of f_read or f_write: it may stretch the chain and reload the buffer.
LEMMA SeekData ==
    ASSUME FitInv, PlaceInv, DataInv, NEW q \in Chains, NEW ofs \in Nat, Seek(q, ofs), fil' = Sought(fil, q, ofs),
           fil.open, call.op = "none", UNCHANGED size, calls' = calls + 1,
           call'.op = "read" => got' = [from |-> fil'.fptr, bytes |-> <<>>]
    PROVE  DataInv'
<1>0. PICK f : f = Sought(fil, q, ofs)
  OBVIOUS
<1>1. Stretched(q, ofs) /\ chain' = q /\ fil' = f /\ content' = Resized(f.objsize)
      /\ disk' = IF Refill([fil EXCEPT !.fptr = f.fptr], q) THEN WrittenBack(fil, disk) ELSE disk
  BY <1>0 DEF Seek
<1>2. /\ Kept(f, q, disk', content) /\ Len(content) <= f.objsize /\ f.objsize \in Nat
      /\ f.fptr \in Nat /\ f.open
      /\ ~f.modified => ~fil.modified /\ f.objsize = fil.objsize /\ (fil.dirty = FALSE => f.dirty = FALSE)
  BY <1>0, <1>1, SoughtKept
<1>3. content \in Seq(Nat) /\ calls \in Nat
      /\ (~fil.modified => fil.dirty = FALSE /\ size = fil.objsize)
  BY DEF DataInv
<1>4. content' \in Seq(Nat) /\ Len(content') = f.objsize /\ Kept(f, q, disk', content')
  BY <1>1, <1>2, <1>3, ResizedFacts, ResizedKept
<1>5. ~f.modified => f.dirty = FALSE /\ size = f.objsize
  BY <1>2, <1>3
<1>6. ASSUME call'.op = "read"
      PROVE  (\E m \in Nat : got'.bytes = [i \in 1 .. m |-> got'.bytes[i]] /\ got'.from + m = fil'.fptr) /\ got'.from \in Nat /\ ReadsWritten'
             /\ got' = [from |-> got'.from, bytes |-> got'.bytes]
  <2>1. got'.bytes = <<>> /\ got'.from = f.fptr /\ got' = [from |-> got'.from, bytes |-> got'.bytes]
    BY <1>1, <1>6
  <2>2. DOMAIN got'.bytes = {} /\ got'.bytes = [i \in 1 .. 0 |-> got'.bytes[i]] /\ got'.from + 0 = fil'.fptr
    BY <1>1, <1>2, <2>1
  <2>3. ReadsWritten'
    BY <2>2 DEF ReadsWritten
  <2> QED
    BY <1>2, <2>1, <2>2, <2>3
<1>7. calls' \in Nat
  BY <1>3
<1> QED
  BY <1>1, <1>2, <1>4, <1>5, <1>6, <1>7 DEF DataInv

\* f_open finds the bytes on the drive, where closing left them; appending, it loads the buffer.
LEMMA OpenData ==
    ASSUME FitInv, PlaceInv, DataInv, NEW m \in Modes, NEW append \in BOOLEAN, Open(m, append)
    PROVE  DataInv'
<1> DEFINE f == [Closed EXCEPT !.open = TRUE, !.read = m[1], !.write = m[2], !.objsize = size]
           p == f.objsize
           g == [f EXCEPT !.fptr = p, !.clust = ClusterOf(chain, p)]
           h == [g EXCEPT !.sect = SectorOf(chain, p), !.buf = disk[SectorOf(chain, p)]]
<1>1. /\ f.objsize = size /\ f.fptr = 0 /\ f.dirty = FALSE /\ f.sect = NoSector /\ f.open = TRUE
      /\ f.modified = FALSE /\ Shape(f)
  BY DEF Closed, Shape
<1>2. UNCHANGED <<chain, size, disk, call, content, calls>> /\ ~fil.open /\ call.op = "none"
  BY DEF Open, FitInv, bounds
<1>3. fil' \in {f, g, h}
  BY DEF Open, Appending
<1> HIDE DEF f
<1>4. /\ g.objsize = size /\ g.dirty = FALSE /\ g.sect = NoSector /\ g.open = TRUE /\ g.modified = FALSE
      /\ h.objsize = size /\ h.dirty = FALSE /\ h.open = TRUE /\ h.modified = FALSE
      /\ h.sect = SectorOf(chain, p) /\ h.buf = disk[SectorOf(chain, p)]
  BY <1>1, SMTT(30) DEF Shape, Closed
<1> HIDE DEF p, g, h
<1>5. /\ fil'.objsize = size /\ fil'.dirty = FALSE /\ fil'.open = TRUE /\ fil'.modified = FALSE
      /\ fil'.sect = NoSector \/ (fil'.sect = SectorOf(chain, p) /\ fil'.buf = disk[SectorOf(chain, p)])
  BY <1>1, <1>3, <1>4
<1>6. fil = Closed /\ content \in Seq(Nat) /\ Len(content) = size /\ Kept(Closed, chain, disk, content) /\ calls \in Nat
  BY <1>2 DEF DataInv
<1>7. Kept(fil', chain, disk, content)
  <2> SUFFICES ASSUME NEW b \in 0 .. Len(content) - 1, content[b + 1] # 0
               PROVE  /\ WrittenBack(fil', disk)[SectorOf(chain, b)][b % SS] = content[b + 1]
                      /\ fil'.sect = SectorOf(chain, b) => fil'.buf[b % SS] = content[b + 1]
    BY DEF Kept
  <2>1. WrittenBack(fil', disk) = disk /\ WrittenBack(Closed, disk) = disk
    BY <1>5 DEF WrittenBack, Closed
  <2>2. disk[SectorOf(chain, b)][b % SS] = content[b + 1]
    BY <1>6, <2>1, Zenon DEF Kept
  <2>3. SectorOf(chain, b) # NoSector
    <3>1. b \in Nat /\ b < Room(chain)
      BY <1>2, <1>6, Facts DEF PlaceInv
    <3>2. SectorOf(chain, b) \in Sectors
      BY <3>1, Facts, InSector
    <3> QED
      BY <3>2, FileAssumption DEF NoSector, Sectors, Clusters
  <2> QED
    BY <1>5, <2>1, <2>2, <2>3, Zenon
<1> QED
  BY <1>2, <1>5, <1>6, <1>7 DEF DataInv

\* f_close syncs first: the buffer goes to the drive and the size to the entry.
LEMMA CloseData == ASSUME FitInv, PlaceInv, DataInv, Close PROVE DataInv'
<1>1. /\ fil' = Closed /\ UNCHANGED <<chain, call, content, calls>> /\ fil.open /\ call.op = "none"
      /\ disk' = IF fil.modified THEN WrittenBack(fil, disk) ELSE disk
      /\ size' = IF fil.modified THEN fil.objsize ELSE size
  BY DEF Close, Synced, bounds
<1>2. disk' = WrittenBack(fil, disk) /\ size' = fil.objsize
  <2>1. CASE fil.modified
    BY <1>1, <2>1
  <2>2. CASE ~fil.modified
    BY <1>1, <2>2 DEF DataInv, WrittenBack
  <2> QED
    BY <2>1, <2>2
<1>3. content \in Seq(Nat) /\ calls \in Nat /\ Len(content) = fil.objsize /\ Kept(fil, chain, disk, content)
      /\ fil.objsize \in 0 .. Room(chain)
  BY <1>1, Facts DEF DataInv
<1>4. Kept(Closed, chain, disk', content)
  <2> SUFFICES ASSUME NEW b \in 0 .. Len(content) - 1, content[b + 1] # 0
               PROVE  /\ WrittenBack(Closed, disk')[SectorOf(chain, b)][b % SS] = content[b + 1]
                      /\ Closed.sect = SectorOf(chain, b) => Closed.buf[b % SS] = content[b + 1]
    BY DEF Kept
  <2>1. WrittenBack(Closed, disk') = disk' /\ Closed.sect = NoSector
    BY DEF WrittenBack, Closed
  <2>2. disk'[SectorOf(chain, b)][b % SS] = content[b + 1]
    BY <1>2, <1>3, Zenon DEF Kept
  <2>3. SectorOf(chain, b) # NoSector
    <3>1. b \in Nat /\ b < Room(chain)
      BY <1>3, Facts
    <3>2. SectorOf(chain, b) \in Sectors
      BY <3>1, Facts, InSector
    <3> QED
      BY <3>2, FileAssumption DEF NoSector, Sectors, Clusters
  <2> QED
    BY <2>1, <2>2, <2>3, Zenon
<1>5. Closed.open = FALSE
  BY DEF Closed
<1> QED
  BY <1>1, <1>2, <1>3, <1>4, <1>5 DEF DataInv

\* The chain that f_truncate leaves is a part of the one it found.
LEMMA CutSame ==
    ASSUME NEW q \in Chains, NEW f, f.fptr \in Nat
    PROVE  \A i \in DOMAIN q \intersect DOMAIN Cut(f, q) : q[i] = Cut(f, q)[i]
<1>1. PICK e, k, x : At(f.fptr, e, k, x)
  BY Somewhere
<1>2. e \in Nat
  BY <1>1 DEF At
<1>3. PICK m : m = (f.fptr + bcs - 1) \div bcs
  OBVIOUS
<1>4. m \in Nat
  BY <1>1, <1>2, <1>3, CutLength
<1>5. Cut(f, q) = SubSeq(q, 1, m)
  BY <1>3 DEF Cut
<1>6. PICK n \in Nat : n = Len(q) /\ DOMAIN q = 1 .. n
  BY ChainFacts
<1>7. \A i \in 1 .. m : SubSeq(q, 1, m)[i] = q[i]
  BY <1>4
<1>8. DOMAIN SubSeq(q, 1, m) = 1 .. m
  BY <1>4
<1> QED
  BY <1>5, <1>7, <1>8

\* f_lseek and f_truncate: bytes past the cut go with their clusters.
LEMMA SetSizeData ==
    ASSUME FitInv, PlaceInv, DataInv, PlaceInv', NEW q \in Chains, NEW n \in Offsets, SetSizeImpl(q, n)
    PROVE  DataInv'
<1>1. PICK f : f = Sought(fil, q, n)
  OBVIOUS
<1>2. n \in Nat /\ fil.open /\ UNCHANGED <<size, call, got>> /\ call.op = "none" /\ calls' = calls + 1
  BY FileAssumption DEF SetSizeImpl, Begin
<1>3. CASE n < fil.objsize /\ fil.write /\ f.fptr < f.objsize
  <2>1. PICK d : d = IF Refill([fil EXCEPT !.fptr = f.fptr], q) THEN WrittenBack(fil, disk) ELSE disk
    OBVIOUS
  <2>2. /\ Stretched(q, n) /\ chain' = Cut(f, q) /\ disk' = WrittenBack(f, d) /\ content' = Resized(f.fptr)
        /\ fil' = [Clean(f) EXCEPT !.objsize = f.fptr, !.modified = TRUE]
    BY <1>1, <1>3, <2>1 DEF SetSizeImpl
  <2>3. Kept(f, q, d, content) /\ f.fptr \in Nat /\ Buffered(f, q) /\ DOMAIN d = Sectors
    BY <1>1, <1>2, <2>1, <2>2, SoughtKept
  <2>4. Shape(f) /\ f.open = fil.open
    BY <1>1, <1>2, SeekFits DEF FitInv, Fits
  <2>5. /\ fil'.fptr = f.fptr /\ fil'.objsize = f.fptr /\ fil'.sect = f.sect /\ fil'.buf = f.buf
        /\ fil'.dirty = FALSE /\ fil'.open = f.open /\ fil'.modified = TRUE
    BY <2>2, <2>4 DEF Clean, Shape, Closed
  <2>6. content \in Seq(Nat) /\ calls \in Nat
    BY DEF DataInv
  <2>7. content' \in Seq(Nat) /\ Len(content') = f.fptr /\ Kept(f, q, d, content')
    BY <2>2, <2>3, <2>6, ResizedFacts, ResizedKept
  <2>8. chain' \in Chains /\ f.fptr <= Room(chain') /\ Room(chain') \in Nat
    BY <2>5, ChainFacts DEF PlaceInv, ChainInv, Placed
  <2>a. f.fptr <= Room(q) /\ Room(q) \in Nat
    BY <1>1, <1>2, <2>2, SoughtPlaced, ChainFacts
  <2>9. Kept(fil', chain', disk', content')
    <3> SUFFICES ASSUME NEW b \in 0 .. Len(content') - 1, content'[b + 1] # 0
                 PROVE  /\ WrittenBack(fil', disk')[SectorOf(chain', b)][b % SS] = content'[b + 1]
                        /\ fil'.sect = SectorOf(chain', b) => fil'.buf[b % SS] = content'[b + 1]
      BY DEF Kept
    <3>1. b \in Nat /\ b < Room(chain') /\ b < Room(q)
      BY <2>3, <2>7, <2>8, <2>a
    <3>2. SectorOf(chain', b) = SectorOf(q, b)
      BY <2>2, <2>3, <2>8, <3>1, CutSame, SameSector
    <3>3. WrittenBack(fil', disk') = disk'
      BY <2>5 DEF WrittenBack
    <3>4. /\ WrittenBack(f, d)[SectorOf(q, b)][b % SS] = content'[b + 1]
          /\ f.sect = SectorOf(q, b) => f.buf[b % SS] = content'[b + 1]
      BY <2>7, Zenon DEF Kept
    <3> QED
      BY <2>2, <2>5, <3>2, <3>3, <3>4, Zenon
  <2>b. fil'.open /\ fil'.modified /\ call'.op # "read" /\ Len(content') = fil'.objsize /\ calls' \in Nat
    BY <1>2, <2>4, <2>5, <2>6, <2>7
  <2> QED
    BY <2>7, <2>9, <2>b, Zenon DEF DataInv
<1>4. CASE ~(n < fil.objsize /\ fil.write /\ f.fptr < f.objsize)
  <2>1. Seek(q, n) /\ fil' = f
    BY <1>1, <1>4 DEF SetSizeImpl
  <2> QED
    BY <1>1, <1>2, <2>1, SeekData
<1> QED
  BY <1>3, <1>4

\* A tuple of m entries, and the tuple of m + n entries that two of them make.
Tuple(u, m) == m \in Nat /\ u = [i \in 1 .. m |-> u[i]]
Join(w, u, m, v, n) ==
    /\ w = [i \in 1 .. m + n |-> w[i]]
    /\ \A i \in 1 .. m : w[i] = u[i]
    /\ \A i \in m + 1 .. m + n : w[i] = v[i - m]

\* The bytes f_read has handed out, and those of one more turn.
LEMMA Joined == ASSUME NEW u, NEW m, Tuple(u, m), NEW v, NEW n, Tuple(v, n) PROVE Join(u \o v, u, m, v, n)
<1>0. m \in Nat /\ n \in Nat /\ u = [i \in 1 .. m |-> u[i]] /\ v = [i \in 1 .. n |-> v[i]]
  BY Zenon DEF Tuple
<1> DEFINE S == {u[i] : i \in 1 .. m} \union {v[i] : i \in 1 .. n}
<1>1. u \in [1 .. m -> S]
  <2>1. \A i \in 1 .. m : u[i] \in S
    OBVIOUS
  <2> HIDE DEF S
  <2> QED
    BY <1>0, <2>1
<1>2. v \in [1 .. n -> S]
  <2>1. \A i \in 1 .. n : v[i] \in S
    OBVIOUS
  <2> HIDE DEF S
  <2> QED
    BY <1>0, <2>1
<1> HIDE DEF S
<1>3. u \in Seq(S) /\ v \in Seq(S) /\ Len(u) = m /\ Len(v) = n
  BY <1>0, <1>1, <1>2
<1>4. u \o v \in Seq(S) /\ Len(u \o v) = m + n
  BY <1>0, <1>3
<1>5. u \o v = [i \in 1 .. m + n |-> (u \o v)[i]]
  BY <1>0, <1>4
<1>6. \A i \in 1 .. m : (u \o v)[i] = u[i]
  BY <1>0, <1>3
<1>7. \A i \in m + 1 .. m + n : (u \o v)[i] = v[i - m]
  BY <1>0, <1>3
<1> QED
  BY <1>5, <1>6, <1>7, Zenon DEF Join

\* Byte z from byte x of a sector is byte y of the sector a further on.
Ahead(x, z, a, y) == x + z = SS * a + y

\* The byte z further on is in the same cluster when its sector is.
LEMMA Offset ==
    ASSUME NEW p \in Nat, NEW d, NEW k, NEW x, At(p, d, k, x), NEW z \in Nat, NEW a \in Nat, NEW y \in Bytes,
           Ahead(x, z, a, y), NEW e, e = p + z, NEW j \in 0 .. csize - 1, j = k + a
    PROVE  At(e, d, j, y)
<1>1. d \in Nat /\ k \in Nat /\ x \in Nat /\ y \in Nat /\ p = bcs * d + (SS * k + x)
  BY Units DEF At, Bytes
<1>2. PICK u \in Nat, v \in Nat, w \in Nat, g \in Nat : u = SS * k /\ v = SS * a /\ w = bcs * d /\ g = SS * j
  BY <1>1, Units
<1>3. g = u + v
  BY <1>1, <1>2, Units
<1>4. p = w + (u + x) /\ x + z = v + y
  BY <1>1, <1>2, Zenon DEF Ahead
<1>5. e = w + (g + y)
  <2>1. x \in Nat /\ y \in Nat
    BY <1>1
  <2> QED
    BY <2>1, <1>3, <1>4
<1>6. e = bcs * d + (SS * j + y)
  BY <1>2, <1>5, Zenon
<1> QED
  BY <1>1, <1>6, Zenon DEF At, Bytes

\* What the arithmetic below needs of the state.
LEMMA DataFacts ==
    ASSUME FitInv, PlaceInv, DataInv
    PROVE  /\ fil.fptr \in Nat /\ Room(chain) \in Nat /\ chain \in Chains
           /\ Len(content) \in Nat /\ Len(content) <= Room(chain)
<1>1. content \in Seq(Nat) /\ fil.fptr \in Nat
  BY DEF DataInv, FitInv, Fits
<1> QED
  BY <1>1, Facts, HoldsRoom

\* Byte p is z bytes from b, which At places, and y bytes into sector j of its cluster.
Reached(b, d, k, x, z, a, y, p, j) ==
    /\ b \in Nat /\ At(b, d, k, x) /\ z \in Nat /\ a \in Nat /\ y \in Bytes
    /\ Ahead(x, z, a, y) /\ p = b + z /\ j \in 0 .. csize - 1 /\ j = k + a

\* The sector and the byte in it that a pointer z bytes on has.
LEMMA AheadAt ==
    ASSUME NEW b, NEW d, NEW k, NEW x, NEW z, NEW a, NEW y, NEW p, NEW j, Reached(b, d, k, x, z, a, y, p, j), NEW q
    PROVE  p \in Nat /\ SectorOf(q, p) = <<q[d + 1], j>> /\ p % SS = y
<1>0. /\ b \in Nat /\ At(b, d, k, x) /\ z \in Nat /\ a \in Nat /\ y \in Bytes
      /\ Ahead(x, z, a, y) /\ p = b + z /\ j \in 0 .. csize - 1 /\ j = k + a
  BY Zenon DEF Reached
<1>1. At(p, d, j, y)
  BY <1>0, Offset
<1>2. p \in Nat
  BY <1>0
<1>3. SectorOf(q, p) = <<q[d + 1], j>>
  BY <1>1, <1>2, Terms
<1>4. p % SS = y
  BY <1>1, <1>2, Terms
<1> QED
  BY <1>2, <1>3, <1>4

\* From the start of a sector.
LEMMA AheadZero ==
    ASSUME NEW z \in Nat, NEW a, NEW y, z = SS * a + y, NEW x, x = 0 PROVE Ahead(x, z, a, y)
<1>1. 0 + z = z
  OBVIOUS
<1> QED
  BY <1>1, Zenon DEF Ahead

\* A direct transfer ends with the cluster at the latest.
LEMMA DirectRoom ==
    ASSUME NEW f, f.fptr \in Nat, NEW d, NEW k, NEW x, At(f.fptr, d, k, x), NEW m \in Nat
    PROVE  Direct(f, m) \in 0 .. csize - k
<1>1. (f.fptr \div SS) % csize = k /\ k \in 0 .. csize - 1
  BY Terms DEF At
<1>2. m \div SS \in Nat
  BY Units, DivMod
<1>3. Direct(f, m) = Min2(m \div SS, csize - k)
  BY <1>1, Zenon DEF Direct
<1> QED
  BY <1>1, <1>2, <1>3, Units DEF Min2

\* A byte before the end of c sectors is in one of them.
LEMMA Sooner == ASSUME NEW a \in Nat, NEW y \in Nat, NEW c \in Nat, SS * a + y < SS * c PROVE a < c
<1>1. CASE c <= a
  <2>1. SS * c <= SS * a /\ SS * a \in Nat /\ SS * c \in Nat
    BY <1>1, Units
  <2>2. PICK u \in Nat, v \in Nat : u = SS * a /\ v = SS * c
    BY <2>1
  <2>3. v <= u /\ u + y < v
    BY <2>1, <2>2
  <2> QED
    BY <2>3
<1> QED
  BY <1>1
\* Byte z of the whole sectors that a turn moves.
InWhole(f, m, d, k, x, z) ==
    f.fptr \in Nat /\ At(f.fptr, d, k, x) /\ x = 0 /\ m \in Nat /\ z \in Nat /\ z < SS * Direct(f, m)

\* Each byte of a direct transfer is in one of its sectors.
LEMMA Whole ==
    ASSUME NEW f, NEW m, NEW d, NEW k, NEW x, NEW z, InWhole(f, m, d, k, x, z)
    PROVE  \E a \in Nat, y \in Bytes, j \in 0 .. csize - 1 :
              a = z \div SS /\ y = z % SS /\ Ahead(x, z, a, y) /\ j = k + a /\ a < Direct(f, m)
<1>0. f.fptr \in Nat /\ At(f.fptr, d, k, x) /\ x = 0 /\ m \in Nat /\ z \in Nat /\ z < SS * Direct(f, m)
  BY Zenon DEF InWhole
<1>1. PICK c \in 0 .. csize - k : c = Direct(f, m)
  BY <1>0, DirectRoom, Zenon
<1>2. PICK a \in Nat, y \in Nat : a = z \div SS /\ y = z % SS /\ y < SS /\ z = SS * a + y
  BY <1>0, Units, DivMod, Zenon
<1>3. z = SS * a + y
  BY <1>2, Zenon
<1>4. Ahead(x, z, a, y)
  BY <1>0, <1>3, AheadZero, Zenon
<1>5. k \in 0 .. csize - 1 /\ y \in Bytes /\ c \in Nat
  <2>1. At(f.fptr, d, k, x)
    BY <1>0
  <2> QED
    BY <1>2, <2>1, Units DEF At, Bytes
<1>6. SS * a + y < SS * c
  BY <1>0, <1>1, <1>3, Zenon
<1>7. a < c
  BY <1>5, <1>6, Sooner, Zenon
<1>8. k + a \in 0 .. csize - 1
  BY <1>5, <1>7, Units
<1> QED
  BY <1>1, <1>2, <1>4, <1>5, <1>7, <1>8

\* Writing the buffer back and filling it with another sector loses nothing.
SameBuffer(f, g) == g.dirty = f.dirty /\ g.sect = f.sect /\ g.buf = f.buf
Loaded(f, d, g, e, s) ==
    \/ e = d /\ SameBuffer(f, g)
    \/ e = WrittenBack(f, d) /\ g.dirty = FALSE /\ g.sect = s /\ g.buf = WrittenBack(f, d)[s]
LEMMA LoadKept ==
    ASSUME NEW q, NEW t, NEW f, NEW d, Kept(f, q, d, t), NEW g, NEW e, NEW s, Loaded(f, d, g, e, s)
    PROVE  Kept(g, q, e, t) /\ WrittenBack(g, e) = WrittenBack(f, d)
<1>1. CASE e = d /\ g.dirty = f.dirty /\ g.sect = f.sect /\ g.buf = f.buf
  <2>1. WrittenBack(g, e) = WrittenBack(f, d)
    BY <1>1, Zenon DEF WrittenBack
  <2> QED
    BY <1>1, <2>1, Zenon DEF Kept
<1>2. CASE e = WrittenBack(f, d) /\ g.dirty = FALSE /\ g.sect = s /\ g.buf = WrittenBack(f, d)[s]
  <2>1. WrittenBack(g, e) = e
    BY <1>2 DEF WrittenBack
  <2>2. Kept(g, q, e, t)
    BY <1>2, <2>1, Zenon DEF Kept
  <2> QED
    BY <1>2, <2>1, <2>2, Zenon
<1> QED
  BY <1>1, <1>2, Zenon DEF Loaded, SameBuffer

\* Byte z that a turn of f_read hands out is what the file holds z bytes from its pointer.
Due(z, p) == p = fil.fptr + z /\ p < Len(content) /\ content[p + 1] # 0
LEMMA WholeOut ==
    ASSUME FitInv, PlaceInv, DataInv, NEW d, NEW k, NEW x, NEW m, NEW z, InWhole(fil, m, d, k, x, z),
           NEW p, Due(z, p), NEW f, SameBuffer(fil, f)
    PROVE  SectorRead(f, <<chain[d + 1], k + z \div SS>>)[z % SS] = content[p + 1]
<1>1. /\ fil.fptr \in Nat /\ Room(chain) \in Nat /\ chain \in Chains
      /\ Len(content) \in Nat /\ Len(content) <= Room(chain)
  BY DataFacts, Zenon
<1>2. PICK a \in Nat, y \in Bytes, j \in 0 .. csize - 1 :
              a = z \div SS /\ y = z % SS /\ Ahead(x, z, a, y) /\ j = k + a
  BY Whole
<1>3. j = k + z \div SS
  BY <1>2, Zenon
<1>a. Reached(fil.fptr, d, k, x, z, a, y, p, j)
  BY <1>1, <1>2, Zenon DEF Reached, InWhole, Due
<1>4. p \in Nat /\ SectorOf(chain, p) = <<chain[d + 1], j>> /\ p % SS = y
  BY <1>a, AheadAt
<1>5. p \in 0 .. Len(content) - 1
  <2>1. p \in Nat /\ Len(content) \in Nat
    BY <1>1, <1>4
  <2>2. p < Len(content)
    BY DEF Due
  <2> QED
    BY <2>1, <2>2
<1>6. p < Room(chain)
  <2>1. p \in Nat /\ Len(content) \in Nat /\ Room(chain) \in Nat /\ Len(content) <= Room(chain)
    BY <1>1, <1>4, Zenon
  <2>2. p < Len(content)
    BY DEF Due
  <2> QED
    BY <2>1, <2>2
<1>7. PICK s \in Sectors : s = SectorOf(chain, p)
  BY <1>1, <1>4, <1>6, InSector
<1>8. WrittenBack(fil, disk)[s][y] = content[p + 1]
  BY <1>4, <1>5, <1>7, Zenon DEF Kept, DataInv, Due
<1>9. SectorRead(f, s) = WrittenBack(fil, disk)[s]
  <2>1. Buffered(fil, chain) /\ DOMAIN disk = Sectors
    BY Facts
  <2>2. /\ fil.dirty /\ fil.sect = s => WrittenBack(fil, disk)[s] = fil.buf
        /\ ~(fil.dirty /\ fil.sect = s) => WrittenBack(fil, disk)[s] = disk[s]
    BY <2>1, BackAt
  <2> QED
    BY <2>2, Zenon DEF SectorRead, SameBuffer
<1> QED
  BY <1>2, <1>3, <1>4, <1>7, <1>8, <1>9, Zenon

\* Byte z of a turn that reads from the buffer.
InPart(g, d, k, x, z, y) ==
    /\ At(fil.fptr, d, k, x) /\ z \in Nat /\ y \in Bytes /\ y = x + z
    /\ g.sect = <<chain[d + 1], k>>

\* What such a turn hands out is what the file holds.
LEMMA PartOut ==
    ASSUME FitInv, PlaceInv, DataInv, NEW g, NEW e, Kept(g, chain, e, content),
           NEW d, NEW k, NEW x, NEW z, NEW y, InPart(g, d, k, x, z, y), NEW p, Due(z, p)
    PROVE  g.buf[y] = content[p + 1]
<1>0. /\ At(fil.fptr, d, k, x) /\ z \in Nat /\ y \in Bytes /\ y = x + z
      /\ g.sect = <<chain[d + 1], k>>
  BY Zenon DEF InPart
<1>1. fil.fptr \in Nat /\ Len(content) \in Nat
  BY DataFacts, Zenon
<1>2. x \in Nat /\ k \in 0 .. csize - 1
  BY <1>0, Units DEF At
<1>4. Ahead(x, z, 0, y)
  <2>1. SS * 0 + y = y
    BY <1>0, Units DEF Bytes
  <2> QED
    BY <1>0, <2>1, Zenon DEF Ahead
<1>5. k = k + 0
  BY <1>2
<1>6. p \in Nat /\ SectorOf(chain, p) = <<chain[d + 1], k>> /\ p % SS = y
  <2>1. 0 \in Nat
    OBVIOUS
  <2>2. Reached(fil.fptr, d, k, x, z, 0, y, p, k)
    BY <1>0, <1>1, <1>2, <1>4, <1>5, <2>1, Zenon DEF Reached, Due
  <2> QED
    BY <2>2, AheadAt
<1>7. p \in 0 .. Len(content) - 1
  BY <1>1, <1>6 DEF Due
<1> QED
  BY <1>0, <1>6, <1>7, Zenon DEF Kept, Due

\* A turn of f_read, direct or through the buffer.
LEMMA ReadData == ASSUME FitInv, PlaceInv, DataInv, ReadTurn PROVE DataInv'
<1> DEFINE f == IF Entering(fil) THEN [fil EXCEPT !.clust = NextCluster(fil)] ELSE fil
           s == AtPointer(f)
           whole == f.fptr % SS = 0 /\ call.n >= SS
           load == f.fptr % SS = 0 /\ ~whole /\ f.sect # s
           h == [f EXCEPT !.dirty = FALSE, !.sect = s, !.buf = WrittenBack(f, disk)[s]]
           g == IF load THEN h ELSE f
           n == IF whole THEN SS * Direct(f, call.n) ELSE Min2(SS - (f.fptr % SS), call.n)
           O(i) == IF whole THEN SectorRead(f, <<f.clust, s[2] + (i - 1) \div SS>>)[(i - 1) % SS]
                   ELSE g.buf[(f.fptr % SS) + i - 1]
           out == [i \in 1 .. n |-> O(i)]
<1>1. /\ fil' = [g EXCEPT !.fptr = @ + n] /\ call.op = "read" /\ call.n > 0
      /\ call' = [call EXCEPT !.n = @ - n] /\ UNCHANGED <<chain, size, content, calls>>
      /\ disk' = IF load THEN WrittenBack(f, disk) ELSE disk
      /\ got' = [got EXCEPT !.bytes = @ \o out]
  BY DEF ReadTurn, bounds
<1>0. call.op = "read" /\ call.n > 0
  BY <1>1
<1>2. /\ Shape(fil) /\ fil.fptr \in Nat /\ fil.open
      /\ call.n \in Nat \ {0} /\ call = [op |-> call.op, n |-> call.n]
  BY <1>0 DEF FitInv, Fits
<1>3. PICK d \in Nat, k \in 0 .. csize - 1, x \in 0 .. SS - 1 :
              /\ At(fil.fptr, d, k, x) /\ Lies(fil, chain, d, k, x) /\ d < Len(chain)
              /\ (IF Entering(fil) THEN NextCluster(fil) ELSE fil.clust) = chain[d + 1]
  BY <1>0, ReadWhere, Zenon
<1>x. x \in Nat /\ x < SS
  BY <1>3, Units
<1>4. fil.fptr % SS = x /\ (fil.fptr \div SS) % csize = k
  BY <1>2, <1>3, Terms
<1>5. f.clust = chain[d + 1]
  BY <1>2, <1>3 DEF Shape, Closed
<1>6. /\ Shape(f) /\ f.fptr = fil.fptr /\ f.objsize = fil.objsize /\ f.open = fil.open
      /\ f.modified = fil.modified /\ f.dirty = fil.dirty /\ f.sect = fil.sect /\ f.buf = fil.buf
  BY <1>2 DEF Shape, Closed
<1>7. s = <<chain[d + 1], k>> /\ s[2] = k
  BY <1>4, <1>5, <1>6, Zenon DEF AtPointer
<1> HIDE DEF f
<1>8. /\ h.fptr = f.fptr /\ h.objsize = f.objsize /\ h.open = f.open /\ Shape(h) /\ h.modified = f.modified
      /\ h.dirty = FALSE /\ h.sect = s /\ h.buf = WrittenBack(f, disk)[s]
  BY <1>6 DEF Shape, Closed
<1>9. (whole <=> x = 0 /\ call.n >= SS) /\ (load <=> x = 0 /\ ~(call.n >= SS) /\ f.sect # s)
  BY <1>4, <1>6, Zenon
<1>10. n = IF whole THEN SS * Direct(fil, call.n) ELSE Min2(SS - x, call.n)
  BY <1>4, <1>6, Zenon DEF Direct
<1>11. n \in Nat
  BY <1>2, <1>10, DirectFits, PartFits, <1>4
<1> HIDE DEF s, h, whole, load, n
<1>13. /\ g.fptr = f.fptr /\ g.objsize = f.objsize /\ g.open = f.open /\ Shape(g) /\ g.modified = f.modified
       /\ Loaded(f, disk, g, disk', s) /\ (fil.dirty = FALSE => g.dirty = FALSE)
  BY <1>1, <1>6, <1>8 DEF Loaded, SameBuffer
<1>14. ~whole => g.sect = s
  <2>1. x # 0 => f.sect = s
    BY <1>3, <1>6, <1>7 DEF Lies
  <2>2. x # 0 => g = f
    BY <1>9
  <2>3. x = 0 /\ ~whole => g.sect = s
    BY <1>8, <1>9
  <2> QED
    BY <2>1, <2>2, <2>3
<1> HIDE DEF g
<1>12. ASSUME NEW i PROVE O(i) = IF whole THEN SectorRead(f, <<chain[d + 1], k + (i - 1) \div SS>>)[(i - 1) % SS]
                     ELSE g.buf[x + i - 1]
  <2>1. f.fptr % SS = x
    BY <1>4, <1>6, Zenon
  <2> QED
    BY <1>5, <1>7, <2>1, Zenon
<1> HIDE DEF O
<1>15. /\ fil'.fptr = fil.fptr + n /\ fil'.objsize = fil.objsize /\ fil'.open = fil.open
       /\ fil'.modified = fil.modified /\ fil'.sect = g.sect /\ fil'.dirty = g.dirty /\ fil'.buf = g.buf
  BY <1>1, <1>6, <1>13 DEF Shape, Closed
<1>16. Kept(fil, chain, disk, content) /\ content \in Seq(Nat) /\ Len(content) = fil.objsize /\ calls \in Nat
  BY <1>2 DEF DataInv
<1>17. Kept(f, chain, disk, content)
  BY <1>6, <1>16, Zenon DEF Kept, WrittenBack
<1>18. Kept(g, chain, disk', content)
  BY <1>13, <1>17, LoadKept, Zenon
<1>19. Kept(fil', chain, disk', content)
  BY <1>15, <1>18, Zenon DEF Kept, WrittenBack
<1>20. ASSUME NEW i \in 1 .. n, NEW z \in Nat, i = z + 1, NEW p, Due(z, p)
       PROVE  O(i) = content[p + 1]
  <2>1. i - 1 = z /\ z < n /\ x + i - 1 = x + z
    BY <1>x, <1>11, <1>20
  <2>2. CASE whole
    <3>1. z < SS * Direct(fil, call.n) /\ x = 0 /\ call.n \in Nat
      BY <1>2, <1>9, <1>10, <2>1, <2>2, Zenon
    <3>2. InWhole(fil, call.n, d, k, x, z)
      BY <1>2, <1>3, <1>20, <3>1, Zenon DEF InWhole
    <3>3. SectorRead(f, <<chain[d + 1], k + z \div SS>>)[z % SS] = content[p + 1]
      <4>1. SameBuffer(fil, f)
        BY <1>6 DEF SameBuffer
      <4> QED
        BY <1>20, <3>2, <4>1, WholeOut
    <3> QED
      BY <1>12, <2>1, <2>2, <3>3, Zenon
  <2>3. CASE ~whole
    <3>1. PICK y \in Bytes : y = x + z
      <4>1. n = Min2(SS - x, call.n) /\ call.n \in Nat
        BY <1>2, <1>10, <2>3
      <4>2. x + z < SS
        BY <1>x, <2>1, <4>1, Units DEF Min2
      <4> QED
        BY <1>x, <4>2, Units DEF Bytes
    <3>2. g.sect = <<chain[d + 1], k>>
      BY <1>7, <1>14, <2>3
    <3>3. g.buf[y] = content[p + 1]
      <4>1. InPart(g, d, k, x, z, y)
        BY <1>3, <1>20, <3>1, <3>2, Zenon DEF InPart
      <4> QED
        BY <1>18, <1>20, <4>1, PartOut
    <3> QED
      BY <1>12, <2>1, <2>3, <3>1, <3>3, Zenon
  <2> QED
    BY <2>2, <2>3
<1>21. PICK m \in Nat : got.bytes = [i \in 1 .. m |-> got.bytes[i]] /\ got.from + m = fil.fptr
  BY <1>0 DEF DataInv
<1>22. got.from \in Nat /\ ReadsWritten /\ got = [from |-> got.from, bytes |-> got.bytes]
  BY <1>0 DEF DataInv
<1>23. got'.from = got.from /\ got'.bytes = got.bytes \o out /\ got' = [from |-> got'.from, bytes |-> got'.bytes]
  BY <1>1, <1>22
<1>24. /\ got'.bytes = [i \in 1 .. m + n |-> got'.bytes[i]]
       /\ \A i \in 1 .. m : got'.bytes[i] = got.bytes[i]
       /\ \A i \in m + 1 .. m + n : got'.bytes[i] = out[i - m]
  <2>1. Tuple(out, n)
    BY <1>11 DEF Tuple
  <2>2. Tuple(got.bytes, m)
    BY <1>21, Zenon DEF Tuple
  <2> HIDE DEF out
  <2>3. Join(got.bytes \o out, got.bytes, m, out, n)
    BY <2>1, <2>2, Joined, Zenon
  <2>4. Join(got'.bytes, got.bytes, m, out, n)
    BY <1>23, <2>3, Zenon
  <2> QED
    BY <2>4, Zenon DEF Join
<1>25. m + n \in Nat /\ got'.from + (m + n) = fil'.fptr /\ got'.from \in Nat
  BY <1>2, <1>11, <1>15, <1>21, <1>22, <1>23
<1>26. ReadsWritten'
  <2> SUFFICES ASSUME NEW i \in 1 .. m + n, NEW p, p = got.from + i - 1, p < Len(content), content[p + 1] # 0
               PROVE  got'.bytes[i] = content[got.from + i]
    BY <1>1, <1>22, <1>23, <1>24 DEF ReadsWritten, Written
  <2>0. p + 1 = got.from + i /\ p \in Nat
    BY <1>22
  <2>1. CASE i <= m
    <3>1. got.bytes[i] = content[got.from + i]
      BY <1>0, <1>21, <1>22, <2>1, <2>0 DEF ReadsWritten, Written
    <3> QED
      BY <1>24, <2>1, <3>1
  <2>2. CASE i > m
    <3>1. PICK z \in Nat : z = i - m - 1
      BY <2>2
    <3>2. PICK j \in 1 .. n : j = z + 1 /\ j = i - m
      BY <1>11, <2>2, <3>1
    <3>3. p = fil.fptr + z
      BY <1>2, <1>21, <1>22, <3>1
    <3>4. O(j) = content[p + 1]
      BY <1>20, <3>2, <3>3 DEF Due
    <3>5. out[j] = O(j)
      OBVIOUS
    <3>6. got'.bytes[i] = out[j]
      <4>1. i \in m + 1 .. m + n
        BY <1>11, <2>2
      <4> QED
        BY <1>24, <3>2, <4>1, Zenon
    <3> QED
      BY <2>0, <3>4, <3>5, <3>6, Zenon
  <2> QED
    BY <2>1, <2>2
<1>27. fil'.open /\ (~fil'.modified => fil'.dirty = FALSE /\ size = fil'.objsize)
  <2>1. ~fil.modified => fil.dirty = FALSE /\ size = fil.objsize
    BY <1>1, <1>2 DEF DataInv
  <2> QED
    BY <1>2, <1>6, <1>13, <1>15, <2>1
<1> QED
  BY <1>0, <1>1, <1>15, <1>16, <1>19, <1>23, <1>24, <1>25, <1>26, <1>27 DEF DataInv

\* The history of a file that n bytes are written to.
LEMMA PutFacts ==
    ASSUME content \in Seq(Nat), calls \in Nat, NEW p \in Nat, NEW n \in Nat
    PROVE  /\ Put(p, n) \in Seq(Nat) /\ Len(Put(p, n)) = Max2(Len(content), p + n)
           /\ \A b \in 0 .. Len(Put(p, n)) - 1 :
                  Put(p, n)[b + 1] = IF p <= b /\ b < p + n THEN calls
                                     ELSE IF b < Len(content) THEN content[b + 1] ELSE 0
<1>1. PICK l \in Nat : l = Max2(Len(content), p + n)
  BY DEF Max2
<1>2. Put(p, n) = [i \in 1 .. l |-> IF i > p /\ i <= p + n THEN calls ELSE IF i <= Len(content) THEN content[i] ELSE 0]
  BY <1>1 DEF Put
<1>3. \A i \in 1 .. l : (IF i > p /\ i <= p + n THEN calls ELSE IF i <= Len(content) THEN content[i] ELSE 0) \in Nat
  OBVIOUS
<1>4. Put(p, n) \in [1 .. l -> Nat]
  BY <1>2, <1>3
<1>5. Put(p, n) \in Seq(Nat) /\ Len(Put(p, n)) = l
  BY <1>4
<1>6. \A b \in 0 .. l - 1 : Put(p, n)[b + 1] = IF p <= b /\ b < p + n THEN calls
                                               ELSE IF b < Len(content) THEN content[b + 1] ELSE 0
  BY <1>2
<1> QED
  BY <1>1, <1>5, <1>6, Zenon

\* A byte the file had is where it was when f_write has stretched the chain.
LEMMA OldByte ==
    ASSUME FitInv, PlaceInv, DataInv, NEW q \in Chains, Entered(fil, q),
           NEW b \in Nat, b < Len(content), content[b + 1] # 0
    PROVE  \E t \in Sectors : /\ t = SectorOf(q, b)
                              /\ WrittenBack(fil, disk)[t][b % SS] = content[b + 1]
                              /\ fil.sect = t => fil.buf[b % SS] = content[b + 1]
<1>1. /\ Room(chain) \in Nat /\ chain \in Chains /\ Len(content) \in Nat /\ Len(content) <= Room(chain)
  BY DataFacts, Zenon
<1>2. b < Room(chain) /\ b \in 0 .. Len(content) - 1
  BY <1>1
<1>3. PICK t \in Sectors : t = SectorOf(chain, b)
  BY <1>1, <1>2, InSector
<1>4. /\ Len(chain) \in Nat /\ DOMAIN chain = 1 .. Len(chain) /\ Len(q) \in Nat /\ Room(q) \in Nat
      /\ Len(chain) <= Len(q) /\ \A i \in 1 .. Len(chain) : q[i] = chain[i]
  BY <1>1, ChainFacts, EnteredChain
<1>5. b < Room(q)
  <2>1. Room(chain) <= Room(q)
    BY <1>4, Longer DEF Room
  <2> QED
    BY <1>1, <1>2, <1>4, <2>1
<1>6. SectorOf(q, b) = SectorOf(chain, b)
  <2>1. \A i \in DOMAIN chain \intersect DOMAIN q : chain[i] = q[i]
    BY <1>4
  <2> QED
    BY <1>1, <1>2, <1>5, <2>1, SameSector
<1>7. /\ WrittenBack(fil, disk)[t][b % SS] = content[b + 1]
      /\ fil.sect = t => fil.buf[b % SS] = content[b + 1]
  BY <1>2, <1>3, Zenon DEF Kept, DataInv
<1> QED
  BY <1>3, <1>6, <1>7, Zenon

\* How far a byte in one of the sectors of the pointer's cluster is from the pointer.
Apart(p, k, x, b, j, y) == b + (SS * k + x) = p + (SS * j + y)
LEMMA Beside ==
    ASSUME NEW q \in Chains, OneToOne(q), NEW p \in Nat, NEW d, NEW k, NEW x, At(p, d, k, x), d < Len(q),
           NEW b \in Nat, b < Room(q), NEW j, SectorOf(q, b) = <<q[d + 1], j>>
    PROVE  \E y \in Bytes : y = b % SS /\ Apart(p, k, x, b, j, y) /\ j \in 0 .. csize - 1
<1>1. d \in Nat /\ k \in Nat /\ x \in Nat /\ p = bcs * d + (SS * k + x)
  BY Units DEF At
<1>b. x \in Nat
  BY <1>1
<1>2. j \in 0 .. csize - 1
  BY InSector
<1>3. PICK y \in Bytes : y = b % SS /\ b = bcs * d + (SS * j + y)
  BY <1>1, <1>2, SectorBytes
<1>a. d \in Nat /\ k \in Nat /\ j \in Nat
  BY <1>1, <1>2
<1>4. PICK u \in Nat, v \in Nat, w \in Nat : u = SS * k /\ v = SS * j /\ w = bcs * d
  BY <1>a, Units
<1>5. p = w + (u + x) /\ b = w + (v + y)
  BY <1>1, <1>3, <1>4, Zenon
<1>6. b + (u + x) = p + (v + y)
  <2>1. y \in Nat
    BY Units DEF Bytes
  <2> QED
    BY <1>b, <1>5, <2>1
<1>7. Apart(p, k, x, b, j, y)
  BY <1>4, <1>6, Zenon DEF Apart
<1> QED
  BY <1>2, <1>3, <1>7, Zenon

\* The sectors that f_write moves past the buffer hold the bytes of its turn, and no other.
LEMMA InRun ==
    ASSUME NEW p \in Nat, NEW k \in Nat, NEW c \in Nat, NEW b \in Nat, NEW j \in k .. k + c - 1, NEW y \in Bytes,
           Apart(p, k, 0, b, j, y)
    PROVE  p <= b /\ b < p + SS * c
<1>1. PICK a \in Nat : a = j - k /\ j = k + a /\ a + 1 <= c
  OBVIOUS
<1>2. SS * j = SS * k + SS * a /\ SS * (a + 1) = SS * a + SS /\ SS * (a + 1) <= SS * c
  BY <1>1, Units
<1>3. PICK u \in Nat, v \in Nat, w \in Nat, g \in Nat : u = SS * k /\ v = SS * j /\ w = SS * a /\ g = SS * c
  BY <1>1, Units
<1>4. v = u + w /\ w + SS <= g
  <2>1. SS * (a + 1) = w + SS /\ SS * (a + 1) <= g /\ v = u + w
    BY <1>2, <1>3, Zenon
  <2> QED
    BY <2>1, Zenon
<1>5. b + (u + 0) = p + (v + y)
  BY <1>3, Zenon DEF Apart
<1>6. y \in Nat /\ y < SS /\ SS \in Nat
  BY Units DEF Bytes
<1>7. p <= b /\ b < p + g
  BY <1>4, <1>5, <1>6
<1> QED
  BY <1>3, <1>7, Zenon

\* The sectors of a direct transfer, and the drive and the buffer that f_write leaves after one.
Run(q, d, k, c) == {t \in Sectors : t[1] = q[d + 1] /\ t[2] \in k .. k + c - 1}
Straight(q, d, k, c, e, g) ==
    /\ e = [t \in Sectors |-> IF t \in Run(q, d, k, c) THEN [y \in Bytes |-> calls] ELSE WrittenBack(fil, disk)[t]]
    /\ g.dirty = FALSE /\ g.sect = fil.sect
    /\ g.buf = IF fil.sect[1] = q[d + 1] /\ fil.sect[2] \in k .. k + c - 1 THEN [y \in Bytes |-> calls] ELSE fil.buf

\* Its sectors hold the new bytes, and so does the buffer if it holds one of them.
LEMMA WholeNew ==
    ASSUME FitInv, NEW q \in Chains, NEW d, NEW k, At(fil.fptr, d, k, 0), NEW m \in Nat,
           NEW c, c = Direct(fil, m), NEW e, NEW g, Straight(q, d, k, c, e, g),
           NEW b \in Nat, b < Room(q), fil.fptr <= b, b < fil.fptr + SS * c
    PROVE  \E t \in Sectors : /\ t = SectorOf(q, b) /\ e[t][b % SS] = calls
                              /\ g.sect = t => g.buf[b % SS] = calls
<1>1. fil.fptr \in Nat
  BY DEF FitInv, Fits
<1>2. k \in 0 .. csize - 1 /\ c \in Nat
  <2>1. c \in 0 .. csize - k
    BY <1>1, DirectRoom
  <2> QED
    BY <2>1, Units DEF At
<1>3. SS * c \in Nat
  BY <1>2, Units
<1>4. PICK w \in Nat : w = SS * c /\ b < fil.fptr + w
  BY <1>3
<1>5. PICK z \in Nat : z = b - fil.fptr /\ b = fil.fptr + z /\ z < w
  BY <1>1, <1>4
<1>6. z < SS * Direct(fil, m)
  BY <1>4, <1>5, Zenon
<1>7. InWhole(fil, m, d, k, 0, z)
  BY <1>1, <1>6, Zenon DEF InWhole
<1>8. PICK a \in Nat, y \in Bytes, j \in 0 .. csize - 1 : Ahead(0, z, a, y) /\ j = k + a /\ a < c
  BY <1>7, Whole
<1>9. Reached(fil.fptr, d, k, 0, z, a, y, b, j)
  BY <1>1, <1>5, <1>8, Zenon DEF Reached
<1>10. SectorOf(q, b) = <<q[d + 1], j>> /\ b % SS = y
  BY <1>9, AheadAt
<1>11. PICK t \in Sectors : t = SectorOf(q, b)
  BY InSector
<1>12. t[1] = q[d + 1] /\ t[2] = j /\ j \in k .. k + c - 1
  BY <1>2, <1>8, <1>10, <1>11
<1>13. t \in Run(q, d, k, c)
  BY <1>12, Zenon DEF Run
<1>14. e[t][y] = calls
  BY <1>13 DEF Straight
<1>15. ASSUME g.sect = t PROVE g.buf[y] = calls
  <2>1. g.buf = [u \in Bytes |-> calls]
    BY <1>12, <1>15, Zenon DEF Straight
  <2> QED
    BY <2>1
<1> QED
  BY <1>10, <1>11, <1>14, <1>15, Zenon

\* A byte of the file that it does not write is in none of its sectors.
LEMMA WholeOld ==
    ASSUME FitInv, PlaceInv, DataInv, NEW q \in Chains, Entered(fil, q), OneToOne(q),
           NEW d, NEW k, At(fil.fptr, d, k, 0), d < Len(q), NEW c \in Nat,
           NEW e, NEW g, Straight(q, d, k, c, e, g),
           NEW b \in Nat, b < Room(q), ~(fil.fptr <= b /\ b < fil.fptr + SS * c),
           b < Len(content), content[b + 1] # 0
    PROVE  \E t \in Sectors : /\ t = SectorOf(q, b) /\ e[t][b % SS] = content[b + 1]
                              /\ g.sect = t => g.buf[b % SS] = content[b + 1]
<1>1. PICK t \in Sectors : /\ t = SectorOf(q, b)
                           /\ WrittenBack(fil, disk)[t][b % SS] = content[b + 1]
                           /\ fil.sect = t => fil.buf[b % SS] = content[b + 1]
  BY OldByte
<1>2. ~(t[1] = q[d + 1] /\ t[2] \in k .. k + c - 1)
  <2> SUFFICES ASSUME t[1] = q[d + 1], t[2] \in k .. k + c - 1 PROVE FALSE
    OBVIOUS
  <2>1. PICK j \in k .. k + c - 1 : j = t[2]
    OBVIOUS
  <2>2. SectorOf(q, b) = <<q[d + 1], j>>
    <3>1. t = <<t[1], t[2]>>
      BY DEF Sectors
    <3> QED
      BY <1>1, <2>1, <3>1, Zenon
  <2>3. fil.fptr \in Nat /\ k \in Nat
    BY Units DEF FitInv, Fits, At
  <2>4. PICK y \in Bytes : Apart(fil.fptr, k, 0, b, j, y)
    BY <2>2, <2>3, Beside
  <2> QED
    BY <2>3, <2>4, InRun
<1>3. e[t] = WrittenBack(fil, disk)[t]
  <2>1. t \notin Run(q, d, k, c)
    BY <1>2 DEF Run
  <2> QED
    BY <2>1 DEF Straight
<1>4. g.sect = t => g.buf = fil.buf
  BY <1>2, Zenon DEF Straight
<1> QED
  BY <1>1, <1>3, <1>4, Zenon DEF Straight

\* n bytes are c whole sectors.
Sized(n, c) == n = SS * c

\* The turn that moves whole sectors.
LEMMA WholeKept ==
    ASSUME FitInv, PlaceInv, DataInv, NEW q \in Chains, Entered(fil, q), OneToOne(q),
           NEW d, NEW k, At(fil.fptr, d, k, 0), d < Len(q), NEW m \in Nat, NEW c, c = Direct(fil, m),
           NEW e, NEW g, Straight(q, d, k, c, e, g),
           NEW n \in Nat, Sized(n, c), Len(Put(fil.fptr, n)) <= Room(q)
    PROVE  Kept(g, q, e, Put(fil.fptr, n))
<1>1. content \in Seq(Nat) /\ calls \in Nat /\ fil.fptr \in Nat /\ Room(q) \in Nat
  BY ChainFacts DEF DataInv, FitInv, Fits
<1>2. c \in Nat
  <2>1. c \in 0 .. csize - k /\ k \in 0 .. csize - 1
    BY <1>1, DirectRoom DEF At
  <2> QED
    BY <2>1, Units
<1>3. PICK l \in Nat : l = Len(Put(fil.fptr, n))
  BY <1>1, PutFacts
<1> SUFFICES ASSUME NEW b \in 0 .. l - 1, Put(fil.fptr, n)[b + 1] # 0
             PROVE  /\ WrittenBack(g, e)[SectorOf(q, b)][b % SS] = Put(fil.fptr, n)[b + 1]
                    /\ g.sect = SectorOf(q, b) => g.buf[b % SS] = Put(fil.fptr, n)[b + 1]
  BY <1>3, Zenon DEF Kept
<1>4. b \in Nat /\ b < Room(q)
  BY <1>1, <1>3
<1>5. WrittenBack(g, e) = e
  BY DEF WrittenBack, Straight
<1>6. Put(fil.fptr, n)[b + 1] = IF fil.fptr <= b /\ b < fil.fptr + n THEN calls
                                ELSE IF b < Len(content) THEN content[b + 1] ELSE 0
  BY <1>1, <1>3, PutFacts
<1>7. CASE fil.fptr <= b /\ b < fil.fptr + n
  <2>1. fil.fptr <= b /\ b < fil.fptr + SS * c
    BY <1>7, Zenon DEF Sized
  <2>2. \E t \in Sectors : t = SectorOf(q, b) /\ e[t][b % SS] = calls /\ (g.sect = t => g.buf[b % SS] = calls)
    BY <1>4, <2>1, WholeNew
  <2> QED
    BY <1>5, <1>6, <1>7, <2>2, Zenon
<1>8. CASE ~(fil.fptr <= b /\ b < fil.fptr + n)
  <2>1. ~(fil.fptr <= b /\ b < fil.fptr + SS * c)
    BY <1>8, Zenon DEF Sized
  <2>2. b < Len(content) /\ Put(fil.fptr, n)[b + 1] = content[b + 1] /\ content[b + 1] # 0
    BY <1>6, <1>8, Zenon
  <2>3. \E t \in Sectors : /\ t = SectorOf(q, b) /\ e[t][b % SS] = content[b + 1]
                           /\ g.sect = t => g.buf[b % SS] = content[b + 1]
    BY <1>2, <1>4, <2>1, <2>2, WholeOld
  <2> QED
    BY <1>5, <2>2, <2>3, Zenon
<1> QED
  BY <1>7, <1>8, Zenon

\* The turn that fills a part of the buffer.
Buffers(q, d, k, x, n, e, g) ==
    LET s == <<q[d + 1], k>>
        back == IF x = 0 THEN WrittenBack(fil, disk) ELSE disk IN
    /\ e = back /\ g.dirty = TRUE /\ g.sect = s
    /\ g.buf = [y \in Bytes |-> IF y \in x .. x + n - 1 THEN calls
                                ELSE IF x = 0 /\ Filled(fil, s) THEN back[s][y] ELSE fil.buf[y]]

\* The new bytes are in the buffer.
LEMMA PartNew ==
    ASSUME FitInv, NEW q \in Chains, NEW d, NEW k, NEW x, At(fil.fptr, d, k, x),
           NEW n \in Nat, x + n <= SS, NEW e, NEW g, Buffers(q, d, k, x, n, e, g),
           NEW b \in Nat, fil.fptr <= b, b < fil.fptr + n
    PROVE  SectorOf(q, b) = g.sect /\ g.buf[b % SS] = calls
<1>1. fil.fptr \in Nat /\ x \in Nat /\ k \in 0 .. csize - 1
  BY Units DEF FitInv, Fits, At
<1>2. PICK z \in Nat : z = b - fil.fptr /\ b = fil.fptr + z /\ z < n
  BY <1>1
<1>3. PICK y \in Bytes : y = x + z /\ y \in x .. x + n - 1
  BY <1>1, <1>2, Units DEF Bytes
<1>4. Ahead(x, z, 0, y)
  <2>1. SS * 0 + y = y
    BY <1>3, Units DEF Bytes
  <2> QED
    BY <1>3, <2>1, Zenon DEF Ahead
<1>5. Reached(fil.fptr, d, k, x, z, 0, y, b, k)
  <2>1. 0 \in Nat /\ k = k + 0
    BY <1>1
  <2> QED
    BY <1>1, <1>2, <1>4, <2>1, Zenon DEF Reached
<1>6. SectorOf(q, b) = <<q[d + 1], k>> /\ b % SS = y
  BY <1>5, AheadAt
<1>7. g.buf[y] = calls
  BY <1>3 DEF Buffers
<1> QED
  BY <1>6, <1>7, Zenon DEF Buffers

\* Two bytes of one sector are as far apart in the file as in the sector.
Distant(p, k, x, b, y) ==
    p \in Nat /\ k \in Nat /\ x \in Nat /\ b \in Nat /\ y \in Nat /\ Apart(p, k, x, b, k, y)
LEMMA SameDistance ==
    ASSUME NEW p, NEW k, NEW x, NEW b, NEW y, Distant(p, k, x, b, y) PROVE b + x = p + y
<1>1. p \in Nat /\ k \in Nat /\ x \in Nat /\ b \in Nat /\ y \in Nat
  BY Zenon DEF Distant
<1>2. PICK u \in Nat : u = SS * k
  BY <1>1, Units
<1>3. b + (u + x) = p + (u + y)
  BY <1>2, Zenon DEF Apart, Distant
<1> QED
  BY <1>1, <1>3

\* An old byte of that sector was in the buffer or is loaded; the others stay where they are.
LEMMA PartOld ==
    ASSUME FitInv, PlaceInv, DataInv, fil.open, NEW q \in Chains, Entered(fil, q), OneToOne(q),
           NEW d, NEW k, NEW x, At(fil.fptr, d, k, x), d < Len(q), x # 0 => fil.sect = <<q[d + 1], k>>,
           NEW n \in Nat, NEW e, NEW g, Buffers(q, d, k, x, n, e, g),
           NEW b \in Nat, b < Room(q), ~(fil.fptr <= b /\ b < fil.fptr + n),
           b < Len(content), content[b + 1] # 0
    PROVE  /\ SectorOf(q, b) = g.sect => g.buf[b % SS] = content[b + 1]
           /\ SectorOf(q, b) # g.sect => e[SectorOf(q, b)][b % SS] = content[b + 1]
<1>1. PICK t \in Sectors : /\ t = SectorOf(q, b)
                           /\ WrittenBack(fil, disk)[t][b % SS] = content[b + 1]
                           /\ fil.sect = t => fil.buf[b % SS] = content[b + 1]
  BY OldByte
<1>2. ASSUME t # g.sect PROVE e[t][b % SS] = content[b + 1]
  <2>1. CASE x = 0
    BY <1>1, <2>1, Zenon DEF Buffers
  <2>2. CASE x # 0
    <3>1. e = disk /\ fil.sect # t
      BY <1>2, <2>2, Zenon DEF Buffers
    <3>2. Buffered(fil, chain) /\ DOMAIN disk = Sectors
      BY Facts
    <3>3. WrittenBack(fil, disk)[t] = disk[t]
      BY <3>1, <3>2, BackAt
    <3> QED
      BY <1>1, <3>1, <3>3, Zenon
  <2> QED
    BY <2>1, <2>2
<1>3. ASSUME t = g.sect PROVE g.buf[b % SS] = content[b + 1]
  <2>1. t = <<q[d + 1], k>>
    BY <1>3, Zenon DEF Buffers
  <2>2. fil.fptr \in Nat /\ k \in Nat /\ x \in Nat
    BY Units DEF FitInv, Fits, At
  <2>a. SectorOf(q, b) = <<q[d + 1], k>>
    BY <1>1, <2>1, Zenon
  <2>3. PICK y \in Bytes : y = b % SS /\ Apart(fil.fptr, k, x, b, k, y)
    BY <2>2, <2>a, Beside
  <2>b. y \in Nat
    BY Units DEF Bytes
  <2>4. b + x = fil.fptr + y
    <3>1. Distant(fil.fptr, k, x, b, y)
      BY <2>2, <2>3, <2>b, Zenon DEF Distant
    <3> QED
      BY <3>1, SameDistance
  <2>5. y \notin x .. x + n - 1
    <3>1. PICK p \in Nat : p = fil.fptr
      BY <2>2, Zenon
    <3>2. b + x = p + y /\ ~(p <= b /\ b < p + n)
      BY <2>4, <3>1, Zenon
    <3>3. x \in Nat
      BY <2>2, Zenon
    <3> QED
      BY <2>b, <3>2, <3>3
  <2>6. CASE x = 0 /\ Filled(fil, t)
    <3>1. g.buf[y] = WrittenBack(fil, disk)[t][y]
      BY <2>1, <2>5, <2>6 DEF Buffers
    <3> QED
      BY <1>1, <2>3, <3>1, Zenon
  <2>7. CASE ~(x = 0 /\ Filled(fil, t))
    <3>1. g.buf[y] = fil.buf[y]
      BY <2>1, <2>5, <2>7 DEF Buffers
    <3>2. fil.sect = t
      <4> SUFFICES ASSUME fil.sect # t PROVE FALSE
        OBVIOUS
      <4>1. x = 0
        BY <2>1
      <4>2. ~(fil.fptr < fil.objsize)
        BY <2>7, <4>1, Zenon DEF Filled
      <4>3. Len(content) = fil.objsize /\ fil.objsize \in Nat
        BY DEF DataInv, FitInv, Fits
      <4> QED
        BY <2>2, <2>b, <2>4, <4>1, <4>2, <4>3
    <3> QED
      BY <1>1, <2>3, <3>1, <3>2, Zenon
  <2> QED
    BY <2>6, <2>7
<1> QED
  BY <1>1, <1>2, <1>3, Zenon

\* The turn that fills a part of the buffer keeps the file.
LEMMA PartKept ==
    ASSUME FitInv, PlaceInv, DataInv, fil.open, NEW q \in Chains, Entered(fil, q), OneToOne(q),
           NEW d, NEW k, NEW x, At(fil.fptr, d, k, x), d < Len(q), x # 0 => fil.sect = <<q[d + 1], k>>,
           NEW n \in Nat, x + n <= SS, NEW e, NEW g, Buffers(q, d, k, x, n, e, g),
           Len(Put(fil.fptr, n)) <= Room(q)
    PROVE  Kept(g, q, e, Put(fil.fptr, n))
<1>1. content \in Seq(Nat) /\ calls \in Nat /\ fil.fptr \in Nat /\ Room(q) \in Nat
  BY ChainFacts DEF DataInv, FitInv, Fits
<1>3. PICK l \in Nat : l = Len(Put(fil.fptr, n))
  BY <1>1, PutFacts
<1> SUFFICES ASSUME NEW b \in 0 .. l - 1, Put(fil.fptr, n)[b + 1] # 0
             PROVE  /\ WrittenBack(g, e)[SectorOf(q, b)][b % SS] = Put(fil.fptr, n)[b + 1]
                    /\ g.sect = SectorOf(q, b) => g.buf[b % SS] = Put(fil.fptr, n)[b + 1]
  BY <1>3, Zenon DEF Kept
<1>4. b \in Nat /\ b < Room(q)
  BY <1>1, <1>3
<1>5. /\ SectorOf(q, b) = g.sect => WrittenBack(g, e)[SectorOf(q, b)] = g.buf
      /\ SectorOf(q, b) # g.sect => WrittenBack(g, e)[SectorOf(q, b)] = e[SectorOf(q, b)]
  <2>1. PICK t \in Sectors : t = SectorOf(q, b)
    BY <1>4, InSector
  <2>2. DOMAIN e = Sectors
    BY Facts, Back DEF Buffers
  <2>3. WrittenBack(g, e) = [e EXCEPT ![g.sect] = g.buf]
    BY DEF WrittenBack, Buffers
  <2> QED
    BY <2>1, <2>2, <2>3
<1>6. Put(fil.fptr, n)[b + 1] = IF fil.fptr <= b /\ b < fil.fptr + n THEN calls
                                ELSE IF b < Len(content) THEN content[b + 1] ELSE 0
  BY <1>1, <1>3, PutFacts
<1>7. CASE fil.fptr <= b /\ b < fil.fptr + n
  <2>2. SectorOf(q, b) = g.sect /\ g.buf[b % SS] = calls
    BY <1>4, <1>7, PartNew
  <2> QED
    BY <1>5, <1>6, <1>7, <2>2, Zenon
<1>8. CASE ~(fil.fptr <= b /\ b < fil.fptr + n)
  <2>2. b < Len(content) /\ Put(fil.fptr, n)[b + 1] = content[b + 1] /\ content[b + 1] # 0
    BY <1>6, <1>8, Zenon
  <2>3. /\ SectorOf(q, b) = g.sect => g.buf[b % SS] = content[b + 1]
        /\ SectorOf(q, b) # g.sect => e[SectorOf(q, b)][b % SS] = content[b + 1]
    BY <1>4, <1>8, <2>2, PartOld
  <2> QED
    BY <1>5, <2>2, <2>3, Zenon
<1> QED
  BY <1>7, <1>8, Zenon

\* A turn of f_write, direct or through the buffer.
LEMMA WriteData == ASSUME FitInv, PlaceInv, DataInv, PlaceInv', NEW q \in Chains, WriteTurn(q) PROVE DataInv'
<1> DEFINE c == Here(fil, q)
           w == (fil.fptr \div SS) % csize
           s == <<c, w>>
           onSector == fil.fptr % SS = 0
           whole == onSector /\ call.n >= SS
           cc == Direct(fil, call.n)
           n == IF whole THEN SS * cc ELSE Min2(SS - (fil.fptr % SS), call.n)
           back == IF onSector THEN WrittenBack(fil, disk) ELSE disk
           f == [fil EXCEPT !.clust = c, !.dirty = @ /\ ~onSector]
           buf == [b \in Bytes |->
                      IF b \in f.fptr % SS .. (f.fptr % SS) + n - 1 THEN calls
                      ELSE IF onSector /\ Filled(f, s) THEN back[s][b] ELSE f.buf[b]]
           over == OvertakenBuffer(f, c, w, cc)
           part == [f EXCEPT !.sect = IF onSector THEN s ELSE @, !.dirty = TRUE, !.buf = buf]
           g == IF whole THEN over ELSE part
<1>1. /\ call.op = "write" /\ call.n > 0 /\ Entered(fil, q) /\ c # 0 /\ chain' = q
      /\ fil' = [g EXCEPT !.fptr = @ + n, !.objsize = Max2(@, fil.fptr + n)]
      /\ call' = [call EXCEPT !.n = @ - n] /\ UNCHANGED <<size, calls>> /\ content' = Put(fil.fptr, n)
  BY DEF WriteTurn, bounds
<1>d. disk' = IF whole THEN [t \in Sectors |-> IF t[1] = c /\ t[2] \in w .. w + cc - 1
                                                THEN [b \in Bytes |-> calls] ELSE back[t]]
              ELSE back
  BY DEF WriteTurn
<1>2. /\ Shape(fil) /\ fil.fptr \in Nat /\ fil.objsize \in Nat /\ fil.open
      /\ call.n \in Nat \ {0} /\ call = [op |-> call.op, n |-> call.n]
  BY <1>1 DEF FitInv, Fits
<1>3. OneToOne(q) /\ Len(chain) <= Len(q) /\ \A i \in 1 .. Len(chain) : q[i] = chain[i]
  BY <1>1, EnteredChain
<1>5. PICK d \in Nat, k \in 0 .. csize - 1, x \in 0 .. SS - 1 :
              At(fil.fptr, d, k, x) /\ Lies(fil, chain, d, k, x) /\ d < Len(q) /\ c = q[d + 1]
  BY <1>1, WriteWhere
<1>6. fil.fptr % SS = x /\ w = k
  BY <1>2, <1>5, Terms
<1>7. x # 0 => fil.sect = <<q[d + 1], k>>
  <2>1. x # 0 => d < Len(chain) /\ fil.sect = <<chain[d + 1], k>>
    BY <1>5, Zenon DEF Lies
  <2>2. d < Len(chain) => q[d + 1] = chain[d + 1]
    <3>1. d < Len(chain) => d + 1 \in 1 .. Len(chain)
      BY <1>5, Facts
    <3> QED
      BY <1>3, <3>1, Zenon
  <2> QED
    BY <2>1, <2>2, Zenon
<1>10. /\ Shape(f) /\ f.fptr = fil.fptr /\ f.objsize = fil.objsize /\ f.open = fil.open /\ f.sect = fil.sect
       /\ f.buf = fil.buf /\ (onSector => f.dirty = FALSE)
  BY <1>2 DEF Shape, Closed
<1>11. (onSector <=> x = 0) /\ (whole <=> x = 0 /\ call.n >= SS) /\ s = <<q[d + 1], k>>
  BY <1>5, <1>6, Zenon
<1>12. n = IF whole THEN SS * cc ELSE Min2(SS - x, call.n)
  BY <1>6, Zenon
<1>13. cc = Direct(fil, call.n) /\ n \in Nat
  BY <1>2, DirectFits, PartFits
<1>14. back = IF x = 0 THEN WrittenBack(fil, disk) ELSE disk
  BY <1>11, Zenon
<1>15. buf = [b \in Bytes |-> IF b \in x .. x + n - 1 THEN calls
                              ELSE IF x = 0 /\ Filled(fil, s) THEN back[s][b] ELSE fil.buf[b]]
  <2>1. f.fptr % SS = x /\ (Filled(f, s) <=> Filled(fil, s))
    BY <1>6, <1>10, Zenon DEF Filled
  <2> HIDE DEF f, s, n, back
  <2> QED
    BY <1>10, <1>11, <2>1
<1> HIDE DEF c, w, s, onSector, whole, cc, n, back, f, buf
<1>16. /\ Shape(over) /\ over.fptr = fil.fptr /\ over.objsize = fil.objsize /\ over.open = fil.open
       /\ over.sect = fil.sect /\ (onSector => over.dirty = FALSE)
       /\ over.buf = IF fil.sect[1] = c /\ fil.sect[2] \in w .. w + cc - 1 THEN [b \in Bytes |-> calls] ELSE fil.buf
  BY <1>10 DEF OvertakenBuffer, Shape, Closed
<1>17. /\ Shape(part) /\ part.fptr = fil.fptr /\ part.objsize = fil.objsize /\ part.open = fil.open
       /\ part.dirty = TRUE /\ part.sect = (IF onSector THEN s ELSE fil.sect) /\ part.buf = buf
  BY <1>10 DEF Shape, Closed
<1> HIDE DEF over, part
<1>18. Shape(g) /\ g.fptr = fil.fptr /\ g.objsize = fil.objsize /\ g.open = fil.open
  BY <1>16, <1>17
<1>19. whole => g = over
  OBVIOUS
<1>20. ~whole => g = part
  OBVIOUS
<1> HIDE DEF g
<1>21. /\ fil'.fptr = fil.fptr + n /\ fil'.objsize = Max2(fil.objsize, fil.fptr + n) /\ fil'.open = fil.open
       /\ fil'.sect = g.sect /\ fil'.dirty = g.dirty /\ fil'.buf = g.buf
  BY <1>1, <1>18 DEF Shape, Closed
<1>22. /\ content \in Seq(Nat) /\ calls \in Nat /\ Len(content) = fil.objsize
  BY <1>2 DEF DataInv
<1>23. content' \in Seq(Nat) /\ Len(content') = fil'.objsize
  BY <1>1, <1>2, <1>13, <1>21, <1>22, PutFacts
<1>24. Len(Put(fil.fptr, n)) <= Room(q)
  <2>1. fil'.objsize \in 0 .. Room(q)
    BY <1>1 DEF PlaceInv, Placed
  <2> QED
    BY <1>1, <1>23, <2>1
<1>25. Kept(g, q, disk', Put(fil.fptr, n))
  <2>1. CASE whole
    <3>1. x = 0 /\ At(fil.fptr, d, k, 0) /\ d < Len(q)
      BY <1>5, <1>11, <2>1, Zenon
    <3>2. Sized(n, cc)
      BY <1>12, <2>1, Zenon DEF Sized
    <3>3. disk' = [t \in Sectors |-> IF t \in Run(q, d, k, cc) THEN [y \in Bytes |-> calls] ELSE WrittenBack(fil, disk)[t]]
      BY <1>d, <1>5, <1>6, <1>14, <2>1, <3>1 DEF Run
    <3>4. g.dirty = FALSE /\ g.sect = fil.sect
      BY <1>11, <1>16, <1>19, <2>1, <3>1, Zenon
    <3>5. g.buf = IF fil.sect[1] = q[d + 1] /\ fil.sect[2] \in k .. k + cc - 1 THEN [y \in Bytes |-> calls] ELSE fil.buf
      BY <1>5, <1>6, <1>16, <1>19, <2>1, Zenon
    <3>6. Straight(q, d, k, cc, disk', g)
      BY <3>3, <3>4, <3>5, Zenon DEF Straight
    <3> QED
      BY <1>1, <1>2, <1>3, <1>13, <1>24, <3>1, <3>2, <3>6, WholeKept
  <2>2. CASE ~whole
    <3>1. x + n <= SS
      BY <1>2, <1>5, <1>12, <2>2, Units DEF Min2
    <3>2. g.dirty = TRUE /\ g.sect = <<q[d + 1], k>> /\ g.buf = buf
      BY <1>7, <1>11, <1>17, <1>20, <2>2, Zenon
    <3>3. disk' = back
      BY <1>d, <2>2
    <3>4. Buffers(q, d, k, x, n, disk', g)
      BY <1>11, <1>14, <1>15, <3>2, <3>3, Zenon DEF Buffers
    <3> QED
      BY <1>1, <1>2, <1>3, <1>5, <1>7, <1>13, <1>24, <3>1, <3>4, PartKept
  <2> QED
    BY <2>1, <2>2
<1>26. Kept(fil', chain', disk', content')
  BY <1>1, <1>21, <1>25, Zenon DEF Kept, WrittenBack
<1>27. call'.op = "write" /\ fil'.open
  BY <1>1, <1>2, <1>21
<1> QED
  BY <1>1, <1>22, <1>23, <1>26, <1>27 DEF DataInv

\* Other files take and give back clusters this one does not own.
LEMMA OthersData ==
    ASSUME FitInv, PlaceInv, DataInv, NEW c \in Clusters, OthersTake(c) \/ OthersGive(c) PROVE DataInv'
<1>1. UNCHANGED <<chain, size, fil, call, content, got, calls>>
  BY DEF OthersTake, OthersGive
<1>2. DOMAIN disk' = Sectors /\ \A t \in Sectors : Owns(chain, t[1]) => disk'[t] = disk[t]
  <2>1. CASE OthersTake(c)
    <3>1. IsFree(c) /\ disk' = [s \in Sectors |-> IF s[1] = c THEN NoBuf ELSE disk[s]]
      BY <2>1 DEF OthersTake
    <3> QED
      BY <3>1 DEF IsFree, Owns
  <2>2. CASE OthersGive(c)
    BY <2>2, Facts DEF OthersGive
  <2> QED
    BY <2>1, <2>2
<1>3. Kept(fil, chain, disk', content)
  <2>1. /\ Room(chain) \in Nat /\ chain \in Chains /\ Len(content) \in Nat /\ Len(content) <= Room(chain)
    BY DataFacts, Zenon
  <2> SUFFICES ASSUME NEW b \in 0 .. Len(content) - 1, content[b + 1] # 0
               PROVE  /\ WrittenBack(fil, disk')[SectorOf(chain, b)][b % SS] = content[b + 1]
                      /\ fil.sect = SectorOf(chain, b) => fil.buf[b % SS] = content[b + 1]
    BY DEF Kept
  <2>2. b \in Nat /\ b < Room(chain)
    BY <2>1
  <2>3. PICK d \in Nat, k \in 0 .. csize - 1 :
              SectorOf(chain, b) = <<chain[d + 1], k>> /\ d + 1 \in DOMAIN chain /\ SectorOf(chain, b) \in Sectors
    BY <2>1, <2>2, InSector
  <2>4. PICK t \in Sectors : t = SectorOf(chain, b) /\ Owns(chain, t[1])
    BY <2>3 DEF Owns
  <2>5. disk'[t] = disk[t]
    BY <1>2, <2>4
  <2>6. Buffered(fil, chain) /\ DOMAIN disk = Sectors
    BY Facts
  <2>7. WrittenBack(fil, disk')[t] = WrittenBack(fil, disk)[t]
    <3>1. /\ fil.dirty /\ fil.sect = t => WrittenBack(fil, disk)[t] = fil.buf
          /\ ~(fil.dirty /\ fil.sect = t) => WrittenBack(fil, disk)[t] = disk[t]
      BY <2>6, BackAt
    <3>2. /\ fil.dirty /\ fil.sect = t => WrittenBack(fil, disk')[t] = fil.buf
          /\ ~(fil.dirty /\ fil.sect = t) => WrittenBack(fil, disk')[t] = disk'[t]
      BY <1>2, <2>6, BackAt
    <3> QED
      BY <2>5, <3>1, <3>2, Zenon
  <2> QED
    BY <2>4, <2>7, Zenon DEF DataInv, Kept
<1> QED
  BY <1>1, <1>3 DEF DataInv, ReadsWritten, Written

\* Every step keeps the bytes, given that it keeps the pointer where PlaceInv has it.
LEMMA DataStep == FitInv /\ PlaceInv /\ DataInv /\ [Next]_vars => DataInv'
<1> SUFFICES ASSUME FitInv, PlaceInv, DataInv, [Next]_vars PROVE DataInv'
  OBVIOUS
<1>0. PlaceInv'
  BY PlaceStep
<1>1. ASSUME NEW m \in Modes, NEW append \in BOOLEAN, Open(m, append) PROVE DataInv'
  BY <1>1, OpenData
<1>2. CASE Close
  BY <1>2, CloseData
<1>3. ASSUME NEW q \in Chains, NEW ofs \in Offsets, NEW n \in Lengths, ReadImpl(q, ofs, n) PROVE DataInv'
  <2>1. /\ Seek(q, ofs) /\ fil' = Sought(fil, q, ofs) /\ fil.open /\ UNCHANGED size
        /\ call.op = "none" /\ calls' = calls + 1
    BY <1>3 DEF ReadImpl, Begin
  <2>2. got' = [from |-> fil'.fptr, bytes |-> <<>>]
    BY <1>3 DEF ReadImpl
  <2>3. ofs \in Nat
    BY FileAssumption
  <2> QED
    BY <2>1, <2>2, <2>3, SeekData
<1>4. ASSUME NEW q \in Chains, NEW ofs \in Offsets, NEW n \in Lengths, WriteImpl(q, ofs, n) PROVE DataInv'
  <2>1. /\ Seek(q, ofs) /\ fil' = Sought(fil, q, ofs) /\ fil.open /\ UNCHANGED size
        /\ call.op = "none" /\ calls' = calls + 1
    BY <1>4 DEF WriteImpl, Begin
  <2>2. call'.op # "read"
    BY <1>4 DEF WriteImpl, Idle
  <2>3. ofs \in Nat
    BY FileAssumption
  <2> QED
    BY <2>1, <2>2, <2>3, SeekData
<1>5. ASSUME NEW q \in Chains, NEW n \in Offsets, SetSizeImpl(q, n) PROVE DataInv'
  BY <1>0, <1>5, SetSizeData
<1>6. CASE ReadTurn
  BY <1>6, ReadData
<1>7. CASE ReadEnd
  <2>1. /\ UNCHANGED <<disk, chain, size, fil, content, calls>> /\ call.op = "read" /\ call' = Idle
    BY <1>7 DEF ReadEnd, bounds
  <2> QED
    BY <2>1 DEF DataInv, Idle
<1>8. ASSUME NEW q \in Chains, WriteTurn(q) PROVE DataInv'
  BY <1>0, <1>8, WriteData
<1>9. CASE WriteEnd
  <2>1. /\ fil' = [fil EXCEPT !.modified = TRUE] /\ call' = Idle /\ UNCHANGED <<disk, chain, size, content, calls>>
        /\ call.op = "write"
    BY <1>9 DEF WriteEnd, bounds
  <2>2. fil.open /\ Shape(fil)
    BY <2>1 DEF FitInv, Fits
  <2>3. /\ fil'.open = fil.open /\ fil'.modified = TRUE /\ fil'.objsize = fil.objsize
        /\ fil'.sect = fil.sect /\ fil'.dirty = fil.dirty /\ fil'.buf = fil.buf
    BY <2>1, <2>2 DEF Shape, Closed
  <2>4. Kept(fil', chain, disk, content)
    BY <2>3, Zenon DEF Kept, WrittenBack, DataInv
  <2> QED
    BY <2>1, <2>2, <2>3, <2>4 DEF DataInv, Idle
<1>10. ASSUME NEW c \in Clusters, OthersTake(c) \/ OthersGive(c) PROVE DataInv'
  BY <1>10, OthersData
<1>11. CASE UNCHANGED vars
  BY <1>11 DEF vars, bounds, DataInv, ReadsWritten, Written
<1> QED
  BY <1>1, <1>2, <1>3, <1>4, <1>5, <1>6, <1>7, <1>8, <1>9, <1>10, <1>11 DEF Next

\* A new file has no byte.
LEMMA DataStart == Init => DataInv
<1> SUFFICES ASSUME Init PROVE DataInv
  OBVIOUS
<1>1. content = <<>> /\ calls = 0 /\ fil = Closed /\ size = 0 /\ call = Idle
  BY DEF Init
<1>2. content \in Seq(Nat) /\ Len(content) = 0 /\ ~fil.open /\ call.op = "none"
  BY <1>1 DEF Closed, Idle
<1>3. Kept(fil, chain, disk, content)
  BY <1>2 DEF Kept
<1> QED
  BY <1>1, <1>2, <1>3 DEF DataInv

\* The three parts of the inductive invariant together.
LEMMA DataAlways == Spec => [](FitInv /\ PlaceInv /\ DataInv)
<1>1. Init => FitInv
  BY FileAssumption DEF Init, FitInv, Fits, Shape, Closed, Idle
<1> QED
  BY <1>1, PlaceStart, DataStart, FitStep, PlaceStep, DataStep, PTL DEF Spec

\* What a byte of the file is to the next read.
LEMMA SeenBack ==
    ASSUME FitInv, PlaceInv, DataInv, NEW b \in 0 .. Len(content) - 1, content[b + 1] # 0
    PROVE  /\ Seen(b) = content[b + 1]
           /\ fil.sect = SectorOf(chain, b) => fil.buf[b % SS] = content[b + 1]
           /\ ~fil.dirty => disk[SectorOf(chain, b)][b % SS] = content[b + 1]
<1>1. /\ Room(chain) \in Nat /\ chain \in Chains /\ Len(content) \in Nat /\ Len(content) <= Room(chain)
  BY DataFacts, Zenon
<1>2. b \in Nat /\ b < Room(chain)
  BY <1>1
<1>3. PICK t \in Sectors : t = SectorOf(chain, b)
  BY <1>1, <1>2, InSector
<1>4. /\ WrittenBack(fil, disk)[t][b % SS] = content[b + 1]
      /\ fil.sect = t => fil.buf[b % SS] = content[b + 1]
  BY <1>3, Zenon DEF DataInv, Kept
<1>5. /\ fil.dirty /\ fil.sect = t => WrittenBack(fil, disk)[t] = fil.buf
      /\ ~(fil.dirty /\ fil.sect = t) => WrittenBack(fil, disk)[t] = disk[t]
  BY Facts, BackAt
<1>6. Seen(b) = IF fil.dirty /\ fil.sect = t THEN fil.buf[b % SS] ELSE disk[t][b % SS]
  BY <1>3, Zenon DEF Seen
<1> QED
  BY <1>3, <1>4, <1>5, <1>6, Zenon

\* Pointer, buffer and drive together keep every byte that was written, through seeks that
\* stretch the chain, cuts, and transfers past the buffer.
THEOREM BytesSafe == Spec => []BytesKept
<1>1. FitInv /\ PlaceInv /\ DataInv => BufferCoherent /\ NoByteLost
  <2> SUFFICES ASSUME FitInv, PlaceInv, DataInv, fil.open
               PROVE  /\ Len(content) = fil.objsize
                      /\ \A p \in 0 .. fil.objsize - 1 :
                            Written(p) => /\ Seen(p) = content[p + 1]
                                          /\ fil.sect = SectorOf(chain, p) => fil.buf[p % SS] = content[p + 1]
    BY DEF BufferCoherent, NoByteLost
  <2>1. Len(content) = fil.objsize
    BY DEF DataInv
  <2> QED
    BY <2>1, SeenBack DEF Written
<1> QED
  BY <1>1, DataAlways, TypeCorrect, PointerSafe, PTL DEF BytesKept

\* f_read hands out the bytes last written where it was asked to read.
THEOREM ReadsRight == Spec => []ReadsWritten
<1>1. DataInv => ReadsWritten
  BY DEF DataInv, ReadsWritten
<1> QED
  BY <1>1, DataAlways, PTL

\* Closing leaves all of the file on the drive, and its size in the directory entry.
THEOREM ClosedSafe == Spec => []ClosedIsWritten
<1>1. FitInv /\ PlaceInv /\ DataInv => ClosedIsWritten
  <2> SUFFICES ASSUME FitInv, PlaceInv, DataInv, ~fil.open
               PROVE  /\ size = Len(content)
                      /\ \A p \in 0 .. size - 1 : Written(p) => disk[SectorOf(chain, p)][p % SS] = content[p + 1]
    BY DEF ClosedIsWritten
  <2>1. size = Len(content) /\ fil = Closed
    BY DEF DataInv
  <2>2. ~fil.dirty
    BY <2>1 DEF Closed
  <2> QED
    BY <2>1, <2>2, SeenBack DEF Written
<1> QED
  BY <1>1, DataAlways, PTL
=============================================================================
