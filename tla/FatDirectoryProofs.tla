-------------------------- MODULE FatDirectoryProofs --------------------------
(***************************************************************************)
(* Theorems about FatDirectory, for every set of names and every size of   *)
(* the table, on FAT and on exFAT.                                         *)
(*                                                                         *)
(* A call makes its steps one after the other, so the invariant looks      *)
(* forward (Plan): with the lengths ln the table will have, every step     *)
(* that is left fits, no two write one entry, and together they make the   *)
(* table f of what there is.  FinalOK says what f is like; while nothing   *)
(* was pulled it is Good: every head has the block of a name before or     *)
(* behind it (Headed), every piece is part of one (Owned), no two blocks   *)
(* share a name (Apart).  The names made have theirs (Settled), and what   *)
(* an open directory gave still leads to its entry (Held).                 *)
(*                                                                         *)
(* One step keeps the plan (StepInv); at its end f is the table (RestIs);  *)
(* and each call begins with a plan for a Good table (CreateInv, DeleteInv,*)
(* RenameInv, TouchInv by BeginInv), since the entries of a name that was  *)
(* looked for and not found are a block that clashes with none (NewBlock), *)
(* and what dir_remove clears is a block (RemovedBlock).                   *)
(***************************************************************************)
EXTENDS FatDirectory, FiniteSetTheorems, WellFoundedInduction, SequenceTheorems, TLAPS

\* A non-empty set of positions of a table has a first one.
LEMMA LeastOf ==
    ASSUME NEW n \in Nat, NEW S \in SUBSET (1 .. n), S # {} PROVE \E i \in S : \A j \in S : i <= j
<1> DEFINE R == {ss \in Nat \X Nat : ss[1] < ss[2]}
<1>1. IsWellFoundedOn(R, Nat)
  BY NatLessThanWellFounded DEF OpToRel
<1>2. S \subseteq Nat
  OBVIOUS
<1>3. PICK i \in S : \A j \in S : <<j, i>> \notin R
  <2> HIDE DEF R
  <2> QED
    BY <1>1, <1>2, WFMin
<1>4. \A j \in S : ~(j < i)
  BY <1>2, <1>3
<1> QED
  BY <1>2, <1>4

\* Division by a divisor that is not a literal, which SMT does not do by itself.
LEMMA DivMod ==
    ASSUME NEW p \in Nat, NEW b \in Nat, b > 0
    PROVE  \E d \in Nat, r \in Nat : d = p \div b /\ r = p % b /\ r < b /\ p = b * d + r
<1>1. p \div b \in Nat /\ p % b \in 0 .. b - 1 /\ p % b = p - b * (p \div b)
  OBVIOUS
<1>2. PICK d \in Nat, r \in 0 .. b - 1 : d = p \div b /\ r = p % b /\ r = p - b * d
  BY <1>1, Zenon
<1>3. r \in Nat /\ r < b /\ p = b * d + r
  BY <1>2
<1> QED
  BY <1>2, <1>3, Zenon

(***************************************************************************)
(* Tables                                                                  *)
(***************************************************************************)
Lens == {c * PerSector : c \in 1 .. MaxClusters}
Objs == [id : 0 .. objects, ver : {0, 1}]
HeadKind == IF ExFat THEN "85" ELSE "sfn"
PartKinds == IF ExFat THEN {"c0", "c1"} ELSE {"lfn"}
EntryOK(e) ==
    /\ e.kind \in {"zero", "gone", "junk", HeadKind} \union PartKinds
    /\ e.kind \in {"sfn", "c0"} => e.obj \in Objs
    /\ e.kind = "85" => e.num \in Nat /\ e.num >= 2
    /\ e.kind = "zero" => e = Zero
Shaped(T) ==
    /\ T = [len |-> T.len, slot |-> T.slot] /\ T.len \in Lens
    /\ T.slot = [i \in 1 .. MaxSlots |-> T.slot[i]]
Typed(T) == \A i \in 1 .. MaxSlots : EntryOK(T.slot[i])
ZeroLast(T) ==
    \A i, j \in 1 .. T.len : i < j /\ T.slot[i].kind = "zero" => T.slot[j].kind \in {"zero", "junk"}
Lagging ==
    /\ disk.len = table.len /\ dirty \in 0 .. MaxClusters
    /\ \A i \in 1 .. table.len : SectorOf(i) # dirty => disk.slot[i] = table.slot[i]
TablesOK ==
    /\ fs_type \in FsTypes /\ objects \in Nat
    /\ Shaped(table) /\ Shaped(disk) /\ Typed(table) /\ Typed(disk)
    /\ ZeroLast(table) /\ ZeroLast(disk)
    /\ Lagging

(***************************************************************************)
(* What the steps of a call will make of the table                         *)
(***************************************************************************)
Blank(T, i) == i > T.len \/ T.slot[i].kind \in {"zero", "junk"}
IsSeq(q) == q \in Seq({q[k] : k \in DOMAIN q})
IsPut(q, k, i) == q[k].do = "put" /\ q[k].at = i
StepOK(T, q, ln, k) ==
    \/ q[k] = Link /\ k < Len(q) /\ q[k + 1] = Clear /\ ln[k + 1] = ln[k] + PerSector
    \/ q[k] = Clear /\ (k > 1 => q[k - 1] = Link) /\ ln[k + 1] = ln[k]
    \/ q[k] = Sync /\ ln[k + 1] = ln[k]
    \/ /\ q[k].do = "put" /\ q[k] = Put(q[k].at, q[k].entry) /\ ln[k + 1] = ln[k]
       /\ q[k].at \in 1 .. ln[k] /\ q[k].entry.kind \notin {"zero", "junk"}
       /\ \A i \in 1 .. q[k].at - 1 : Blank(T, i) => \E m \in 1 .. k - 1 : IsPut(q, m, i)
StepsOK(T, q, ln) ==
    /\ IsSeq(q)
    /\ ln \in [1 .. Len(q) + 1 -> Lens] /\ ln[1] = T.len
    /\ \A k \in 1 .. Len(q) : StepOK(T, q, ln, k)
    /\ \A k, m \in 1 .. Len(q) : q[k].do = "put" /\ q[m].do = "put" /\ q[k].at = q[m].at => k = m
\* A cluster that is linked and not yet cleared.
NewCluster(T, q) ==
    /\ \A i \in 1 .. T.len : T.slot[i].kind = "junk" <=> (q # <<>> /\ q[1] = Clear /\ i > T.len - PerSector)
    /\ q # <<>> /\ q[1] = Clear => dirty = 0
Makes(T, q, n, f) ==
    /\ \A k \in 1 .. Len(q) : q[k].do = "put" => f[q[k].at] = q[k].entry
    /\ \A i \in 1 .. n : (\A k \in 1 .. Len(q) : ~IsPut(q, k, i)) => f[i] = IF Blank(T, i) THEN Zero ELSE T.slot[i]
Ends(q, ln) == ln[Len(q) + 1]
PutsTyped(q) == \A k \in 1 .. Len(q) : q[k].do = "put" => EntryOK(q[k].entry)
Plan(T, q, ln, f) == StepsOK(T, q, ln) /\ PutsTyped(q) /\ NewCluster(T, q) /\ Makes(T, q, Ends(q, ln), f)

(***************************************************************************)
(* Numbers                                                                 *)
(***************************************************************************)
LEMMA Nums ==
    /\ PerSector \in Nat /\ PerSector > 0 /\ MaxClusters \in Nat /\ MaxClusters > 0 /\ MaxNumber \in Nat
    /\ MaxSlots \in Nat
  BY DirectoryAssumption DEF MaxSlots

\* A table's length is a number of clusters, between one and all.
LEMMA LenIs ==
    ASSUME NEW n \in Lens PROVE n \in Nat /\ n >= PerSector /\ n <= MaxSlots /\ n \in 1 .. MaxSlots
<1>1. PICK c \in 1 .. MaxClusters : n = c * PerSector
  BY DEF Lens
<1>2. PICK p \in Nat : p = PerSector /\ p > 0
  BY Nums
<1>3. c \in Nat /\ c >= 1 /\ c <= MaxClusters /\ MaxClusters \in Nat
  BY Nums
<1>4. c * p >= p /\ c * p \in Nat
  BY <1>2, <1>3
<1>5. c * p <= MaxClusters * p
  BY <1>2, <1>3
<1> QED
  BY <1>1, <1>2, <1>4, <1>5 DEF MaxSlots

\* Sector s holds the entries from (s - 1) * PerSector + 1 to s * PerSector.
LEMMA SectorIs ==
    ASSUME NEW i \in Nat, i > 0
    PROVE  /\ SectorOf(i) \in Nat /\ SectorOf(i) >= 1
           /\ i <= SectorOf(i) * PerSector
           /\ \A c \in Nat : i <= c * PerSector => SectorOf(i) <= c
<1>1. PICK p \in Nat : p = PerSector /\ p > 0
  BY Nums
<1>2. PICK d \in Nat, r \in Nat : d = (i + p - 1) \div p /\ r < p /\ i + p - 1 = p * d + r
  <2>1. i + p - 1 \in Nat
    BY <1>1
  <2> QED
    BY <1>1, <2>1, DivMod
<1>3. SectorOf(i) = d
  BY <1>1, <1>2 DEF SectorOf
<1>4. d >= 1
  <2>1. d = 0 => p * d = 0
    OBVIOUS
  <2> QED
    BY <1>1, <1>2, <2>1
<1>5. i <= d * p
  <2>1. d * p = p * d
    BY <1>1
  <2> QED
    BY <1>1, <1>2, <2>1
<1>6. ASSUME NEW c \in Nat, i <= c * p PROVE d <= c
  <2> SUFFICES ASSUME d >= c + 1 PROVE FALSE
    OBVIOUS
  <2>1. p * d >= p * (c + 1)
    BY <1>1
  <2>2. p * (c + 1) = c * p + p
    BY <1>1
  <2> QED
    BY <1>1, <1>2, <1>6, <2>1, <2>2
<1> QED
  BY <1>1, <1>3, <1>4, <1>5, <1>6

LEMMA SectorLen == ASSUME NEW c \in 1 .. MaxClusters PROVE SectorOf(c * PerSector) = c
<1>1. PICK p \in Nat, n \in Nat : p = PerSector /\ p > 0 /\ n = c * PerSector /\ n > 0
  <2>1. c * PerSector \in Lens
    BY DEF Lens
  <2> QED
    BY <2>1, LenIs, Nums
<1>2. PICK s \in Nat : s = SectorOf(n) /\ n <= s * p /\ s <= c
  <2>1. n <= n /\ c \in Nat /\ n <= c * PerSector
    BY <1>1, Nums
  <2>2. SectorOf(n) \in Nat /\ n <= SectorOf(n) * PerSector /\ SectorOf(n) <= c
    BY <1>1, <2>1, SectorIs
  <2> QED
    BY <1>1, <2>2
<1>3. ~(s + 1 <= c)
  <2> SUFFICES ASSUME s + 1 <= c PROVE FALSE
    OBVIOUS
  <2>1. (s + 1) * p <= c * p
    BY <1>1, Nums
  <2>2. (s + 1) * p = s * p + p
    BY <1>1
  <2> QED
    BY <1>1, <1>2, <2>1, <2>2
<1> QED
  BY <1>1, <1>2, <1>3, Nums

LEMMA SectorIn == ASSUME NEW i \in 1 .. MaxSlots PROVE SectorOf(i) \in 1 .. MaxClusters
<1>1. i \in Nat /\ i > 0 /\ MaxClusters \in Nat
  BY Nums
<1>2. i <= MaxClusters * PerSector
  BY Nums DEF MaxSlots
<1> QED
  BY <1>1, <1>2, SectorIs

\* First and Latest of positions.
LEMMA FirstIs ==
    ASSUME NEW n \in Nat, NEW S \in SUBSET (1 .. n), S # {} PROVE First(S) \in S /\ \A j \in S : First(S) <= j
  BY LeastOf DEF First
LEMMA LatestIs ==
    ASSUME NEW n \in Nat, NEW S \in SUBSET (1 .. n), S # {} PROVE Latest(S) \in S /\ \A j \in S : Latest(S) >= j
<1>1. PICK R : R = {n + 1 - i : i \in S}
  OBVIOUS
<1>2. R \in SUBSET (1 .. n) /\ R # {}
  <2>1. \A x \in R : x \in 1 .. n
    <3> TAKE x \in R
    <3>1. PICK i \in S : x = n + 1 - i
      BY <1>1
    <3> QED
      BY <3>1
  <2>2. PICK i \in S : TRUE
    OBVIOUS
  <2>3. n + 1 - i \in R
    BY <1>1
  <2> QED
    BY <2>1, <2>3
<1>3. PICK r \in R : \A j \in R : r <= j
  BY <1>2, LeastOf
<1>4. PICK i \in S : r = n + 1 - i
  BY <1>1
<1>5. ASSUME NEW j \in S PROVE i >= j
  <2>1. n + 1 - j \in R
    BY <1>1
  <2>2. r <= n + 1 - j
    BY <1>3, <2>1
  <2> QED
    BY <1>4, <2>2
<1>6. \E x \in S : \A y \in S : x >= y
  BY <1>5
<1> QED
  BY <1>6 DEF Latest

(***************************************************************************)
(* Steps, as what they do to the two tables                                *)
(***************************************************************************)
LEMMA Pos == ASSUME TablesOK, NEW i \in 1 .. table.len PROVE i \in 1 .. MaxSlots /\ i \in Nat /\ SectorOf(i) \in 1 .. MaxClusters
<1>1. table.len \in Lens
  BY DEF TablesOK, Shaped
<1>2. table.len \in Nat /\ table.len <= MaxSlots /\ MaxSlots \in Nat
  BY <1>1, LenIs, Nums
<1>3. i \in 1 .. MaxSlots
  BY <1>2
<1> QED
  BY <1>3, SectorIn

LEMMA EntryConst == /\ \A e : e = Zero \/ e = Gone \/ e = Junk => EntryOK(e)
                    /\ Zero.kind = "zero" /\ Gone.kind = "gone" /\ Junk.kind = "junk"
  BY DEF Zero, Gone, Junk, EntryOK

\* Tables that hold the same entries.
LEMMA ZeroSame ==
    ASSUME NEW T, NEW U, T.len = U.len, \A i \in 1 .. T.len : U.slot[i] = T.slot[i], ZeroLast(T) PROVE ZeroLast(U)
  BY DEF ZeroLast

\* sync_window: the drive has what FatFs sees.
LEMMA FlushedIs ==
    ASSUME TablesOK
    PROVE  /\ Shaped(Flushed) /\ Typed(Flushed) /\ ZeroLast(Flushed) /\ Flushed.len = table.len
           /\ \A i \in 1 .. table.len : Flushed.slot[i] = table.slot[i]
<1>1. PICK g : g = [i \in 1 .. MaxSlots |-> IF SectorOf(i) = dirty THEN table.slot[i] ELSE disk.slot[i]]
  OBVIOUS
<1>2. Flushed = [len |-> disk.len, slot |-> g]
  <2>1. disk = [len |-> disk.len, slot |-> disk.slot]
    BY DEF TablesOK, Shaped
  <2>2. Flushed = [disk EXCEPT !.slot = g]
    BY <1>1 DEF Flushed
  <2> QED
    BY <2>1, <2>2
<1>3. Flushed.len = disk.len /\ Flushed.slot = g
  BY <1>2
<1>4. Flushed = [len |-> Flushed.len, slot |-> Flushed.slot]
  BY <1>2
<1>5. Flushed.slot = [i \in 1 .. MaxSlots |-> Flushed.slot[i]]
  BY <1>1, <1>3
<1>6. Flushed.len = table.len /\ Flushed.len \in Lens
  BY <1>3 DEF TablesOK, Shaped, Lagging
<1>7. ASSUME NEW i \in 1 .. MaxSlots PROVE EntryOK(Flushed.slot[i])
  <2>1. Flushed.slot[i] = table.slot[i] \/ Flushed.slot[i] = disk.slot[i]
    BY <1>1, <1>3
  <2> QED
    BY <2>1 DEF TablesOK, Typed
<1>8. ASSUME NEW i \in 1 .. table.len PROVE Flushed.slot[i] = table.slot[i]
  <2>1. i \in 1 .. MaxSlots
    BY Pos
  <2>2. SectorOf(i) # dirty => disk.slot[i] = table.slot[i]
    BY DEF TablesOK, Lagging
  <2> QED
    BY <1>1, <1>3, <2>1, <2>2
<1>9. ZeroLast(Flushed)
  <2>1. ZeroLast(table)
    BY DEF TablesOK
  <2> QED
    BY <1>6, <1>8, <2>1, ZeroSame
<1> QED
  BY <1>4, <1>5, <1>6, <1>7, <1>8, <1>9 DEF Shaped, Typed

\* A step that leaves the table alone, and the drive too or lets it catch up.
DiskMoves == (disk' = disk /\ dirty' = dirty) \/ (disk' = Flushed /\ dirty' = 0)
LEMMA EntryStays ==
    ASSUME NEW e, EntryOK(e), fs_type' = fs_type, objects \in Nat, objects' \in Nat, objects <= objects'
    PROVE  EntryOK(e)'
<1>1. Objs \subseteq Objs'
  BY DEF Objs
<1>2. HeadKind' = HeadKind /\ PartKinds' = PartKinds
  BY DEF HeadKind, PartKinds, ExFat
<1> QED
  BY <1>1, <1>2 DEF EntryOK
LEMMA TypedStays ==
    ASSUME NEW T, Typed(T), fs_type' = fs_type, objects \in Nat, objects' \in Nat, objects <= objects'
    PROVE  Typed(T)'
  BY EntryStays DEF Typed
LEMMA StillOK ==
    ASSUME TablesOK, table' = table, DiskMoves, fs_type' = fs_type, objects' \in Nat, objects <= objects'
    PROVE  TablesOK'
<1>1. Shaped(table') /\ Typed(table) /\ ZeroLast(table') /\ objects \in Nat
  BY DEF TablesOK
<1>2. Shaped(disk') /\ Typed(disk') /\ ZeroLast(disk')
  BY FlushedIs DEF TablesOK, DiskMoves
<1>3. Typed(table)' /\ Typed(disk)'
  <2>1. PICK T, U : T = table' /\ U = disk' /\ Typed(T) /\ Typed(U)
    BY <1>1, <1>2
  <2>2. Typed(T)' /\ Typed(U)'
    BY <1>1, <2>1, TypedStays
  <2> QED
    BY <2>1, <2>2 DEF Typed
<1>4. Lagging'
  <2>1. CASE disk' = disk /\ dirty' = dirty
    BY <2>1 DEF TablesOK, Lagging
  <2>2. CASE disk' = Flushed /\ dirty' = 0
    <3>1. disk'.len = table'.len /\ \A i \in 1 .. table'.len : disk'.slot[i] = table'.slot[i]
      BY <2>2, FlushedIs
    <3>2. dirty' \in 0 .. MaxClusters
      BY <2>2, Nums
    <3> QED
      BY <3>1, <3>2 DEF Lagging
  <2> QED
    BY <2>1, <2>2 DEF DiskMoves
<1> QED
  BY <1>1, <1>2, <1>3, <1>4 DEF TablesOK, Shaped, ZeroLast

LEMMA VisitMoves == ASSUME NEW i, NEW j, Visit(i, j) PROVE DiskMoves
  BY DEF Visit, DiskMoves
LEMMA LookedMoves == ASSUME NEW n, Looked(n) PROVE DiskMoves
  BY VisitMoves DEF Looked
LEMMA ReadMoves == ASSUME ReadOn PROVE DiskMoves
  BY VisitMoves DEF ReadOn, DiskMoves

\* A table of which one part is overwritten.
SetAt(T, i, e, U) ==
    /\ Shaped(T) /\ Typed(T) /\ i \in 1 .. MaxSlots /\ EntryOK(e)
    /\ U = [T EXCEPT !.slot[i] = e]
LEMMA SlotSet ==
    ASSUME NEW T, NEW i, NEW e, NEW U, SetAt(T, i, e, U)
    PROVE  /\ Shaped(U) /\ Typed(U) /\ U.len = T.len
           /\ U.slot[i] = e /\ \A j \in 1 .. MaxSlots : j # i => U.slot[j] = T.slot[j]
<1>1. /\ Shaped(T) /\ Typed(T) /\ i \in 1 .. MaxSlots /\ EntryOK(e)
      /\ U = [T EXCEPT !.slot[i] = e]
  BY DEF SetAt
<1>2. PICK n, g : n = T.len /\ g = T.slot
  OBVIOUS
<1>3. T = [len |-> n, slot |-> g] /\ n \in Lens /\ g = [j \in 1 .. MaxSlots |-> g[j]]
  BY <1>1, <1>2 DEF Shaped
<1>4. PICK h : h = [g EXCEPT ![i] = e]
  OBVIOUS
<1>5. U = [len |-> n, slot |-> h]
  BY <1>1, <1>2, <1>3, <1>4
<1>6. U.len = n /\ U.slot = h
  BY <1>5
<1>7. h[i] = e /\ (\A j \in 1 .. MaxSlots : j # i => h[j] = g[j]) /\ h = [j \in 1 .. MaxSlots |-> h[j]]
  BY <1>1, <1>3, <1>4
<1>8. \A j \in 1 .. MaxSlots : EntryOK(g[j])
  BY <1>1, <1>2 DEF Typed
<1>9. \A j \in 1 .. MaxSlots : EntryOK(h[j])
  <2> TAKE j \in 1 .. MaxSlots
  <2>1. CASE j = i
    BY <1>1, <1>7, <2>1
  <2>2. CASE j # i
    BY <1>7, <1>8, <2>2
  <2> QED
    BY <2>1, <2>2
<1>10. Shaped(U)
  BY <1>3, <1>5, <1>6, <1>7 DEF Shaped
<1>11. Typed(U)
  BY <1>6, <1>9 DEF Typed
<1> QED
  BY <1>2, <1>6, <1>7, <1>10, <1>11

LEMMA LensNext ==
    ASSUME NEW n \in Lens, n + PerSector <= MaxSlots PROVE n + PerSector \in Lens
<1>1. PICK c \in 1 .. MaxClusters : n = c * PerSector
  BY DEF Lens
<1>2. PICK p \in Nat : p = PerSector /\ p > 0
  BY Nums
<1>3. c \in Nat /\ c >= 1 /\ MaxClusters \in Nat
  BY Nums
<1>4. n + p = (c + 1) * p
  BY <1>1, <1>2, <1>3
<1>5. c + 1 <= MaxClusters
  <2> SUFFICES ASSUME c = MaxClusters PROVE FALSE
    BY <1>3
  <2>1. n = MaxSlots
    BY <1>1 DEF MaxSlots
  <2> QED
    BY <1>2, <2>1, LenIs
<1> QED
  <2>1. c + 1 \in 1 .. MaxClusters
    BY <1>3, <1>5
  <2>2. n + PerSector = (c + 1) * PerSector
    BY <1>2, <1>4
  <2> QED
    BY <2>1, <2>2, Zenon DEF Lens

LEMMA PartsOf ==
    ASSUME NEW T, Shaped(T) PROVE T.len \in Nat /\ PerSector \in Nat /\ PerSector > 0
  BY LenIs, Nums DEF Shaped

LEMMA GrownIs ==
    ASSUME NEW T, Shaped(T), Typed(T), ZeroLast(T), T.len + PerSector \in Lens, NEW U, U = Grown(T, Junk)
    PROVE  /\ Shaped(U) /\ Typed(U) /\ ZeroLast(U) /\ U.len = T.len + PerSector
           /\ \A i \in 1 .. T.len : U.slot[i] = T.slot[i]
           /\ \A i \in T.len + 1 .. U.len : U.slot[i] = Junk
<1>1. PICK g : g = T.slot
  OBVIOUS
<1>2. PICK n \in Nat, p \in Nat : n = T.len /\ g = T.slot /\ p = PerSector /\ p > 0
  BY <1>1, PartsOf
<1>3. PICK h : h = [i \in 1 .. MaxSlots |-> IF i \in n + 1 .. n + p THEN Junk ELSE g[i]]
  OBVIOUS
<1>4. U = [len |-> n + p, slot |-> h]
  BY <1>2, <1>3 DEF Grown
<1>5. U.len = n + p /\ U.slot = h
  BY <1>4
<1>6. n + p <= MaxSlots /\ n + p \in Lens /\ MaxSlots \in Nat
  BY <1>2, LenIs, Nums
<1>7. \A i \in 1 .. n : h[i] = g[i]
  BY <1>3, <1>6
<1>8. \A i \in n + 1 .. n + p : h[i] = Junk
  BY <1>3, <1>6
<1>9. \A i \in 1 .. MaxSlots : EntryOK(h[i])
  <2> TAKE i \in 1 .. MaxSlots
  <2>1. h[i] = Junk \/ h[i] = g[i]
    BY <1>3
  <2> QED
    BY <1>2, <2>1, EntryConst DEF Typed
<1>10. Shaped(U)
  BY <1>3, <1>4, <1>5, <1>6 DEF Shaped
<1>11. Typed(U)
  BY <1>5, <1>9 DEF Typed
<1>12. ZeroLast(U)
  <2> SUFFICES ASSUME NEW i \in 1 .. n + p, NEW j \in 1 .. n + p, i < j, h[i].kind = "zero" PROVE h[j].kind \in {"zero", "junk"}
    BY <1>5 DEF ZeroLast
  <2>1. CASE j \in n + 1 .. n + p
    BY <1>8, <2>1, EntryConst
  <2>2. CASE j \in 1 .. n
    <3>1. i \in 1 .. n
      BY <2>2
    <3>2. h[i] = g[i] /\ h[j] = g[j]
      BY <1>7, <2>2, <3>1
    <3> QED
      BY <1>2, <2>2, <3>1, <3>2 DEF ZeroLast
  <2> QED
    BY <2>1, <2>2
<1> QED
  BY <1>2, <1>5, <1>7, <1>8, <1>10, <1>11, <1>12

LEMMA ClearedIs ==
    ASSUME NEW T, Shaped(T), Typed(T), ZeroLast(T), \A i \in 1 .. T.len : T.slot[i].kind = "junk" <=> i > T.len - PerSector,
           NEW U, U = Cleared(T)
    PROVE  /\ Shaped(U) /\ Typed(U) /\ ZeroLast(U) /\ U.len = T.len
           /\ \A i \in 1 .. T.len : U.slot[i] = IF T.slot[i].kind = "junk" THEN Zero ELSE T.slot[i]
<1>1. PICK g : g = T.slot
  OBVIOUS
<1>2. PICK n \in Nat, p \in Nat : n = T.len /\ g = T.slot /\ p = PerSector /\ p > 0
  BY <1>1, PartsOf
<1>3. PICK h : h = [i \in 1 .. MaxSlots |-> IF i \in n - p + 1 .. n THEN Zero ELSE g[i]]
  OBVIOUS
<1>4. U = [len |-> n, slot |-> h]
  <2>1. T = [len |-> n, slot |-> g]
    BY <1>2 DEF Shaped
  <2>2. U = [T EXCEPT !.slot = h]
    BY <1>2, <1>3 DEF Cleared
  <2> QED
    BY <2>1, <2>2
<1>5. U.len = n /\ U.slot = h
  BY <1>4
<1>6. n <= MaxSlots /\ n \in Lens /\ MaxSlots \in Nat
  BY <1>2, LenIs, Nums DEF Shaped
<1>7. \A i \in 1 .. n : g[i].kind = "junk" <=> i \in n - p + 1 .. n
  BY <1>2
<1>8. \A i \in 1 .. n : h[i] = IF g[i].kind = "junk" THEN Zero ELSE g[i]
  BY <1>3, <1>6, <1>7
<1>9. \A i \in 1 .. MaxSlots : EntryOK(h[i])
  <2> TAKE i \in 1 .. MaxSlots
  <2>1. h[i] = Zero \/ h[i] = g[i]
    BY <1>3
  <2> QED
    BY <1>2, <2>1, EntryConst DEF Typed
<1>10. Shaped(U)
  BY <1>3, <1>4, <1>5, <1>6 DEF Shaped
<1>11. Typed(U)
  BY <1>5, <1>9 DEF Typed
<1>12. ZeroLast(U)
  <2> SUFFICES ASSUME NEW i \in 1 .. n, NEW j \in 1 .. n, i < j, h[i].kind = "zero" PROVE h[j].kind \in {"zero", "junk"}
    BY <1>5 DEF ZeroLast
  <2>1. CASE g[j].kind = "junk"
    BY <1>8, <2>1, EntryConst
  <2>2. CASE g[j].kind # "junk"
    <3>1. h[j] = g[j] /\ ~(j > n - p) /\ ~(i > n - p)
      BY <1>2, <1>7, <1>8, <2>2
    <3>2. h[i] = g[i]
      BY <1>7, <1>8, <3>1
    <3> QED
      BY <1>2, <3>1, <3>2 DEF ZeroLast
  <2> QED
    BY <2>1, <2>2
<1> QED
  BY <1>2, <1>5, <1>8, <1>10, <1>11, <1>12

(***************************************************************************)
(* Steps of a call                                                         *)
(***************************************************************************)
\* What the step at the head of todo asks of the tables, and what it makes of them.
LEMMA LinkTables ==
    ASSUME TablesOK, LinkCluster(Link), UNCHANGED <<fs_type, objects>>, table.len + PerSector \in Lens
    PROVE  /\ TablesOK' /\ dirty' = 0 /\ table'.len = table.len + PerSector
           /\ \A i \in 1 .. table.len : table'.slot[i] = table.slot[i]
           /\ \A i \in table.len + 1 .. table'.len : table'.slot[i] = Junk
<1>1. /\ table' = Grown(table, Junk) /\ disk' = Grown(Flushed, Junk) /\ dirty' = 0
  BY DEF LinkCluster
<1>2. /\ Shaped(table) /\ Typed(table) /\ ZeroLast(table)
  BY DEF TablesOK
<1>3. /\ Shaped(Flushed) /\ Typed(Flushed) /\ ZeroLast(Flushed) /\ Flushed.len = table.len
      /\ \A i \in 1 .. table.len : Flushed.slot[i] = table.slot[i]
  BY FlushedIs
<1>4. PICK T, D : T = table' /\ D = disk'
  OBVIOUS
<1>5. /\ Shaped(T) /\ Typed(T) /\ ZeroLast(T) /\ T.len = table.len + PerSector
      /\ \A i \in 1 .. table.len : T.slot[i] = table.slot[i]
      /\ \A i \in table.len + 1 .. T.len : T.slot[i] = Junk
  BY <1>1, <1>2, <1>4, GrownIs
<1>6. /\ Shaped(D) /\ Typed(D) /\ ZeroLast(D) /\ D.len = table.len + PerSector
      /\ \A i \in 1 .. table.len : D.slot[i] = table.slot[i]
      /\ \A i \in table.len + 1 .. D.len : D.slot[i] = Junk
  <2>1. Flushed.len + PerSector \in Lens
    BY <1>3
  <2>2. /\ Shaped(D) /\ Typed(D) /\ ZeroLast(D) /\ D.len = Flushed.len + PerSector
        /\ \A i \in 1 .. Flushed.len : D.slot[i] = Flushed.slot[i]
        /\ \A i \in Flushed.len + 1 .. D.len : D.slot[i] = Junk
    BY <1>1, <1>3, <1>4, <2>1, GrownIs
  <2> QED
    BY <1>3, <2>2
<1>7. Typed(T)' /\ Typed(D)'
  <2>1. objects \in Nat
    BY DEF TablesOK
  <2> QED
    BY <1>5, <1>6, <2>1, TypedStays
<1>8. \A i \in 1 .. T.len : D.slot[i] = T.slot[i]
  <2> TAKE i \in 1 .. T.len
  <2>1. table.len \in Nat /\ PerSector \in Nat
    BY <1>2, LenIs, Nums DEF Shaped
  <2>2. i \in 1 .. table.len \/ i \in table.len + 1 .. T.len
    BY <1>5, <2>1
  <2> QED
    BY <1>5, <1>6, <2>2
<1>9. Lagging'
  <2>1. 0 \in 0 .. MaxClusters
    BY Nums
  <2> QED
    BY <1>1, <1>4, <1>5, <1>6, <1>8, <2>1 DEF Lagging
<1>10. TablesOK'
  <2>1. fs_type' \in FsTypes /\ objects' \in Nat
    BY DEF TablesOK
  <2>2. Typed(table)' /\ Typed(disk)'
    BY <1>4, <1>7 DEF Typed
  <2>3. Shaped(table)' /\ Shaped(disk)' /\ ZeroLast(table)' /\ ZeroLast(disk)'
    BY <1>4, <1>5, <1>6 DEF Shaped, ZeroLast
  <2> QED
    BY <1>9, <2>1, <2>2, <2>3 DEF TablesOK
<1> QED
  BY <1>1, <1>4, <1>5, <1>10

LEMMA ClearTables ==
    ASSUME TablesOK, ClearCluster(Clear), UNCHANGED <<fs_type, objects>>, dirty = 0,
           \A i \in 1 .. table.len : table.slot[i].kind = "junk" <=> i > table.len - PerSector
    PROVE  /\ TablesOK' /\ dirty' = 0 /\ table'.len = table.len
           /\ \A i \in 1 .. table.len : table'.slot[i] = IF table.slot[i].kind = "junk" THEN Zero ELSE table.slot[i]
<1>1. /\ table' = Cleared(table) /\ disk' = Cleared(disk) /\ dirty' = 0
  BY DEF ClearCluster
<1>2. /\ Shaped(table) /\ Typed(table) /\ ZeroLast(table) /\ Shaped(disk) /\ Typed(disk) /\ ZeroLast(disk)
  BY DEF TablesOK
<1>3. disk.len = table.len /\ \A i \in 1 .. table.len : disk.slot[i] = table.slot[i]
  <2>1. \A i \in 1 .. table.len : SectorOf(i) # 0
    BY Pos
  <2> QED
    BY <2>1 DEF TablesOK, Lagging
<1>4. PICK T, D : T = table' /\ D = disk'
  OBVIOUS
<1>5. /\ Shaped(T) /\ Typed(T) /\ ZeroLast(T) /\ T.len = table.len
      /\ \A i \in 1 .. table.len : T.slot[i] = IF table.slot[i].kind = "junk" THEN Zero ELSE table.slot[i]
  BY <1>1, <1>2, <1>4, ClearedIs
<1>6. /\ Shaped(D) /\ Typed(D) /\ ZeroLast(D) /\ D.len = table.len
      /\ \A i \in 1 .. table.len : D.slot[i] = IF table.slot[i].kind = "junk" THEN Zero ELSE table.slot[i]
  <2>1. \A i \in 1 .. disk.len : disk.slot[i].kind = "junk" <=> i > disk.len - PerSector
    BY <1>3
  <2>2. /\ Shaped(D) /\ Typed(D) /\ ZeroLast(D) /\ D.len = disk.len
        /\ \A i \in 1 .. disk.len : D.slot[i] = IF disk.slot[i].kind = "junk" THEN Zero ELSE disk.slot[i]
    BY <1>1, <1>2, <1>4, <2>1, ClearedIs
  <2> QED
    BY <1>3, <2>2
<1>7. Typed(T)' /\ Typed(D)'
  <2>1. objects \in Nat
    BY DEF TablesOK
  <2> QED
    BY <1>5, <1>6, <2>1, TypedStays
<1>8. Lagging'
  <2>1. 0 \in 0 .. MaxClusters
    BY Nums
  <2> QED
    BY <1>1, <1>4, <1>5, <1>6, <2>1 DEF Lagging
<1>9. TablesOK'
  <2>1. fs_type' \in FsTypes /\ objects' \in Nat
    BY DEF TablesOK
  <2>2. Typed(table)' /\ Typed(disk)'
    BY <1>4, <1>7 DEF Typed
  <2>3. Shaped(table)' /\ Shaped(disk)' /\ ZeroLast(table)' /\ ZeroLast(disk)'
    BY <1>4, <1>5, <1>6 DEF Shaped, ZeroLast
  <2> QED
    BY <1>8, <2>1, <2>2, <2>3 DEF TablesOK
<1> QED
  BY <1>1, <1>4, <1>5, <1>9

LEMMA PutTables ==
    ASSUME TablesOK, NEW i \in 1 .. table.len, NEW e, PutEntry(Put(i, e)), UNCHANGED <<fs_type, objects>>,
           EntryOK(e), e.kind \notin {"zero", "junk"}, \A j \in 1 .. i - 1 : ~Blank(table, j)
    PROVE  /\ TablesOK' /\ table'.len = table.len
           /\ table'.slot[i] = e /\ \A j \in 1 .. table.len : j # i => table'.slot[j] = table.slot[j]
<1>1. /\ table' = [table EXCEPT !.slot[i] = e] /\ dirty' = SectorOf(i)
      /\ (disk' = disk /\ dirty \in {0, SectorOf(i)}) \/ disk' = Flushed
  BY DEF PutEntry, Put
<1>2. /\ Shaped(table) /\ Typed(table) /\ ZeroLast(table) /\ Shaped(disk) /\ Typed(disk) /\ ZeroLast(disk) /\ objects \in Nat
  BY DEF TablesOK
<1>3. /\ Shaped(Flushed) /\ Typed(Flushed) /\ ZeroLast(Flushed) /\ Flushed.len = table.len
      /\ \A j \in 1 .. table.len : Flushed.slot[j] = table.slot[j]
  BY FlushedIs
<1>4. PICK T, D : T = table' /\ D = disk'
  OBVIOUS
<1>5. i \in 1 .. MaxSlots /\ i \in Nat /\ SectorOf(i) \in 1 .. MaxClusters /\ \A j \in 1 .. table.len : j \in 1 .. MaxSlots
  BY Pos
<1>6. /\ Shaped(T) /\ Typed(T) /\ T.len = table.len
      /\ T.slot[i] = e /\ \A j \in 1 .. table.len : j # i => T.slot[j] = table.slot[j]
  <2>1. /\ Shaped(T) /\ Typed(T) /\ T.len = table.len
        /\ T.slot[i] = e /\ \A j \in 1 .. MaxSlots : j # i => T.slot[j] = table.slot[j]
    <3>1. SetAt(table, i, e, T)
      BY <1>1, <1>2, <1>4, <1>5 DEF SetAt
    <3> QED
      BY <3>1, SlotSet
  <2> QED
    BY <1>5, <2>1
<1>7. ZeroLast(T)
  <2> SUFFICES ASSUME NEW a \in 1 .. table.len, NEW b \in 1 .. table.len, a < b, T.slot[a].kind = "zero" PROVE T.slot[b].kind \in {"zero", "junk"}
    BY <1>6 DEF ZeroLast
  <2>1. table.len \in Nat
    BY <1>2, LenIs DEF Shaped
  <2>2. a # i /\ T.slot[a] = table.slot[a] /\ table.slot[a].kind = "zero"
    BY <1>6
  <2>3. a >= i
    <3>1. Blank(table, a)
      BY <2>2 DEF Blank
    <3> QED
      BY <1>5, <2>1, <3>1
  <2>4. b # i /\ T.slot[b] = table.slot[b]
    BY <1>5, <1>6, <2>1, <2>3
  <2> QED
    BY <1>2, <2>2, <2>4 DEF ZeroLast
<1>8. /\ Shaped(D) /\ Typed(D) /\ ZeroLast(D) /\ D.len = table.len
      /\ \A j \in 1 .. table.len : SectorOf(j) # SectorOf(i) => D.slot[j] = table.slot[j]
  <2>1. CASE disk' = disk /\ dirty \in {0, SectorOf(i)}
    <3>1. disk.len = table.len /\ \A j \in 1 .. table.len : SectorOf(j) # dirty => disk.slot[j] = table.slot[j]
      BY DEF TablesOK, Lagging
    <3>2. \A j \in 1 .. table.len : SectorOf(j) # SectorOf(i) => disk.slot[j] = table.slot[j]
      <4>1. \A j \in 1 .. table.len : SectorOf(j) # 0
        BY Pos
      <4> QED
        BY <2>1, <3>1, <4>1
    <3> QED
      BY <1>2, <1>4, <2>1, <3>1, <3>2
  <2>2. CASE disk' = Flushed
    BY <1>3, <1>4, <2>2
  <2> QED
    BY <1>1, <2>1, <2>2
<1>9. Typed(T)' /\ Typed(D)'
  BY <1>2, <1>6, <1>8, TypedStays
<1>10. Lagging'
  <2>1. \A j \in 1 .. table.len : SectorOf(j) # SectorOf(i) => D.slot[j] = T.slot[j]
    BY <1>6, <1>8
  <2>2. dirty' \in 0 .. MaxClusters
    BY <1>1, <1>5
  <2> QED
    BY <1>1, <1>4, <1>6, <1>8, <2>1, <2>2 DEF Lagging, SectorOf
<1>11. TablesOK'
  <2>1. fs_type' \in FsTypes /\ objects' \in Nat
    BY DEF TablesOK
  <2>2. Typed(table)' /\ Typed(disk)'
    BY <1>4, <1>9 DEF Typed
  <2>3. Shaped(table)' /\ Shaped(disk)' /\ ZeroLast(table)' /\ ZeroLast(disk)'
    BY <1>4, <1>6, <1>7, <1>8 DEF Shaped, ZeroLast
  <2> QED
    BY <1>10, <2>1, <2>2, <2>3 DEF TablesOK
<1> QED
  BY <1>4, <1>6, <1>11

LEMMA SyncTables ==
    ASSUME TablesOK, SyncFs(Sync), UNCHANGED <<fs_type, objects>> PROVE TablesOK' /\ table' = table
<1>1. table' = table /\ DiskMoves /\ objects \in Nat
  BY DEF SyncFs, DiskMoves, TablesOK
<1> QED
  BY <1>1, StillOK

(***************************************************************************)
(* The steps that are left of a call                                       *)
(***************************************************************************)
LEMMA StepConst == /\ Link.do = "link" /\ Clear.do = "clear" /\ Sync.do = "sync"
                   /\ Link # Clear /\ Link # Sync /\ Clear # Sync
                   /\ \A i, e : Put(i, e).do = "put" /\ Put(i, e).at = i /\ Put(i, e).entry = e
  BY DEF Link, Clear, Sync, Put

\* What the first of the steps q makes of table T.
HeadMade(T, U, q) ==
    \A i \in Nat \ {0} :
        IF IsPut(q, 1, i) THEN ~Blank(U, i) /\ U.slot[i] = q[1].entry
        ELSE (Blank(U, i) <=> Blank(T, i)) /\ (~Blank(T, i) => U.slot[i] = T.slot[i])

LEMMA SeqSelf == ASSUME NEW S, NEW r, r \in Seq(S) PROVE IsSeq(r) /\ Len(r) \in Nat
<1>1. Len(r) \in Nat /\ r \in [1 .. Len(r) -> S] /\ DOMAIN r = 1 .. Len(r)
  OBVIOUS
<1>2. PICK R : R = {r[k] : k \in DOMAIN r}
  OBVIOUS
<1>3. r \in [1 .. Len(r) -> R]
  BY <1>1, <1>2
<1>4. r \in Seq(R)
  BY <1>1, <1>3
<1> QED
  BY <1>1, <1>2, <1>4 DEF IsSeq
\* A function on 1 .. n is one.
LEMMA SeqOf == ASSUME NEW n \in Nat, NEW r, r = [k \in 1 .. n |-> r[k]] PROVE IsSeq(r) /\ Len(r) = n
<1>1. PICK R : R = {r[k] : k \in 1 .. n}
  OBVIOUS
<1>2. r \in [1 .. n -> R]
  BY <1>1
<1>3. r \in Seq(R) /\ Len(r) = n
  BY <1>2
<1> QED
  BY <1>3, SeqSelf

LEMMA TailIs ==
    ASSUME NEW q, IsSeq(q), q # <<>>
    PROVE  /\ Len(q) \in Nat /\ Len(q) >= 1 /\ Len(Tail(q)) = Len(q) - 1
           /\ \A k \in 1 .. Len(q) - 1 : Tail(q)[k] = q[k + 1]
           /\ IsSeq(Tail(q))
           /\ Head(q) = q[1]
<1>1. PICK S : q \in Seq(S)
  BY DEF IsSeq
<1>2. Len(q) \in Nat /\ Len(q) >= 1 /\ Len(Tail(q)) = Len(q) - 1 /\ Head(q) = q[1]
  BY <1>1
<1>3. \A k \in 1 .. Len(q) - 1 : Tail(q)[k] = q[k + 1]
  BY <1>1, <1>2
<1>4. Tail(q) \in Seq(S)
  BY <1>1, <1>2
<1>5. IsSeq(Tail(q))
  BY <1>4, SeqSelf
<1> QED
  BY <1>2, <1>3, <1>4, <1>5

LEMMA TailSteps ==
    ASSUME NEW T, NEW U, NEW q, NEW ln, NEW f, StepsOK(T, q, ln), q # <<>>, Makes(T, q, Ends(q, ln), f),
           U.len = ln[2], HeadMade(T, U, q)
    PROVE  \E l : StepsOK(U, Tail(q), l) /\ Makes(U, Tail(q), Ends(Tail(q), l), f) /\ Ends(Tail(q), l) = Ends(q, ln)
<1>1. PICK r : r = Tail(q)
  OBVIOUS
<1>2. /\ Len(q) \in Nat /\ Len(q) >= 1 /\ Len(r) = Len(q) - 1
      /\ \A k \in 1 .. Len(q) - 1 : r[k] = q[k + 1]
      /\ IsSeq(r)
  <2>1. IsSeq(q)
    BY DEF StepsOK
  <2> QED
    BY <1>1, <2>1, TailIs
<1>3. PICK n \in Nat : n + 1 = Len(q)
  BY <1>2
<1>4. Len(r) = n /\ \A k \in 1 .. n : r[k] = q[k + 1]
  BY <1>2, <1>3
<1>5. PICK l : l = [k \in 1 .. n + 1 |-> ln[k + 1]]
  OBVIOUS
<1>6. ln \in [1 .. n + 2 -> Lens] /\ l \in [1 .. n + 1 -> Lens] /\ l[1] = U.len /\ \A k \in 1 .. n + 1 : l[k] = ln[k + 1]
  <2>1. ln \in [1 .. n + 2 -> Lens]
    <3>1. ln \in [1 .. Len(q) + 1 -> Lens]
      BY DEF StepsOK
    <3>2. Len(q) + 1 = n + 2
      BY <1>3
    <3> QED
      BY <3>1, <3>2
  <2> QED
    BY <1>5, <2>1
<1>7. Ends(r, l) = Ends(q, ln)
  BY <1>3, <1>4, <1>6 DEF Ends
<1>8. \A k \in 1 .. n : \A i : IsPut(r, k, i) <=> IsPut(q, k + 1, i)
  BY <1>4 DEF IsPut
<1>9. ASSUME NEW k \in 1 .. n PROVE StepOK(U, r, l, k)
  <2>1. StepOK(T, q, ln, k + 1)
    BY <1>3 DEF StepsOK
  <2>2. r[k] = q[k + 1] /\ l[k] = ln[k + 1] /\ l[k + 1] = ln[(k + 1) + 1]
    <3>1. k \in 1 .. n + 1 /\ k + 1 \in 1 .. n + 1
      OBVIOUS
    <3> QED
      BY <1>4, <1>6, <3>1
  <2>3. CASE q[k + 1] = Link /\ k + 1 < Len(q) /\ q[(k + 1) + 1] = Clear /\ ln[(k + 1) + 1] = ln[k + 1] + PerSector
    <3>1. k < n /\ r[k + 1] = q[(k + 1) + 1]
      BY <1>3, <1>4, <2>3
    <3> QED
      BY <1>4, <2>2, <2>3, <3>1 DEF StepOK
  <2>4. CASE q[k + 1] = Clear /\ (k + 1 > 1 => q[(k + 1) - 1] = Link) /\ ln[(k + 1) + 1] = ln[k + 1]
    <3>1. k > 1 => r[k - 1] = Link
      <4>1. k > 1 => k - 1 \in 1 .. n /\ (k - 1) + 1 = k /\ (k + 1) - 1 = k /\ k + 1 > 1
        OBVIOUS
      <4> QED
        BY <1>4, <2>4, <4>1
    <3> QED
      BY <2>2, <2>4, <3>1 DEF StepOK
  <2>5. CASE q[k + 1] = Sync /\ ln[(k + 1) + 1] = ln[k + 1]
    BY <2>2, <2>5 DEF StepOK
  <2>6. CASE /\ q[k + 1].do = "put" /\ q[k + 1] = Put(q[k + 1].at, q[k + 1].entry) /\ ln[(k + 1) + 1] = ln[k + 1]
             /\ q[k + 1].at \in 1 .. ln[k + 1] /\ q[k + 1].entry.kind \notin {"zero", "junk"}
             /\ \A i \in 1 .. q[k + 1].at - 1 : Blank(T, i) => \E m \in 1 .. (k + 1) - 1 : IsPut(q, m, i)
    <3>1. ASSUME NEW i \in 1 .. r[k].at - 1, Blank(U, i) PROVE \E m \in 1 .. k - 1 : IsPut(r, m, i)
      <4>1. i \in Nat \ {0}
        OBVIOUS
      <4>2. ~IsPut(q, 1, i) /\ Blank(T, i)
        BY <3>1, <4>1 DEF HeadMade
      <4>3. PICK m \in 1 .. (k + 1) - 1 : IsPut(q, m, i)
        BY <2>2, <2>6, <4>2
      <4>4. m # 1
        BY <4>2, <4>3
      <4>5. m - 1 \in 1 .. k - 1 /\ m - 1 \in 1 .. n /\ (m - 1) + 1 = m
        BY <4>4
      <4> QED
        BY <1>8, <4>3, <4>5
    <3> QED
      BY <2>2, <2>6, <3>1 DEF StepOK
  <2> QED
    BY <2>1, <2>3, <2>4, <2>5, <2>6 DEF StepOK
<1>10. ASSUME NEW k \in 1 .. n, NEW m \in 1 .. n, r[k].do = "put", r[m].do = "put", r[k].at = r[m].at PROVE k = m
  <2>1. k + 1 \in 1 .. Len(q) /\ m + 1 \in 1 .. Len(q)
    BY <1>3
  <2>2. k + 1 = m + 1
    BY <1>4, <1>10, <2>1 DEF StepsOK
  <2> QED
    BY <2>2
<1>11. StepsOK(U, r, l)
  BY <1>2, <1>4, <1>6, <1>9, <1>10 DEF StepsOK
<1>12. Makes(U, r, Ends(q, ln), f)
  <2>1. ASSUME NEW k \in 1 .. n, r[k].do = "put" PROVE f[r[k].at] = r[k].entry
    <3>1. k + 1 \in 1 .. Len(q) /\ r[k] = q[k + 1]
      BY <1>3, <1>4
    <3> QED
      BY <2>1, <3>1 DEF Makes
  <2>2. ASSUME NEW i \in 1 .. Ends(q, ln), \A k \in 1 .. n : ~IsPut(r, k, i)
        PROVE  f[i] = IF Blank(U, i) THEN Zero ELSE U.slot[i]
    <3>1. i \in Nat \ {0}
      OBVIOUS
    <3>2. CASE IsPut(q, 1, i)
      <4>1. ~Blank(U, i) /\ U.slot[i] = q[1].entry
        BY <3>1, <3>2 DEF HeadMade
      <4>2. 1 \in 1 .. Len(q) /\ q[1].do = "put" /\ q[1].at = i
        BY <1>2, <3>2 DEF IsPut
      <4> QED
        BY <4>1, <4>2 DEF Makes
    <3>3. CASE ~IsPut(q, 1, i)
      <4>1. \A k \in 1 .. Len(q) : ~IsPut(q, k, i)
        <5> SUFFICES ASSUME NEW k \in 1 .. Len(q), IsPut(q, k, i) PROVE FALSE
          OBVIOUS
        <5>1. k # 1
          BY <3>3
        <5>2. k - 1 \in 1 .. n /\ (k - 1) + 1 = k
          BY <1>3, <5>1
        <5> QED
          BY <1>8, <2>2, <5>2
      <4>2. f[i] = IF Blank(T, i) THEN Zero ELSE T.slot[i]
        BY <4>1 DEF Makes
      <4>3. (Blank(U, i) <=> Blank(T, i)) /\ (~Blank(T, i) => U.slot[i] = T.slot[i])
        BY <3>1, <3>3 DEF HeadMade
      <4> QED
        BY <4>2, <4>3
    <3> QED
      BY <3>2, <3>3
  <2> QED
    BY <1>4, <2>1, <2>2 DEF Makes
<1>13. StepsOK(U, Tail(q), l) /\ Makes(U, Tail(q), Ends(Tail(q), l), f) /\ Ends(Tail(q), l) = Ends(q, ln)
  BY <1>1, <1>7, <1>11, <1>12
<1> QED
  BY <1>13

LEMMA PutsStay ==
    ASSUME NEW q, PutsTyped(q), fs_type' = fs_type, objects \in Nat, objects' \in Nat, objects <= objects'
    PROVE  PutsTyped(q)'
  BY EntryStays DEF PutsTyped

\* A step, as what it does to the table.
Stepped(T, U, q, ln) ==
    /\ U.len = ln[2] /\ HeadMade(T, U, q)
    /\ \A i \in 1 .. U.len : U.slot[i].kind = "junk" <=> (q[1] = Link /\ i > U.len - PerSector)
LEMMA LinkSteps ==
    ASSUME TablesOK, NEW ln, StepsOK(table, todo, ln), NewCluster(table, todo), todo # <<>>, todo[1] = Link,
           LinkCluster(Link), UNCHANGED <<fs_type, objects>>
    PROVE  TablesOK' /\ Stepped(table, table', todo, ln) /\ dirty' = 0
<1>1. 1 \in 1 .. Len(todo)
  BY TailIs DEF StepsOK
<1>2. ln[1] = table.len /\ ln[2] = ln[1] + PerSector /\ ln[2] \in Lens
  <2>1. StepOK(table, todo, ln, 1) /\ ln[1] = table.len /\ ln \in [1 .. Len(todo) + 1 -> Lens]
    BY <1>1 DEF StepsOK
  <2>2. ln[2] = ln[1] + PerSector
    BY <1>1, <2>1, StepConst DEF StepOK
  <2>3. 2 \in 1 .. Len(todo) + 1
    BY TailIs DEF StepsOK
  <2> QED
    BY <2>1, <2>2, <2>3
<1>3. table.len + PerSector \in Lens
  BY <1>2
<1>4. /\ TablesOK' /\ dirty' = 0 /\ table'.len = table.len + PerSector
      /\ \A i \in 1 .. table.len : table'.slot[i] = table.slot[i]
      /\ \A i \in table.len + 1 .. table'.len : table'.slot[i] = Junk
  BY <1>3, LinkTables
<1>5. table.len \in Nat /\ PerSector \in Nat /\ PerSector > 0
  BY PartsOf DEF TablesOK
<1>6. \A i : ~IsPut(todo, 1, i)
  BY StepConst DEF IsPut
<1>7. ASSUME NEW i \in Nat \ {0} PROVE (Blank(table', i) <=> Blank(table, i)) /\ (~Blank(table, i) => table'.slot[i] = table.slot[i])
  <2>1. CASE i \in 1 .. table.len
    <3>1. ~(i > table.len) /\ ~(i > table'.len) /\ table'.slot[i] = table.slot[i]
      BY <1>4, <1>5, <2>1
    <3> QED
      BY <3>1 DEF Blank
  <2>2. CASE i > table.len
    <3>1. i > table'.len \/ table'.slot[i] = Junk
      BY <1>4, <1>5, <2>2
    <3> QED
      BY <2>2, <3>1, EntryConst DEF Blank
  <2> QED
    BY <1>5, <2>1, <2>2
<1>8. HeadMade(table, table', todo)
  BY <1>6, <1>7 DEF HeadMade
<1>9. ASSUME NEW i \in 1 .. table'.len PROVE table'.slot[i].kind = "junk" <=> i > table'.len - PerSector
  <2>1. CASE i \in 1 .. table.len
    <3>1. table.slot[i].kind # "junk"
      BY <2>1, StepConst DEF NewCluster
    <3> QED
      BY <1>4, <1>5, <2>1, <3>1
  <2>2. CASE i \in table.len + 1 .. table'.len
    BY <1>4, <1>5, <2>2, EntryConst
  <2> QED
    BY <1>4, <1>5, <2>1, <2>2
<1> QED
  BY <1>2, <1>4, <1>8, <1>9 DEF Stepped

LEMMA ClearSteps ==
    ASSUME TablesOK, NEW ln, StepsOK(table, todo, ln), NewCluster(table, todo), todo # <<>>, todo[1] = Clear,
           ClearCluster(Clear), UNCHANGED <<fs_type, objects>>
    PROVE  TablesOK' /\ Stepped(table, table', todo, ln) /\ dirty' = 0
<1>1. 1 \in 1 .. Len(todo)
  BY TailIs DEF StepsOK
<1>2. ln[1] = table.len /\ ln[2] = ln[1]
  <2>1. StepOK(table, todo, ln, 1) /\ ln[1] = table.len
    BY <1>1 DEF StepsOK
  <2> QED
    BY <1>1, <2>1, StepConst DEF StepOK
<1>3. /\ dirty = 0
      /\ \A i \in 1 .. table.len : table.slot[i].kind = "junk" <=> i > table.len - PerSector
  BY DEF NewCluster
<1>4. /\ TablesOK' /\ dirty' = 0 /\ table'.len = table.len
      /\ \A i \in 1 .. table.len : table'.slot[i] = IF table.slot[i].kind = "junk" THEN Zero ELSE table.slot[i]
  BY <1>3, ClearTables
<1>5. table.len \in Nat /\ PerSector \in Nat /\ PerSector > 0
  BY PartsOf DEF TablesOK
<1>6. \A i : ~IsPut(todo, 1, i)
  BY StepConst DEF IsPut
<1>7. ASSUME NEW i \in Nat \ {0} PROVE (Blank(table', i) <=> Blank(table, i)) /\ (~Blank(table, i) => table'.slot[i] = table.slot[i])
  <2>1. CASE i \in 1 .. table.len
    <3>1. table'.slot[i] = IF table.slot[i].kind = "junk" THEN Zero ELSE table.slot[i]
      BY <1>4, <2>1
    <3> QED
      BY <1>4, <3>1, EntryConst DEF Blank
  <2>2. CASE i > table.len
    BY <1>4, <2>2 DEF Blank
  <2> QED
    BY <1>5, <2>1, <2>2
<1>8. HeadMade(table, table', todo)
  BY <1>6, <1>7 DEF HeadMade
<1>9. ASSUME NEW i \in 1 .. table'.len PROVE table'.slot[i].kind # "junk"
  BY <1>4, EntryConst
<1> QED
  BY <1>2, <1>4, <1>8, <1>9, StepConst DEF Stepped

LEMMA SyncSteps ==
    ASSUME TablesOK, NEW ln, StepsOK(table, todo, ln), NewCluster(table, todo), todo # <<>>, todo[1] = Sync,
           SyncFs(Sync), UNCHANGED <<fs_type, objects>>
    PROVE  TablesOK' /\ Stepped(table, table', todo, ln) /\ dirty' = 0
<1>1. 1 \in 1 .. Len(todo)
  BY TailIs DEF StepsOK
<1>2. ln[1] = table.len /\ ln[2] = ln[1]
  <2>1. StepOK(table, todo, ln, 1) /\ ln[1] = table.len
    BY <1>1 DEF StepsOK
  <2> QED
    BY <1>1, <2>1, StepConst DEF StepOK
<1>3. TablesOK' /\ table' = table /\ dirty' = 0
  BY SyncTables DEF SyncFs
<1>4. HeadMade(table, table', todo)
  BY <1>3, StepConst DEF HeadMade, IsPut
<1>5. \A i \in 1 .. table.len : table.slot[i].kind # "junk"
  BY StepConst DEF NewCluster
<1> QED
  BY <1>2, <1>3, <1>4, <1>5, StepConst DEF Stepped

LEMMA PutSteps ==
    ASSUME TablesOK, NEW ln, StepsOK(table, todo, ln), NewCluster(table, todo), todo # <<>>, todo[1].do = "put", EntryOK(todo[1].entry),
           PutEntry(todo[1]), UNCHANGED <<fs_type, objects>>
    PROVE  TablesOK' /\ Stepped(table, table', todo, ln)
<1>1. 1 \in 1 .. Len(todo)
  BY TailIs DEF StepsOK
<1>2. PICK a, e : a = todo[1].at /\ e = todo[1].entry
  OBVIOUS
<1>3. /\ todo[1] = Put(a, e) /\ ln[1] = table.len /\ ln[2] = ln[1] /\ a \in 1 .. table.len /\ EntryOK(e)
      /\ e.kind \notin {"zero", "junk"} /\ \A i \in 1 .. a - 1 : ~Blank(table, i)
  <2>1. StepOK(table, todo, ln, 1) /\ ln[1] = table.len
    BY <1>1 DEF StepsOK
  <2> QED
    BY <1>2, <2>1, StepConst DEF StepOK
<1>4. /\ TablesOK' /\ table'.len = table.len
      /\ table'.slot[a] = e /\ \A j \in 1 .. table.len : j # a => table'.slot[j] = table.slot[j]
  <2>1. PutEntry(Put(a, e))
    BY <1>3
  <2> QED
    BY <1>3, <2>1, PutTables
<1>5. table.len \in Nat
  BY PartsOf DEF TablesOK
<1>6. ASSUME NEW i \in Nat \ {0}
      PROVE  IF IsPut(todo, 1, i) THEN ~Blank(table', i) /\ table'.slot[i] = todo[1].entry
             ELSE (Blank(table', i) <=> Blank(table, i)) /\ (~Blank(table, i) => table'.slot[i] = table.slot[i])
  <2>1. IsPut(todo, 1, i) <=> i = a
    BY <1>2 DEF IsPut
  <2>2. CASE i = a
    <3>1. todo[1].entry = e /\ table'.slot[i] = e /\ e.kind \notin {"zero", "junk"}
      BY <1>2, <1>3, <1>4, <2>2
    <3>2. ~(i > table'.len)
      BY <1>3, <1>4, <1>5, <2>2
    <3>3. ~Blank(table', i)
      BY <3>1, <3>2 DEF Blank
    <3> QED
      BY <2>1, <2>2, <3>1, <3>3
  <2>3. CASE i # a /\ i \in 1 .. table.len
    BY <1>4, <2>1, <2>3 DEF Blank
  <2>4. CASE i # a /\ i > table.len
    BY <1>4, <2>1, <2>4 DEF Blank
  <2> QED
    BY <1>5, <2>2, <2>3, <2>4
<1>7. HeadMade(table, table', todo)
  BY <1>6 DEF HeadMade
<1>8. todo[1] # Link /\ todo[1] # Clear
  BY StepConst
<1>9. ASSUME NEW i \in 1 .. table.len PROVE table'.slot[i].kind # "junk"
  <2>1. table.slot[i].kind # "junk"
    BY <1>8 DEF NewCluster
  <2> QED
    BY <1>3, <1>4, <2>1
<1> QED
  BY <1>3, <1>4, <1>7, <1>8, <1>9 DEF Stepped

\* After a step of a call, what is left of it makes the same table.
LEMMA StepPlan ==
    ASSUME TablesOK, NEW ln, NEW f, Plan(table, todo, ln, f), Step
    PROVE  TablesOK' /\ \E l : Plan(table, todo, l, f)' /\ Ends(todo, l)' = Ends(todo, ln)
<1>1. todo # <<>> /\ todo' = Tail(todo) /\ UNCHANGED <<fs_type, objects>>
  BY DEF Step
<1>2. StepsOK(table, todo, ln) /\ PutsTyped(todo) /\ NewCluster(table, todo) /\ Makes(table, todo, Ends(todo, ln), f)
  BY DEF Plan
<1>3. 1 \in 1 .. Len(todo) /\ Head(todo) = todo[1]
  BY <1>1, <1>2, TailIs DEF StepsOK
<1>4. StepOK(table, todo, ln, 1)
  BY <1>2, <1>3 DEF StepsOK
<1>5. TablesOK' /\ Stepped(table, table', todo, ln) /\ (todo[1] = Link => dirty' = 0)
  <2>1. CASE LinkCluster(todo[1])
    <3>1. todo[1] = Link
      BY <1>4, <2>1, StepConst DEF StepOK, LinkCluster
    <3> QED
      BY <1>1, <1>2, <2>1, <3>1, LinkSteps
  <2>2. CASE ClearCluster(todo[1])
    <3>1. todo[1] = Clear
      BY <1>4, <2>2, StepConst DEF StepOK, ClearCluster
    <3> QED
      BY <1>1, <1>2, <2>2, <3>1, ClearSteps
  <2>3. CASE SyncFs(todo[1])
    <3>1. todo[1] = Sync
      BY <1>4, <2>3, StepConst DEF StepOK, SyncFs
    <3> QED
      BY <1>1, <1>2, <2>3, <3>1, SyncSteps
  <2>4. CASE PutEntry(todo[1])
    <3>1. todo[1].do = "put" /\ todo[1] # Link
      BY <2>4, StepConst DEF PutEntry
    <3>2. EntryOK(todo[1].entry)
      BY <1>2, <1>3, <3>1 DEF PutsTyped
    <3> QED
      BY <1>1, <1>2, <2>4, <3>1, <3>2, PutSteps
  <2> QED
    BY <1>1, <1>3, <2>1, <2>2, <2>3, <2>4 DEF Step
<1>6. PICK U, r : U = table' /\ r = todo'
  OBVIOUS
<1>7. PICK l : StepsOK(U, r, l) /\ Makes(U, r, Ends(r, l), f) /\ Ends(r, l) = Ends(todo, ln)
  <2>1. \E l : StepsOK(U, Tail(todo), l) /\ Makes(U, Tail(todo), Ends(Tail(todo), l), f) /\ Ends(Tail(todo), l) = Ends(todo, ln)
    BY <1>1, <1>2, <1>5, <1>6, TailSteps DEF Stepped
  <2> QED
    BY <1>1, <1>6, <2>1
<1>8. PutsTyped(r)'
  <2>1. objects \in Nat /\ objects' \in Nat /\ objects <= objects'
    BY <1>1 DEF TablesOK
  <2>2. IsSeq(todo)
    BY <1>2 DEF StepsOK
  <2>3. Len(todo) \in Nat /\ Len(r) = Len(todo) - 1 /\ \A k \in 1 .. Len(todo) - 1 : r[k] = todo[k + 1]
    BY <1>1, <1>6, <2>2, TailIs
  <2>4. PutsTyped(r)
    <3> SUFFICES ASSUME NEW k \in 1 .. Len(r), r[k].do = "put" PROVE EntryOK(r[k].entry)
      BY DEF PutsTyped
    <3>1. k + 1 \in 1 .. Len(todo) /\ r[k] = todo[k + 1]
      BY <2>3
    <3> QED
      BY <1>2, <3>1 DEF PutsTyped
  <2> QED
    BY <1>1, <2>1, <2>4, PutsStay
<1>9. r # <<>> => 1 \in 1 .. Len(r) /\ r[1] = todo[2] /\ 2 \in 1 .. Len(todo)
  <2>1. IsSeq(todo)
    BY <1>2 DEF StepsOK
  <2>2. Len(todo) \in Nat /\ Len(todo) >= 1 /\ Len(r) = Len(todo) - 1 /\ \A k \in 1 .. Len(todo) - 1 : r[k] = todo[k + 1]
    BY <1>1, <1>6, <2>1, TailIs
  <2>3. r # <<>> => Len(r) >= 1
    <3>1. IsSeq(r)
      BY <1>7 DEF StepsOK
    <3> QED
      BY <3>1, TailIs
  <2> QED
    BY <2>2, <2>3
<1>10. (r # <<>> /\ r[1] = Clear) <=> todo[1] = Link
  <2>1. ASSUME r # <<>>, r[1] = Clear PROVE todo[1] = Link
    <3>1. StepOK(table, todo, ln, 2) /\ todo[2] = Clear
      BY <1>2, <1>9, <2>1 DEF StepsOK
    <3> QED
      BY <3>1, StepConst DEF StepOK
  <2>2. ASSUME todo[1] = Link PROVE r # <<>> /\ r[1] = Clear
    <3>1. 1 < Len(todo) /\ todo[2] = Clear
      BY <1>4, <2>2, StepConst DEF StepOK
    <3>2. r # <<>>
      <4>1. IsSeq(todo)
        BY <1>2 DEF StepsOK
      <4>2. Len(r) = Len(todo) - 1 /\ Len(todo) \in Nat
        BY <1>1, <1>6, <4>1, TailIs
      <4> QED
        BY <3>1, <4>2
    <3> QED
      BY <1>9, <3>1, <3>2
  <2> QED
    BY <2>1, <2>2
<1>11. NewCluster(U, r)'
  <2>1. \A i \in 1 .. U.len : U.slot[i].kind = "junk" <=> (r # <<>> /\ r[1] = Clear /\ i > U.len - PerSector)
    BY <1>5, <1>6, <1>10 DEF Stepped
  <2> QED
    BY <1>5, <1>10, <2>1 DEF NewCluster
<1>12. Plan(U, r, l, f)'
  BY <1>7, <1>8, <1>11 DEF Plan
<1>13. Plan(table, todo, l, f)' /\ Ends(todo, l)' = Ends(todo, ln)
  <2>1. Plan(table, todo, l, f)'
    BY <1>6, <1>12 DEF Plan, PutsTyped, NewCluster
  <2> QED
    BY <1>6, <1>7, <2>1 DEF Ends
<1> QED
  BY <1>5, <1>13

(***************************************************************************)
(* The steps of a call when it begins                                      *)
(***************************************************************************)
\* Entries to be written, in a table of n entries, none behind one that is blank.
PutsOK(T, n, P) ==
    /\ IsSeq(P)
    /\ \A k \in 1 .. Len(P) :
        /\ P[k] = Put(P[k].at, P[k].entry) /\ P[k].do = "put"
        /\ P[k].at \in 1 .. n /\ P[k].entry.kind \notin {"zero", "junk"}
        /\ \A i \in 1 .. P[k].at - 1 : Blank(T, i) => \E m \in 1 .. k - 1 : P[m].at = i
    /\ \A k, m \in 1 .. Len(P) : P[k].at = P[m].at => k = m
Finally(T, n, P, f) ==
    /\ \A k \in 1 .. Len(P) : f[P[k].at] = P[k].entry
    /\ \A i \in 1 .. n : (\A k \in 1 .. Len(P) : P[k].at # i) => f[i] = IF Blank(T, i) THEN Zero ELSE T.slot[i]

LEMMA SeqWider == ASSUME NEW A, NEW S, A \subseteq S, NEW p, p \in Seq(A) PROVE p \in Seq(S)
<1>1. Len(p) \in Nat /\ p \in [1 .. Len(p) -> A]
  OBVIOUS
<1>2. p \in [1 .. Len(p) -> S]
  BY <1>1
<1> QED
  BY <1>1, <1>2
Joins(r, p, q) ==
    /\ Len(p) \in Nat /\ Len(q) \in Nat /\ Len(r) = Len(p) + Len(q)
    /\ \A k \in 1 .. Len(p) : r[k] = p[k]
    /\ \A k \in 1 .. Len(q) : r[Len(p) + k] = q[k]
LEMMA CatIs == ASSUME NEW p, NEW q, IsSeq(p), IsSeq(q), NEW r, r = p \o q PROVE Joins(r, p, q) /\ IsSeq(r)
<1>1. PICK A, B : p \in Seq(A) /\ q \in Seq(B)
  BY DEF IsSeq
<1>2. PICK S : S = A \union B
  OBVIOUS
<1>3. p \in Seq(S) /\ q \in Seq(S)
  <2>1. A \subseteq S /\ B \subseteq S
    BY <1>2
  <2> QED
    BY <1>1, <2>1, SeqWider
<1>4. Len(p) \in Nat /\ Len(q) \in Nat /\ Len(r) = Len(p) + Len(q) /\ r \in Seq(S)
  BY <1>3
<1>5. \A k \in 1 .. Len(p) : r[k] = p[k]
  BY <1>3, <1>4
<1>6. \A k \in 1 .. Len(q) : r[Len(p) + k] = q[k]
  BY <1>3, <1>4
<1>7. IsSeq(r)
  BY <1>4, SeqSelf
<1> QED
  BY <1>4, <1>5, <1>6, <1>7 DEF Joins

LEMMA StretchIs ==
    ASSUME NEW s \in Nat
    PROVE  /\ Len(Stretch(s)) = 2 * s
           /\ \A k \in 1 .. 2 * s : Stretch(s)[k] = IF k % 2 = 1 THEN Link ELSE Clear
           /\ IsSeq(Stretch(s))
<1>1. PICK n \in Nat : n = 2 * s
  OBVIOUS
<1>2. PICK q : q = [i \in 1 .. n |-> IF i % 2 = 1 THEN Link ELSE Clear] /\ q = Stretch(s)
  BY <1>1 DEF Stretch
<1>3. IsSeq(q) /\ Len(q) = n
  <2>1. q = [k \in 1 .. n |-> q[k]]
    BY <1>2
  <2> QED
    BY <2>1, SeqOf
<1> QED
  BY <1>1, <1>2, <1>3

LEMMA Parity ==
    ASSUME NEW k \in Nat
    PROVE  /\ k \div 2 \in Nat
           /\ k % 2 \in {0, 1}
           /\ k % 2 = 1 => (k + 1) % 2 = 0 /\ (k + 1) \div 2 = k \div 2 + 1
           /\ k % 2 = 0 => (k + 1) % 2 = 1 /\ (k + 1) \div 2 = k \div 2
  OBVIOUS
LEMMA ParityEnds == 1 % 2 = 1 /\ 1 \div 2 = 0 /\ \A s \in Nat : (2 * s) % 2 = 0 /\ (2 * s + 1) \div 2 = s /\ (2 * s) \div 2 = s
  OBVIOUS

\* The steps of a call: clusters to stretch the table by, entries to write, a sync.
Steps(s, P, S) == (Stretch(s) \o P) \o S
StepList(q, s, P, n, d) ==
    /\ n = Len(P) /\ Len(q) = 2 * s + n + d /\ IsSeq(q) /\ d <= 1
    /\ \A k \in 1 .. 2 * s : q[k] = IF k % 2 = 1 THEN Link ELSE Clear
    /\ \A k \in 1 .. n : q[2 * s + k] = P[k]
    /\ d = 1 => q[2 * s + n + 1] = Sync
LEMMA StepsAre ==
    ASSUME NEW s \in Nat, NEW P, IsSeq(P), NEW S, S \in {<<>>, <<Sync>>}, NEW q, q = Steps(s, P, S)
    PROVE  \E c \in Nat, d \in Nat : StepList(q, s, P, c, d)
<1>1. PICK a \in Nat : a = 2 * s
  OBVIOUS
<1>2. PICK p : p = Stretch(s) \o P
  OBVIOUS
<1>3. /\ Len(Stretch(s)) = a /\ IsSeq(Stretch(s))
      /\ \A k \in 1 .. a : Stretch(s)[k] = IF k % 2 = 1 THEN Link ELSE Clear
  BY <1>1, StretchIs
<1>4. PICK c \in Nat : c = Len(P)
  BY DEF IsSeq
<1>5. /\ Len(p) = a + c /\ IsSeq(p) /\ \A k \in 1 .. a : p[k] = Stretch(s)[k]
      /\ \A k \in 1 .. c : p[a + k] = P[k]
  <2>1. IsSeq(Stretch(s)) /\ IsSeq(P)
    BY <1>3
  <2>2. Joins(p, Stretch(s), P) /\ IsSeq(p)
    BY <1>2, <2>1, CatIs
  <2> QED
    BY <1>3, <1>4, <2>2 DEF Joins
<1>6. PICK d \in Nat : d = Len(S) /\ d <= 1 /\ IsSeq(S) /\ (d = 1 => S[1] = Sync)
  <2>1. CASE S = <<>>
    <3>1. Len(S) = 0 /\ S \in Seq({})
      BY <2>1
    <3>2. IsSeq(S)
      BY <3>1, SeqSelf
    <3> QED
      BY <3>1, <3>2
  <2>2. CASE S = <<Sync>>
    <3>1. Len(S) = 1 /\ S \in Seq({Sync}) /\ S[1] = Sync
      BY <2>2
    <3>2. IsSeq(S)
      BY <3>1, SeqSelf
    <3> QED
      BY <3>1, <3>2
  <2> QED
    BY <2>1, <2>2
<1>7. /\ Len(q) = a + c + d /\ IsSeq(q) /\ \A k \in 1 .. a + c : q[k] = p[k]
      /\ \A k \in 1 .. d : q[a + c + k] = S[k]
  <2>1. q = p \o S
    BY <1>2 DEF Steps
  <2>2. IsSeq(p) /\ IsSeq(S)
    BY <1>5, <1>6
  <2>3. Joins(q, p, S) /\ IsSeq(q)
    BY <2>1, <2>2, CatIs
  <2> QED
    BY <1>5, <1>6, <2>3 DEF Joins
<1>8. \A k \in 1 .. a : q[k] = IF k % 2 = 1 THEN Link ELSE Clear
  <2> TAKE k \in 1 .. a
  <2>1. k \in 1 .. a + c
    OBVIOUS
  <2> QED
    BY <1>3, <1>5, <1>7, <2>1
<1>9. \A k \in 1 .. c : q[a + k] = P[k]
  <2> TAKE k \in 1 .. c
  <2>1. a + k \in 1 .. a + c
    OBVIOUS
  <2> QED
    BY <1>5, <1>7, <2>1
<1>10. d = 1 => q[a + c + 1] = Sync
  BY <1>6, <1>7
<1>11. /\ c = Len(P) /\ Len(q) = a + c + d /\ IsSeq(q) /\ d <= 1
       /\ \A k \in 1 .. a : q[k] = IF k % 2 = 1 THEN Link ELSE Clear
       /\ \A k \in 1 .. c : q[a + k] = P[k]
       /\ d = 1 => q[a + c + 1] = Sync
  BY <1>4, <1>6, <1>7, <1>8, <1>9, <1>10
<1> QED
  BY <1>1, <1>11 DEF StepList

\* How long the table is before step k.
Grows(c, s, k) == (c + (IF k <= 2 * s THEN k \div 2 ELSE s)) * PerSector
LEMMA GrowsIs ==
    ASSUME NEW c \in Nat, NEW s \in Nat, c >= 1, c + s <= MaxClusters
    PROVE  /\ \A k \in Nat : Grows(c, s, k) \in Lens
           /\ Grows(c, s, 1) = c * PerSector
           /\ \A k \in Nat : k > 2 * s => Grows(c, s, k) = (c + s) * PerSector /\ Grows(c, s, k + 1) = Grows(c, s, k)
           /\ \A k \in 1 .. 2 * s : Grows(c, s, k + 1) = IF k % 2 = 1 THEN Grows(c, s, k) + PerSector ELSE Grows(c, s, k)
<1>1. PICK p \in Nat : p = PerSector
  BY Nums
<1>2. ASSUME NEW k \in Nat PROVE Grows(c, s, k) \in Lens
  <2>1. PICK j \in Nat : j = (IF k <= 2 * s THEN k \div 2 ELSE s)
    BY Parity
  <2>2. j <= s
    <3>1. k <= 2 * s => k \div 2 <= s
      OBVIOUS
    <3> QED
      BY <2>1, <3>1
  <2>3. PICK m \in 1 .. MaxClusters : m = c + j
    BY <2>2, Nums
  <2>4. Grows(c, s, k) = m * PerSector
    BY <2>1, <2>3 DEF Grows
  <2> QED
    BY <2>4, Zenon DEF Lens
<1>3. Grows(c, s, 1) = c * PerSector
  <2>1. 1 <= 2 * s \/ s = 0
    OBVIOUS
  <2>2. 1 \div 2 = 0
    BY ParityEnds
  <2>3. (IF 1 <= 2 * s THEN 1 \div 2 ELSE s) = 0
    BY <2>1, <2>2
  <2>4. c + (IF 1 <= 2 * s THEN 1 \div 2 ELSE s) = c
    BY <2>3
  <2> QED
    BY <2>4 DEF Grows
<1>4. ASSUME NEW k \in Nat, k > 2 * s PROVE Grows(c, s, k) = (c + s) * PerSector /\ Grows(c, s, k + 1) = Grows(c, s, k)
  <2>1. ~(k <= 2 * s) /\ ~(k + 1 <= 2 * s)
    BY <1>4
  <2> QED
    BY <2>1 DEF Grows
<1>5. ASSUME NEW k \in 1 .. 2 * s PROVE Grows(c, s, k + 1) = IF k % 2 = 1 THEN Grows(c, s, k) + PerSector ELSE Grows(c, s, k)
  <2>1. PICK j \in Nat : j = k \div 2
    BY Parity
  <2>2. Grows(c, s, k) = (c + j) * PerSector
    BY <2>1 DEF Grows
  <2>3. CASE k % 2 = 1
    <3>1. k + 1 <= 2 * s /\ (k + 1) \div 2 = j + 1
      <4>1. k # 2 * s
        BY <2>3, ParityEnds
      <4> QED
        BY <2>1, <2>3, <4>1, Parity
    <3>2. Grows(c, s, k + 1) = (c + (j + 1)) * PerSector
      BY <3>1 DEF Grows
    <3>3. (c + (j + 1)) * p = (c + j) * p + p
      OBVIOUS
    <3> QED
      BY <1>1, <2>2, <2>3, <3>2, <3>3
  <2>4. CASE k % 2 # 1
    <3>1. k % 2 = 0
      BY <2>4, Parity
    <3>2. (IF k + 1 <= 2 * s THEN (k + 1) \div 2 ELSE s) = j
      <4>1. (k + 1) \div 2 = j
        BY <2>1, <3>1, Parity
      <4>2. k + 1 > 2 * s => k = 2 * s
        OBVIOUS
      <4>3. k = 2 * s => j = s
        BY <2>1, ParityEnds
      <4> QED
        BY <4>1, <4>2, <4>3
    <3>3. Grows(c, s, k + 1) = (c + j) * PerSector
      BY <3>2 DEF Grows
    <3> QED
      BY <2>2, <2>4, <3>3
  <2> QED
    BY <2>3, <2>4
<1> QED
  BY <1>2, <1>3, <1>4, <1>5

LEMMA BeginSteps ==
    ASSUME NEW T, NEW c \in Nat, NEW s \in Nat, c >= 1, c + s <= MaxClusters, T.len = c * PerSector,
           NEW P, PutsOK(T, (c + s) * PerSector, P), NEW S, S \in {<<>>, <<Sync>>}, NEW q, q = Steps(s, P, S)
    PROVE  /\ \E ln : StepsOK(T, q, ln) /\ Ends(q, ln) = (c + s) * PerSector
           /\ \A f : Finally(T, (c + s) * PerSector, P, f) => Makes(T, q, (c + s) * PerSector, f)
           /\ q # <<>> => q[1] # Clear
           /\ (\A k \in 1 .. Len(P) : EntryOK(P[k].entry)) => PutsTyped(q)
           /\ (\A k \in 1 .. Len(P) : EntryOK(P[k].entry)') => PutsTyped(q)'
<1>1. PICK n \in Nat, b \in Nat, d \in Nat :
          /\ b = 2 * s /\ n = Len(P) /\ Len(q) = b + n + d /\ IsSeq(q) /\ d <= 1
          /\ \A k \in 1 .. b : q[k] = IF k % 2 = 1 THEN Link ELSE Clear
          /\ \A k \in 1 .. n : q[b + k] = P[k]
          /\ d = 1 => q[b + n + 1] = Sync
  <2>1. IsSeq(P)
    BY DEF PutsOK
  <2>2. PICK n \in Nat, d \in Nat : StepList(q, s, P, n, d)
    BY <2>1, StepsAre
  <2>3. PICK b \in Nat : b = 2 * s
    OBVIOUS
  <2> QED
    BY <2>2, <2>3 DEF StepList
<1>2. ASSUME NEW k \in 1 .. Len(q)
      PROVE  \/ k \in 1 .. b
             \/ \E m \in 1 .. n : k = b + m
             \/ k = b + n + 1 /\ d = 1
  <2>1. k > b /\ k <= b + n => k - b \in 1 .. n /\ k = b + (k - b)
    OBVIOUS
  <2> QED
    BY <1>1, <2>1
<1>3. \A k \in 1 .. n : P[k] = Put(P[k].at, P[k].entry) /\ P[k].do = "put"
  BY <1>1 DEF PutsOK
<1>4. ASSUME NEW k \in 1 .. Len(q), q[k].do = "put" PROVE \E m \in 1 .. n : k = b + m /\ q[k] = P[m]
  <2>1. k \notin 1 .. b
    BY <1>1, <1>4, StepConst
  <2>2. ~(k = b + n + 1 /\ d = 1)
    BY <1>1, <1>4, StepConst
  <2> QED
    BY <1>1, <1>2, <2>1, <2>2
<1>5. \A m \in 1 .. n : b + m \in 1 .. Len(q) /\ \A i : IsPut(q, b + m, i) <=> P[m].at = i
  <2> TAKE m \in 1 .. n
  <2>1. b + m \in 1 .. Len(q)
    BY <1>1
  <2>2. q[b + m] = P[m] /\ P[m].do = "put"
    BY <1>1, <1>3
  <2> QED
    BY <2>1, <2>2 DEF IsPut
<1>6. PICK ln : ln = [k \in 1 .. Len(q) + 1 |-> Grows(c, s, k)]
  OBVIOUS
<1>7. ln \in [1 .. Len(q) + 1 -> Lens] /\ \A k \in 1 .. Len(q) + 1 : ln[k] = Grows(c, s, k)
  <2>1. Len(q) + 1 \in Nat
    BY <1>1
  <2>2. \A k \in 1 .. Len(q) + 1 : Grows(c, s, k) \in Lens
    BY <2>1, GrowsIs
  <2> QED
    BY <1>6, <2>2
<1>8. ln[1] = T.len
  <2>1. 1 \in 1 .. Len(q) + 1
    BY <1>1
  <2> QED
    BY <1>7, <2>1, GrowsIs
<1>9. Ends(q, ln) = (c + s) * PerSector
  <2>1. Len(q) + 1 \in 1 .. Len(q) + 1 /\ Len(q) + 1 \in Nat /\ Len(q) + 1 > 2 * s
    BY <1>1
  <2> QED
    BY <1>7, <2>1, GrowsIs DEF Ends
<1>10. ASSUME NEW k \in 1 .. Len(q) PROVE StepOK(T, q, ln, k)
  <2>1. k \in Nat /\ k \in 1 .. Len(q) + 1 /\ k + 1 \in 1 .. Len(q) + 1
    BY <1>1
  <2>2. ln[k] = Grows(c, s, k) /\ ln[k + 1] = Grows(c, s, k + 1)
    BY <1>7, <2>1
  <2>3. CASE k \in 1 .. b /\ k % 2 = 1
    <3>1. k \in 1 .. 2 * s /\ k # b
      BY <1>1, <2>3, ParityEnds
    <3>2. ln[k + 1] = ln[k] + PerSector
      BY <2>2, <2>3, <3>1, GrowsIs
    <3>3. k + 1 \in 1 .. b /\ (k + 1) % 2 = 0 /\ k < Len(q)
      <4>1. (k + 1) % 2 = 0
        BY <2>1, <2>3, Parity
      <4>2. Len(q) \in Nat /\ b <= Len(q)
        BY <1>1
      <4>3. k \in 1 .. b /\ k # b
        BY <2>3, <3>1
      <4>4. k + 1 \in 1 .. b /\ k < b
        BY <2>1, <4>2, <4>3
      <4>5. k < Len(q)
        BY <2>1, <4>2, <4>4
      <4> QED
        BY <4>1, <4>4, <4>5
    <3>4. q[k] = Link /\ q[k + 1] = Clear
      BY <1>1, <2>3, <3>3
    <3> QED
      BY <3>2, <3>3, <3>4 DEF StepOK
  <2>4. CASE k \in 1 .. b /\ k % 2 # 1
    <3>1. k \in 1 .. 2 * s
      BY <1>1, <2>4
    <3>2. ln[k + 1] = ln[k]
      BY <2>2, <2>4, <3>1, GrowsIs
    <3>3. k > 1 => k - 1 \in 1 .. b /\ (k - 1) % 2 = 1
      <4> SUFFICES ASSUME k > 1 PROVE k - 1 \in 1 .. b /\ (k - 1) % 2 = 1
        OBVIOUS
      <4>1. PICK j \in Nat : j = k - 1
        OBVIOUS
      <4>2. j % 2 = 0 => (j + 1) % 2 = 1
        BY Parity
      <4>3. j + 1 = k
        BY <4>1
      <4> QED
        BY <2>4, <4>1, <4>2, <4>3, Parity
    <3>4. q[k] = Clear /\ (k > 1 => q[k - 1] = Link)
      BY <1>1, <2>4, <3>3
    <3> QED
      BY <3>2, <3>4 DEF StepOK
  <2>5. ASSUME k > b PROVE ln[k + 1] = ln[k] /\ ln[k] = (c + s) * PerSector
    <3>1. k > 2 * s
      BY <1>1, <2>5
    <3> QED
      BY <2>1, <2>2, <3>1, GrowsIs
  <2>6. CASE k = b + n + 1 /\ d = 1
    <3>1. k > b /\ q[k] = Sync
      BY <1>1, <2>6
    <3> QED
      BY <2>5, <3>1 DEF StepOK
  <2>7. ASSUME NEW m \in 1 .. n, k = b + m PROVE StepOK(T, q, ln, k)
    <3>1. k > b /\ q[k] = P[m]
      BY <1>1, <2>7, SMTT(40)
    <3>2. /\ P[m].at \in 1 .. (c + s) * PerSector /\ P[m].entry.kind \notin {"zero", "junk"}
          /\ \A i \in 1 .. P[m].at - 1 : Blank(T, i) => \E j \in 1 .. m - 1 : P[j].at = i
      BY <1>1 DEF PutsOK
    <3>3. ASSUME NEW i \in 1 .. q[k].at - 1, Blank(T, i) PROVE \E j \in 1 .. k - 1 : IsPut(q, j, i)
      <4>1. PICK j \in 1 .. m - 1 : P[j].at = i
        BY <3>1, <3>2, <3>3
      <4>2. b + j \in 1 .. k - 1 /\ j \in 1 .. n
        BY <2>7
      <4> QED
        BY <1>5, <4>1, <4>2
    <3> QED
      BY <1>3, <2>5, <3>1, <3>2, <3>3 DEF StepOK
  <2> QED
    BY <1>2, <2>3, <2>4, <2>6, <2>7
<1>11. ASSUME NEW k \in 1 .. Len(q), NEW m \in 1 .. Len(q), q[k].do = "put", q[m].do = "put", q[k].at = q[m].at PROVE k = m
  <2>1. PICK x \in 1 .. n : k = b + x /\ q[k] = P[x]
    BY <1>4, <1>11
  <2>2. PICK y \in 1 .. n : m = b + y /\ q[m] = P[y]
    BY <1>4, <1>11
  <2>3. x = y
    BY <1>1, <1>11, <2>1, <2>2 DEF PutsOK
  <2> QED
    BY <2>1, <2>2, <2>3
<1>12. StepsOK(T, q, ln)
  BY <1>1, <1>7, <1>8, <1>10, <1>11 DEF StepsOK
<1>13. ASSUME NEW f, Finally(T, (c + s) * PerSector, P, f) PROVE Makes(T, q, (c + s) * PerSector, f)
  <2>1. ASSUME NEW k \in 1 .. Len(q), q[k].do = "put" PROVE f[q[k].at] = q[k].entry
    <3>1. PICK m \in 1 .. n : q[k] = P[m]
      BY <1>4, <2>1
    <3> QED
      BY <1>1, <1>13, <3>1 DEF Finally
  <2>2. ASSUME NEW i \in 1 .. (c + s) * PerSector, \A k \in 1 .. Len(q) : ~IsPut(q, k, i)
        PROVE  f[i] = IF Blank(T, i) THEN Zero ELSE T.slot[i]
    <3>1. \A m \in 1 .. n : P[m].at # i
      BY <1>5, <2>2
    <3> QED
      BY <1>1, <1>13, <3>1 DEF Finally
  <2> QED
    BY <2>1, <2>2 DEF Makes
<1>14. ASSUME q # <<>>, q[1] = Clear PROVE FALSE
  <2>1. 1 \in 1 .. Len(q)
    <3>1. Len(q) # 0
      BY <1>1, <1>14 DEF IsSeq
    <3> QED
      BY <1>1, <3>1
  <2>2. CASE 1 \in 1 .. b
    <3>1. q[1] = Link
      BY <1>1, <2>2, ParityEnds
    <3> QED
      BY <1>14, <3>1, StepConst
  <2>3. ASSUME NEW m \in 1 .. n, 1 = b + m PROVE FALSE
    <3>1. q[1].do = "put"
      BY <1>1, <1>3, <2>3
    <3> QED
      BY <1>14, <3>1, StepConst
  <2>4. CASE 1 = b + n + 1 /\ d = 1
    BY <1>1, <1>14, <2>4, StepConst
  <2> QED
    BY <1>2, <2>1, <2>2, <2>3, <2>4
<1>15. (\A k \in 1 .. Len(P) : EntryOK(P[k].entry)) => PutsTyped(q)
  BY <1>1, <1>4 DEF PutsTyped
<1>16. (\A k \in 1 .. Len(P) : EntryOK(P[k].entry)') => PutsTyped(q)'
  BY <1>1, <1>4 DEF PutsTyped
<1> QED
  BY <1>9, <1>12, <1>13, <1>14, <1>15, <1>16

(***************************************************************************)
(* dir_alloc                                                               *)
(***************************************************************************)
Calm == TablesOK /\ \A i \in 1 .. table.len : table.slot[i].kind # "junk"
\* Entries allocated in a table of c clusters, stretched by s; a run of free ones from start.
Stretched(c, s) ==
    c \in Nat /\ s \in Nat /\ c >= 1 /\ c + s <= MaxClusters /\ table.len = c * PerSector
FreeRun(start, nent, n) ==
    /\ start \in Nat /\ start >= 1 /\ start + nent - 1 <= n
    /\ \A i \in 1 .. start - 1 : ~Blank(table, i)
    /\ \A i \in start .. start + nent - 1 : i > table.len \/ Free(table.slot[i])
AllocOK(a, nent, c, s) ==
    /\ Stretched(c, s) /\ a.steps = Stretch(s)
    /\ a.ok \in BOOLEAN
    /\ a.ok => FreeRun(a.start, nent, (c + s) * PerSector)

LEMMA RunIs ==
    ASSUME Calm, NEW nent \in Nat, nent >= 1, RunsOf(nent) # {}
    PROVE  FreeRun(First(RunsOf(nent)), nent, table.len)
<1>1. PICK R : R = RunsOf(nent)
  OBVIOUS
<1>2. PICK n \in Nat : n = table.len /\ R = RunsOf(nent)
  BY <1>1, PartsOf DEF Calm, TablesOK
<1>3. R \in SUBSET (1 .. n) /\ R # {}
  BY <1>2 DEF RunsOf
<1>4. PICK i : i = First(R) /\ i \in R /\ \A j \in R : i <= j
  BY <1>3, FirstIs
<1>5. i \in 1 .. n - nent + 1 /\ \A k \in i .. i + nent - 1 : Free(table.slot[k])
  BY <1>2, <1>4 DEF RunsOf
<1>6. ASSUME NEW j \in 1 .. i - 1, Blank(table, j) PROVE FALSE
  <2>1. j \in 1 .. n /\ table.slot[j].kind = "zero"
    BY <1>2, <1>5, <1>6 DEF Blank, Calm
  <2>2. \A k \in j .. j + nent - 1 : Free(table.slot[k])
    <3> TAKE k \in j .. j + nent - 1
    <3>1. k \in 1 .. n
      BY <1>5, <2>1
    <3>2. k = j \/ table.slot[k].kind \in {"zero", "junk"}
      BY <1>2, <2>1, <3>1 DEF Calm, TablesOK, ZeroLast
    <3>3. table.slot[k].kind # "junk"
      BY <1>2, <3>1 DEF Calm
    <3> QED
      BY <2>1, <3>2, <3>3 DEF Free
  <2>3. j \in R
    BY <1>2, <1>5, <2>1, <2>2 DEF RunsOf
  <2> QED
    BY <1>4, <1>5, <2>3
<1> QED
  BY <1>2, <1>4, <1>5, <1>6 DEF FreeRun

LEMMA Tail0Is ==
    ASSUME Calm
    PROVE  /\ Tail0 \in Nat /\ Tail0 >= 1 /\ Tail0 <= table.len + 1
           /\ \A i \in 1 .. Tail0 - 1 : ~Blank(table, i)
           /\ \A i \in Tail0 .. table.len : Free(table.slot[i])
<1>1. PICK n \in Nat : n = table.len
  BY PartsOf DEF Calm, TablesOK
<1>2. PICK R : R = {i \in 1 .. n + 1 : \A k \in i .. n : Free(table.slot[k])}
  OBVIOUS
<1>3. R \in SUBSET (1 .. n + 1) /\ R # {} /\ n + 1 \in Nat
  <2>1. n + 1 \in R
    BY <1>2
  <2> QED
    BY <1>2, <2>1
<1>4. PICK i : i = First(R) /\ i \in R /\ \A j \in R : i <= j
  BY <1>3, FirstIs
<1>5. Tail0 = i
  BY <1>2, <1>1, <1>4 DEF Tail0
<1>6. i \in 1 .. n + 1 /\ \A k \in i .. n : Free(table.slot[k])
  BY <1>2, <1>4
<1>7. ASSUME NEW j \in 1 .. i - 1, Blank(table, j) PROVE FALSE
  <2>1. j \in 1 .. n /\ table.slot[j].kind = "zero"
    BY <1>1, <1>6, <1>7 DEF Blank, Calm
  <2>2. \A k \in j .. n : Free(table.slot[k])
    <3> TAKE k \in j .. n
    <3>1. k \in 1 .. n
      BY <2>1
    <3>2. k = j \/ table.slot[k].kind \in {"zero", "junk"}
      BY <1>1, <2>1, <3>1 DEF Calm, TablesOK, ZeroLast
    <3>3. table.slot[k].kind # "junk"
      BY <1>1, <3>1 DEF Calm
    <3> QED
      BY <2>1, <3>2, <3>3 DEF Free
  <2>3. j \in R
    BY <1>2, <2>1, <2>2
  <2> QED
    BY <1>4, <1>6, <2>3
<1> QED
  BY <1>1, <1>5, <1>6, <1>7

LEMMA AllocIs ==
    ASSUME Calm, NEW nent \in Nat, nent >= 1, NEW a, a = Allocated(nent)
    PROVE  \E c, s : AllocOK(a, nent, c, s)
<1>1. PICK c \in 1 .. MaxClusters : table.len = c * PerSector
  BY DEF Calm, TablesOK, Shaped, Lens
<1>2. SectorOf(table.len) = c /\ c \in Nat /\ MaxClusters \in Nat /\ c >= 1
  BY <1>1, SectorLen, Nums
<1>3. table.len \in Nat
  BY PartsOf DEF Calm, TablesOK
<1>4. CASE RunsOf(nent) # {}
  <2>1. a.ok = TRUE /\ a.start = First(RunsOf(nent)) /\ a.steps = <<>>
    BY <1>4 DEF Allocated
  <2>2. Stretch(0) = <<>>
    BY DEF Stretch
  <2>3. Stretched(c, 0) /\ (c + 0) * PerSector = table.len
    BY <1>1, <1>2 DEF Stretched
  <2>4. FreeRun(a.start, nent, (c + 0) * PerSector)
    BY <1>4, <2>1, <2>3, RunIs
  <2>5. AllocOK(a, nent, c, 0)
    BY <2>1, <2>2, <2>3, <2>4 DEF AllocOK
  <2> QED
    BY <2>5
<1>5. CASE RunsOf(nent) = {}
  <2>1. PICK t \in Nat : t = Tail0 /\ t >= 1 /\ t <= table.len + 1
    BY Tail0Is
  <2>2. PICK e \in Nat : e = t + nent - 1 /\ e >= 1
    BY <2>1
  <2>3. e > table.len
    <3> SUFFICES ASSUME e <= table.len PROVE FALSE
      BY <1>3, <2>2
    <3>1. \A k \in t .. t + nent - 1 : Free(table.slot[k])
      BY <1>3, <2>1, <2>2, Tail0Is
    <3>2. t \in 1 .. table.len - nent + 1
      BY <1>3, <2>1, <2>2
    <3> QED
      BY <1>5, <3>1, <3>2 DEF RunsOf
  <2>4. PICK d \in Nat : d = SectorOf(e) /\ e <= d * PerSector
    BY <2>2, SectorIs
  <2>5. d >= c
    <3> SUFFICES ASSUME d + 1 <= c PROVE FALSE
      BY <1>2
    <3>1. PICK p \in Nat : p = PerSector
      BY Nums
    <3>2. d * p <= c * p
      BY <1>2, <3>1
    <3> QED
      BY <1>1, <1>3, <2>3, <2>4, <3>1, <3>2
  <2>6. Wanted(nent) = d - c /\ Left = MaxClusters - c
    BY <1>2, <2>1, <2>2, <2>4 DEF Wanted, Left
  <2>7. PICK s \in Nat : s = (IF Wanted(nent) <= Left THEN Wanted(nent) ELSE Left)
    BY <1>2, <2>5, <2>6
  <2>8. a.ok = (Wanted(nent) <= Left) /\ a.start = t /\ a.steps = Stretch(s)
    BY <1>5, <2>1, <2>7 DEF Allocated
  <2>9. c + s <= MaxClusters
    BY <1>2, <2>5, <2>6, <2>7
  <2>10. a.ok => FreeRun(a.start, nent, (c + s) * PerSector)
    <3> SUFFICES ASSUME a.ok PROVE FreeRun(t, nent, (c + s) * PerSector)
      BY <2>8
    <3>1. Wanted(nent) <= Left
      BY <2>8, Zenon
    <3>2. c + s = d
      BY <1>2, <2>5, <2>6, <2>7, <3>1
    <3>3. t + nent - 1 <= (c + s) * PerSector
      BY <2>2, <2>4, <3>2
    <3>4. \A i \in 1 .. t - 1 : ~Blank(table, i)
      BY <2>1, Tail0Is
    <3>5. \A i \in t .. t + nent - 1 : i > table.len \/ Free(table.slot[i])
      BY <1>3, <2>1, Tail0Is
    <3> QED
      BY <2>1, <3>3, <3>4, <3>5 DEF FreeRun
  <2>11. AllocOK(a, nent, c, s)
    BY <1>1, <1>2, <2>8, <2>9, <2>10 DEF AllocOK, Stretched
  <2> QED
    BY <2>11
<1> QED
  BY <1>4, <1>5

(***************************************************************************)
(* Blocks: what the entries of a name look like in a table f of N entries  *)
(***************************************************************************)
Pieces(n) == Len(n.text)
LongOf(f, n, h) ==
    /\ n.lfn /\ Pieces(n) < h
    /\ \A k \in 1 .. Pieces(n) : f[h - k] = Lfn(n.text[k], k, k = Pieces(n), f[h].sfn)
ShortOf(f, n, h) == ~n.lfn /\ (h = 1 \/ f[h - 1].kind # "lfn")
FatBlock(f, n, h) ==
    /\ f[h].kind = "sfn" /\ f[h].sfn \in ShortNames
    /\ ~n.lossy => f[h].sfn = n.sfn
    /\ LongOf(f, n, h) \/ ShortOf(f, n, h)
ExBlock(f, n, h) ==
    /\ f[h].kind = "85" /\ f[h].num = Pieces(n) + 1
    /\ f[h + 1].kind = "c0" /\ f[h].sum = <<n.text, f[h + 1].obj>>
    /\ \A k \in 1 .. Pieces(n) : f[h + 1 + k].kind = "c1" /\ f[h + 1 + k].text = n.text[k]
Block(f, n, h) == IF ExFat THEN ExBlock(f, n, h) ELSE FatBlock(f, n, h)
PartsAt(n, h) ==
    IF ExFat THEN h + 1 .. h + 1 + Pieces(n)
    ELSE IF n.lfn THEN h - Pieces(n) .. h - 1 ELSE {}
Span(n, h) == PartsAt(n, h) \union {h}
Clash(f, n, h, m, g) ==
    \/ n.text = m.text /\ (ExFat \/ (n.lfn /\ m.lfn))
    \/ ~ExFat /\ f[h].sfn = f[g].sfn
Headed(N, f) ==
    \A h \in 1 .. N : f[h].kind = HeadKind => \E n \in Names : Block(f, n, h) /\ PartsAt(n, h) \subseteq 1 .. N
Owned(N, f) ==
    \A i \in 1 .. N : f[i].kind \in PartKinds => \E h \in 1 .. N : \E n \in Names : Block(f, n, h) /\ i \in PartsAt(n, h)
Apart(N, f) ==
    \A h, g \in 1 .. N : \A n, m \in Names : Block(f, n, h) /\ Block(f, m, g) /\ Clash(f, n, h, m, g) => h = g
Good(N, f) == Headed(N, f) /\ Owned(N, f) /\ Apart(N, f)

LEMMA NameIs ==
    ASSUME NEW n \in Names
    PROVE  /\ IsSeq(n.text) /\ Pieces(n) \in Nat /\ Pieces(n) >= 1 /\ DOMAIN n.text = 1 .. Pieces(n)
           /\ n.lfn \in BOOLEAN /\ n.lossy \in BOOLEAN
           /\ n.lossy => n.lfn
           /\ ~n.lfn => n.text = <<n.sfn>>
           /\ \A m \in Names : m.text = n.text => m.sfn = n.sfn /\ m.lossy = n.lossy
           /\ \A sfn \in ShortNames : n.text = <<sfn>> => n.sfn = sfn /\ ~n.lossy
           /\ ~n.lossy => n.sfn \in ShortNames
<1>1. n.text \in Seq({n.text[k] : k \in DOMAIN n.text}) /\ Len(n.text) >= 1
  BY DirectoryAssumption
<1>2. IsSeq(n.text)
  BY <1>1 DEF IsSeq
<1>3. Len(n.text) \in Nat /\ DOMAIN n.text = 1 .. Len(n.text)
  BY <1>2 DEF IsSeq
<1>4. ~n.lossy => n.sfn \in ShortNames
  BY DEF ShortNames
<1>5. n.lfn \in BOOLEAN /\ n.lossy \in BOOLEAN /\ (n.lossy => n.lfn) /\ (~n.lfn => n.text = <<n.sfn>>)
  BY DirectoryAssumption
<1>6. /\ \A m \in Names : m.text = n.text => m.sfn = n.sfn /\ m.lossy = n.lossy
      /\ \A sfn \in ShortNames : n.text = <<sfn>> => n.sfn = sfn /\ ~n.lossy
  BY DirectoryAssumption
<1> QED
  BY <1>1, <1>2, <1>3, <1>4, <1>5, <1>6 DEF Pieces

LEMMA KindsAre == /\ HeadKind \notin PartKinds \union {"zero", "gone", "junk"}
                  /\ \A k \in PartKinds : k \notin {"zero", "gone", "junk"}
                  /\ ExFat => HeadKind = "85" /\ PartKinds = {"c0", "c1"}
                  /\ ~ExFat => HeadKind = "sfn" /\ PartKinds = {"lfn"}
  BY DEF HeadKind, PartKinds

\* The parts of a block are a run of parts next to its head.
LEMMA BlockKinds ==
    ASSUME NEW f, NEW n \in Names, NEW h \in Nat, Block(f, n, h)
    PROVE  /\ f[h].kind = HeadKind
           /\ \A i \in PartsAt(n, h) : i \in Int /\ i # h /\ f[i].kind \in PartKinds
           /\ ExFat => \A i \in PartsAt(n, h) : i > h /\ h + 1 .. i \subseteq PartsAt(n, h)
           /\ ~ExFat => \A i \in PartsAt(n, h) : i > 0 /\ i < h /\ i .. h - 1 \subseteq PartsAt(n, h)
<1>1. PICK p \in Nat : p = Pieces(n) /\ p >= 1
  BY NameIs
<1>2. CASE ExFat
  <2>1. ExBlock(f, n, h) /\ PartsAt(n, h) = h + 1 .. h + 1 + p
    BY <1>1, <1>2 DEF Block, PartsAt
  <2>2. ASSUME NEW i \in h + 1 .. h + 1 + p PROVE f[i].kind \in {"c0", "c1"}
    <3>1. CASE i = h + 1
      BY <2>1, <3>1 DEF ExBlock
    <3>2. CASE i # h + 1
      <4>1. i - h - 1 \in 1 .. p /\ h + 1 + (i - h - 1) = i
        BY <3>2
      <4> QED
        BY <1>1, <2>1, <4>1 DEF ExBlock
    <3> QED
      BY <3>1, <3>2
  <2>3. \A i \in PartsAt(n, h) : i \in Int /\ i # h /\ f[i].kind \in PartKinds
    BY <1>2, <2>1, <2>2, KindsAre
  <2>4. \A i \in PartsAt(n, h) : i > h /\ h + 1 .. i \subseteq PartsAt(n, h)
    BY <2>1
  <2>5. f[h].kind = HeadKind
    BY <1>2, <2>1, KindsAre DEF ExBlock
  <2> QED
    BY <1>2, <2>3, <2>4, <2>5
<1>3. CASE ~ExFat
  <2>1. FatBlock(f, n, h) /\ PartsAt(n, h) = (IF n.lfn THEN h - p .. h - 1 ELSE {})
    BY <1>1, <1>3 DEF Block, PartsAt
  <2>2. ASSUME NEW i \in PartsAt(n, h) PROVE i \in h - p .. h - 1 /\ f[i].kind = "lfn" /\ PartsAt(n, h) = h - p .. h - 1 /\ p < h
    <3>1. n.lfn /\ i \in h - p .. h - 1
      BY <2>1, <2>2
    <3>2. LongOf(f, n, h)
      BY <2>1, <3>1 DEF FatBlock, ShortOf
    <3>3. h - i \in 1 .. p /\ h - (h - i) = i
      BY <3>1
    <3>4. f[i] = Lfn(n.text[h - i], h - i, h - i = p, f[h].sfn)
      BY <1>1, <3>2, <3>3 DEF LongOf
    <3>5. f[i].kind = "lfn"
      BY <3>4 DEF Lfn
    <3> QED
      BY <1>1, <2>1, <3>1, <3>2, <3>5 DEF LongOf
  <2>3. \A i \in PartsAt(n, h) : i \in Int /\ i # h /\ f[i].kind \in PartKinds
    BY <1>3, <2>2, KindsAre
  <2>4. \A i \in PartsAt(n, h) : i > 0 /\ i < h /\ i .. h - 1 \subseteq PartsAt(n, h)
    <3> TAKE i \in PartsAt(n, h)
    <3>1. i \in h - p .. h - 1 /\ PartsAt(n, h) = h - p .. h - 1 /\ p < h
      BY <2>2
    <3> QED
      BY <3>1
  <2>5. f[h].kind = HeadKind
    BY <1>3, <2>1, KindsAre DEF FatBlock
  <2> QED
    BY <1>3, <2>3, <2>4, <2>5
<1> QED
  BY <1>2, <1>3

\* Blocks do not overlap.
LEMMA BlocksApart ==
    ASSUME NEW f, NEW n \in Names, NEW m \in Names, NEW h \in Nat, NEW g \in Nat, Block(f, n, h), Block(f, m, g),
           NEW i \in Span(n, h), i \in Span(m, g)
    PROVE  h = g
<1>1. /\ f[h].kind = HeadKind
      /\ \A j \in PartsAt(n, h) : j \in Int /\ j # h /\ f[j].kind \in PartKinds
      /\ ExFat => \A j \in PartsAt(n, h) : j > h /\ h + 1 .. j \subseteq PartsAt(n, h)
      /\ ~ExFat => \A j \in PartsAt(n, h) : j > 0 /\ j < h /\ j .. h - 1 \subseteq PartsAt(n, h)
  BY BlockKinds
<1>2. /\ f[g].kind = HeadKind
      /\ \A j \in PartsAt(m, g) : j \in Int /\ j # g /\ f[j].kind \in PartKinds
      /\ ExFat => \A j \in PartsAt(m, g) : j > g /\ g + 1 .. j \subseteq PartsAt(m, g)
      /\ ~ExFat => \A j \in PartsAt(m, g) : j > 0 /\ j < g /\ j .. g - 1 \subseteq PartsAt(m, g)
  BY BlockKinds
<1>3. h \notin PartsAt(m, g) /\ g \notin PartsAt(n, h)
  BY <1>1, <1>2, KindsAre
<1>4. CASE i = h \/ i = g
  BY <1>3, <1>4 DEF Span
<1>5. CASE i \in PartsAt(n, h) /\ i \in PartsAt(m, g)
  <2>1. CASE ExFat
    <3>1. i > h /\ i > g /\ h + 1 .. i \subseteq PartsAt(n, h) /\ g + 1 .. i \subseteq PartsAt(m, g) /\ i \in Int
      BY <1>1, <1>2, <1>5, <2>1
    <3>2. h < g => g \in h + 1 .. i
      BY <3>1
    <3>3. g < h => h \in g + 1 .. i
      BY <3>1
    <3> QED
      BY <1>3, <3>1, <3>2, <3>3
  <2>2. CASE ~ExFat
    <3>1. i < h /\ i < g /\ i .. h - 1 \subseteq PartsAt(n, h) /\ i .. g - 1 \subseteq PartsAt(m, g) /\ i \in Int
      BY <1>1, <1>2, <1>5, <2>2
    <3>2. h < g => h \in i .. g - 1
      BY <3>1
    <3>3. g < h => g \in i .. h - 1
      BY <3>1
    <3> QED
      BY <1>3, <3>1, <3>2, <3>3
  <2> QED
    BY <2>1, <2>2
<1> QED
  BY <1>4, <1>5 DEF Span

\* A block whose entries stay is one still; a short one needs no piece in front of it.
LEMMA BlockStays ==
    ASSUME NEW f, NEW F, NEW n \in Names, NEW h \in Nat, Block(f, n, h), \A i \in Span(n, h) : F[i] = f[i],
           ~ExFat /\ ~n.lfn => h = 1 \/ F[h - 1].kind # "lfn"
    PROVE  Block(F, n, h)
<1>1. PICK p \in Nat : p = Pieces(n) /\ p >= 1
  BY NameIs
<1>2. F[h] = f[h]
  BY DEF Span
<1>3. CASE ExFat
  <2>1. ExBlock(f, n, h) /\ PartsAt(n, h) = h + 1 .. h + 1 + p
    BY <1>1, <1>3 DEF Block, PartsAt
  <2>2. \A i \in h + 1 .. h + 1 + p : F[i] = f[i]
    BY <2>1 DEF Span
  <2>3. F[h + 1] = f[h + 1]
    BY <2>2
  <2>4. \A k \in 1 .. p : F[h + 1 + k] = f[h + 1 + k]
    <3> TAKE k \in 1 .. p
    <3>1. h + 1 + k \in h + 1 .. h + 1 + p
      OBVIOUS
    <3> QED
      BY <2>2, <3>1
  <2> QED
    BY <1>1, <1>2, <1>3, <2>1, <2>3, <2>4 DEF ExBlock, Block
<1>4. CASE ~ExFat
  <2>1. FatBlock(f, n, h) /\ PartsAt(n, h) = (IF n.lfn THEN h - p .. h - 1 ELSE {})
    BY <1>1, <1>4 DEF Block, PartsAt
  <2>2. CASE n.lfn
    <3>1. LongOf(f, n, h)
      BY <2>1, <2>2 DEF FatBlock, ShortOf
    <3>2. \A k \in 1 .. p : F[h - k] = f[h - k]
      <4> TAKE k \in 1 .. p
      <4>1. h - k \in h - p .. h - 1
        OBVIOUS
      <4> QED
        BY <2>1, <2>2, <4>1 DEF Span
    <3>3. LongOf(F, n, h)
      BY <1>1, <1>2, <3>1, <3>2 DEF LongOf
    <3> QED
      BY <1>2, <1>4, <2>1, <3>3 DEF FatBlock, Block
  <2>3. CASE ~n.lfn
    <3>1. ShortOf(F, n, h)
      BY <1>4, <2>3 DEF ShortOf
    <3> QED
      BY <1>2, <1>4, <2>1, <3>1 DEF FatBlock, Block
  <2> QED
    BY <2>2, <2>3
<1> QED
  BY <1>3, <1>4

\* get_fileinfo and dir_find put a long name together again, or none of it.
LEMMA RunOf ==
    ASSUME NEW T, NEW n \in Names, NEW h \in Nat, LongOf(T.slot, n, h), NEW from \in 1 .. h
    PROVE  Run(T, h, from) = IF h - from >= Pieces(n) THEN {Pieces(n)} ELSE {}
<1>1. PICK p \in Nat : p = Pieces(n) /\ p >= 1
  BY NameIs
<1>2. p < h /\ \A k \in 1 .. p : /\ T.slot[h - k].kind = "lfn" /\ T.slot[h - k].ord = k
                                 /\ T.slot[h - k].sum = SumSfn(T.slot[h].sfn) /\ T.slot[h - k].last = (k = p)
                                 /\ T.slot[h - k].text = n.text[k]
  <2> SUFFICES ASSUME NEW k \in 1 .. p PROVE /\ T.slot[h - k].kind = "lfn" /\ T.slot[h - k].ord = k
                                 /\ T.slot[h - k].sum = SumSfn(T.slot[h].sfn) /\ T.slot[h - k].last = (k = p)
                                 /\ T.slot[h - k].text = n.text[k]
    BY <1>1 DEF LongOf
  <2>1. T.slot[h - k] = Lfn(n.text[k], k, k = p, T.slot[h].sfn)
    BY <1>1 DEF LongOf
  <2>2. /\ Lfn(n.text[k], k, k = p, T.slot[h].sfn).kind = "lfn" /\ Lfn(n.text[k], k, k = p, T.slot[h].sfn).ord = k
        /\ Lfn(n.text[k], k, k = p, T.slot[h].sfn).sum = T.slot[h].sfn
        /\ Lfn(n.text[k], k, k = p, T.slot[h].sfn).last = (k = p)
        /\ Lfn(n.text[k], k, k = p, T.slot[h].sfn).text = n.text[k]
    BY DEF Lfn
  <2> QED
    BY <2>1, <2>2 DEF SumSfn
<1>3. ASSUME NEW m \in 1 .. h - from, \A k \in 1 .. m : T.slot[h - k].last <=> k = m,
             \A k \in 1 .. m : T.slot[h - k].kind = "lfn"
      PROVE  m = p
  <2>1. CASE p <= m
    <3>1. p \in 1 .. m /\ p \in 1 .. p
      BY <1>1, <2>1
    <3>2. T.slot[h - p].last = (p = p)
      BY <1>2, <3>1
    <3> QED
      BY <1>3, <3>1, <3>2
  <2>2. CASE p > m
    <3>1. m \in 1 .. p /\ m \in 1 .. m /\ m # p
      BY <2>2
    <3>2. T.slot[h - m].last = (m = p)
      BY <1>2, <3>1
    <3> QED
      BY <1>3, <3>1, <3>2
  <2> QED
    BY <2>1, <2>2
<1>4. ASSUME NEW m \in Run(T, h, from) PROVE m = p /\ m \in 1 .. h - from
  <2>1. m \in 1 .. h - from /\ (\A k \in 1 .. m : T.slot[h - k].last <=> k = m) /\ \A k \in 1 .. m : T.slot[h - k].kind = "lfn"
    BY DEF Run
  <2> QED
    BY <1>3, <2>1
<1>5. ASSUME h - from >= p PROVE p \in Run(T, h, from)
  <2>1. p \in 1 .. h - from
    BY <1>1, <1>5
  <2>2. \A k \in 1 .. p : /\ T.slot[h - k].kind = "lfn" /\ T.slot[h - k].ord = k
                          /\ T.slot[h - k].sum = SumSfn(T.slot[h].sfn) /\ (T.slot[h - k].last <=> k = p)
    BY <1>2
  <2> QED
    BY <2>1, <2>2 DEF Run
<1> QED
  <2>1. CASE h - from >= p
    BY <1>1, <1>4, <1>5, <2>1
  <2>2. CASE ~(h - from >= p)
    <3>1. \A m \in Run(T, h, from) : FALSE
      BY <1>4, <2>2
    <3> QED
      BY <1>1, <2>2, <3>1
  <2> QED
    BY <2>1, <2>2

LEMMA SeqFun == ASSUME NEW q, IsSeq(q) PROVE q = [k \in 1 .. Len(q) |-> q[k]]
<1>1. PICK S : q \in Seq(S)
  BY DEF IsSeq
<1>2. Len(q) \in Nat /\ q \in [1 .. Len(q) -> S]
  BY <1>1
<1> QED
  BY <1>2
LEMMA FirstOne == ASSUME NEW p \in Nat PROVE First({p}) = p
  BY DEF First
LEMMA TextLong ==
    ASSUME NEW T, NEW n \in Names, NEW h \in Nat, LongOf(T.slot, n, h), NEW from \in 1 .. h
    PROVE  TextAt(T, h, from) = IF h - from >= Pieces(n) THEN n.text ELSE <<T.slot[h].sfn>>
<1>1. PICK p \in Nat : p = Pieces(n) /\ p >= 1
  BY NameIs
<1>2. CASE h - from >= p
  <2>1. Run(T, h, from) = {p}
    BY <1>1, <1>2, RunOf
  <2>2. TextAt(T, h, from) = [k \in 1 .. p |-> T.slot[h - k].text]
    BY <2>1, FirstOne DEF TextAt
  <2>3. \A k \in 1 .. p : T.slot[h - k].text = n.text[k]
    <3> TAKE k \in 1 .. p
    <3>1. T.slot[h - k] = Lfn(n.text[k], k, k = p, T.slot[h].sfn)
      BY <1>1 DEF LongOf
    <3>2. Lfn(n.text[k], k, k = p, T.slot[h].sfn).text = n.text[k]
      BY DEF Lfn
    <3> QED
      BY <3>1, <3>2
  <2>4. n.text = [k \in 1 .. p |-> n.text[k]]
    <3>1. IsSeq(n.text) /\ Len(n.text) = p
      BY <1>1, NameIs DEF Pieces
    <3> QED
      BY <3>1, SeqFun
  <2> QED
    BY <1>1, <1>2, <2>2, <2>3, <2>4
<1>3. CASE ~(h - from >= p)
  <2>1. Run(T, h, from) = {}
    BY <1>1, <1>3, RunOf
  <2> QED
    BY <1>1, <1>3, <2>1 DEF TextAt
<1> QED
  BY <1>2, <1>3

LEMMA TextShort ==
    ASSUME NEW T, NEW n \in Names, NEW h \in Nat, ShortOf(T.slot, n, h), NEW from \in 1 .. h
    PROVE  Run(T, h, from) = {} /\ TextAt(T, h, from) = <<T.slot[h].sfn>>
<1>1. ASSUME NEW m \in Run(T, h, from) PROVE FALSE
  <2>1. m \in 1 .. h - from /\ \A k \in 1 .. m : T.slot[h - k].kind = "lfn"
    BY DEF Run
  <2>2. 1 \in 1 .. m
    BY <2>1
  <2>3. T.slot[h - 1].kind = "lfn" /\ h # 1
    BY <2>1, <2>2
  <2> QED
    BY <2>3 DEF ShortOf
<1> QED
  BY <1>1 DEF TextAt

\* Two names of one block.
SameName(n, m) ==
    /\ ExFat => n.text = m.text
    /\ ~ExFat => (n.lfn <=> m.lfn) /\ (n.lfn => n.text = m.text)
LEMMA BlockName ==
    ASSUME NEW f, NEW n \in Names, NEW m \in Names, NEW h \in Nat, h > 0, Block(f, n, h), Block(f, m, h) PROVE SameName(n, m)
<1>1. CASE ExFat
  BY <1>1 DEF Block, ExBlock, SameName
<1>2. CASE ~ExFat
  <2>1. /\ LongOf(f, n, h) \/ ShortOf(f, n, h)
        /\ LongOf(f, m, h) \/ ShortOf(f, m, h)
    BY <1>2 DEF Block, FatBlock
  <2>2. PICK T : T = [slot |-> f]
    OBVIOUS
  <2>3. T.slot = f /\ 1 \in 1 .. h
    BY <2>2
  <2>4. ASSUME NEW a \in Names, LongOf(f, a, h) PROVE Run(T, h, 1) # {} /\ TextAt(T, h, 1) = a.text /\ a.lfn
    <3>1. h - 1 >= Pieces(a) /\ a.lfn
      BY <2>4, NameIs DEF LongOf
    <3>2. LongOf(T.slot, a, h)
      BY <2>3, <2>4
    <3>3. Run(T, h, 1) = {Pieces(a)} /\ TextAt(T, h, 1) = a.text
      BY <2>3, <3>1, <3>2, RunOf, TextLong
    <3> QED
      BY <3>1, <3>3
  <2>5. ASSUME NEW a \in Names, ShortOf(f, a, h) PROVE Run(T, h, 1) = {} /\ ~a.lfn
    <3>1. ShortOf(T.slot, a, h)
      BY <2>3, <2>5
    <3> QED
      BY <2>3, <2>5, <3>1, TextShort DEF ShortOf
  <2> QED
    BY <1>2, <2>1, <2>4, <2>5 DEF SameName
<1> QED
  BY <1>1, <1>2

LEMMA SameParts == ASSUME NEW n, NEW m, NEW h, SameName(n, m), n.lfn \in BOOLEAN, m.lfn \in BOOLEAN PROVE PartsAt(n, h) = PartsAt(m, h) /\ Span(n, h) = Span(m, h)
<1>1. PartsAt(n, h) = PartsAt(m, h)
  BY DEF SameName, PartsAt, Pieces
<1> QED
  BY <1>1 DEF Span
LEMMA SameClash ==
    ASSUME NEW f, NEW n, NEW m, NEW a, NEW b, NEW h, NEW g, SameName(n, m), SameName(a, b), Clash(f, n, h, a, g) PROVE Clash(f, m, h, b, g)
  BY DEF SameName, Clash
LEMMA SameTurn == ASSUME NEW n, NEW m, SameName(n, m) PROVE SameName(m, n)
  BY DEF SameName

\* It is enough that some names of the blocks do not clash.
LEMMA ApartOne ==
    ASSUME NEW N \in Nat, NEW F, 
           \A g, h \in 1 .. N : F[g].kind = HeadKind /\ F[h].kind = HeadKind /\ g # h =>
               \E a, b \in Names : Block(F, a, g) /\ Block(F, b, h) /\ ~Clash(F, a, g, b, h)
    PROVE  Apart(N, F)
<1> SUFFICES ASSUME NEW g \in 1 .. N, NEW h \in 1 .. N, NEW n \in Names, NEW m \in Names,
                    Block(F, n, g), Block(F, m, h), Clash(F, n, g, m, h), g # h PROVE FALSE
  BY DEF Apart
<1>1. F[g].kind = HeadKind /\ F[h].kind = HeadKind
  BY BlockKinds
<1>2. PICK a \in Names, b \in Names : Block(F, a, g) /\ Block(F, b, h) /\ ~Clash(F, a, g, b, h)
  BY <1>1
<1>3. SameName(n, a) /\ SameName(m, b)
  BY <1>2, BlockName
<1> QED
  BY <1>2, <1>3, SameClash

\* A block found in a good table lies in it.
LEMMA BlockIn ==
    ASSUME NEW N \in Nat, NEW f, Headed(N, f), NEW n \in Names, NEW h \in 1 .. N, Block(f, n, h) PROVE Span(n, h) \subseteq 1 .. N
<1>1. f[h].kind = HeadKind
  BY BlockKinds
<1>2. PICK m \in Names : Block(f, m, h) /\ PartsAt(m, h) \subseteq 1 .. N
  BY <1>1 DEF Headed
<1>3. SameName(n, m) /\ n.lfn \in BOOLEAN /\ m.lfn \in BOOLEAN
  BY <1>2, BlockName, NameIs
<1>4. PartsAt(n, h) = PartsAt(m, h)
  BY <1>3, SameParts
<1> QED
  BY <1>2, <1>4 DEF Span

(***************************************************************************)
(* What adding, taking away and rewriting a block does to a good table     *)
(***************************************************************************)
\* F is f outside a block at h, which is written anew or gone.
Untouched(N, f, F, D) == \A i \in 1 .. N : i \notin D => F[i] = f[i]
OthersKept(N, f, F, h) == \A g \in 1 .. N : \A m \in Names : g # h /\ Block(f, m, g) => Block(F, m, g)

\* The other blocks of a table stay, if none of them meets D, and no piece comes to
\* stand in front of a short one.
LEMMA Others ==
    ASSUME NEW N \in Nat, NEW f, NEW F, NEW D, NEW h \in 1 .. N, Headed(N, f), Untouched(N, f, F, D),
           \A g \in 1 .. N : \A m \in Names : g # h /\ Block(f, m, g) => \A i \in Span(m, g) : i \notin D,
           \A i \in D : F[i].kind = "lfn" => i \in Nat /\ i < h /\ i .. h \subseteq D
    PROVE  OthersKept(N, f, F, h)
<1> SUFFICES ASSUME NEW g \in 1 .. N, NEW m \in Names, g # h, Block(f, m, g) PROVE Block(F, m, g)
  BY DEF OthersKept
<1>1. Span(m, g) \subseteq 1 .. N
  BY BlockIn
<1>2. \A i \in Span(m, g) : i \notin D
  OBVIOUS
<1>3. \A i \in Span(m, g) : F[i] = f[i]
  BY <1>1, <1>2 DEF Untouched
<1>4. ASSUME ~ExFat, ~m.lfn PROVE g = 1 \/ F[g - 1].kind # "lfn"
  <2> SUFFICES ASSUME g # 1, F[g - 1].kind = "lfn" PROVE FALSE
    OBVIOUS
  <2>1. g - 1 \in 1 .. N
    OBVIOUS
  <2>2. f[g - 1].kind # "lfn"
    <3>1. FatBlock(f, m, g)
      BY <1>4 DEF Block
    <3> QED
      BY <1>4, <3>1 DEF FatBlock, LongOf, ShortOf
  <2>3. g - 1 \in D
    BY <2>1, <2>2 DEF Untouched
  <2>4. g - 1 < h /\ g - 1 .. h \subseteq D
    BY <2>3
  <2>5. g \in g - 1 .. h
    BY <2>4
  <2>6. g \in Span(m, g)
    BY DEF Span
  <2> QED
    BY <1>2, <2>4, <2>5, <2>6
<1> QED
  BY <1>3, <1>4, BlockStays

\* Pieces in a block are in front of its head.
LEMMA PiecesLead ==
    ASSUME NEW f, NEW n \in Names, NEW h \in Nat, h > 0, Block(f, n, h), NEW i \in Span(n, h), f[i].kind = "lfn"
    PROVE  i \in Nat /\ i < h /\ i .. h \subseteq Span(n, h)
<1>1. /\ f[h].kind = HeadKind
      /\ \A j \in PartsAt(n, h) : j \in Int /\ j # h /\ f[j].kind \in PartKinds
      /\ ~ExFat => \A j \in PartsAt(n, h) : j > 0 /\ j < h /\ j .. h - 1 \subseteq PartsAt(n, h)
  BY BlockKinds
<1>2. ~ExFat /\ i # h
  <2>1. ExFat => f[i].kind \in {"85", "c0", "c1"}
    BY <1>1, KindsAre DEF Span
  <2>2. ~ExFat /\ i = h => f[i].kind = "sfn"
    BY <1>1, KindsAre
  <2> QED
    BY <2>1, <2>2
<1>3. i \in Int /\ i > 0 /\ i < h /\ i .. h - 1 \subseteq PartsAt(n, h)
  BY <1>1, <1>2 DEF Span
<1> QED
  BY <1>3 DEF Span

\* dir_register
Unclashed(N, f, F, n, h) ==
    \A g \in 1 .. N : \A m \in Names : g # h /\ Block(f, m, g) => ~Clash(F, n, h, m, g)
LEMMA GoodAdd ==
    ASSUME NEW N \in Nat, NEW f, NEW F, Good(N, f), NEW n \in Names, NEW h \in 1 .. N, Block(F, n, h),
           Span(n, h) \subseteq 1 .. N, \A i \in Span(n, h) : f[i].kind \in {"zero", "gone"},
           Untouched(N, f, F, Span(n, h)), Unclashed(N, f, F, n, h)
    PROVE  Good(N, F) /\ OthersKept(N, f, F, h)
<1>1. Headed(N, f) /\ Owned(N, f) /\ Apart(N, f)
  BY DEF Good
<1>2. \A g \in 1 .. N : \A m \in Names : Block(f, m, g) => \A i \in Span(m, g) : i \notin Span(n, h)
  <2> SUFFICES ASSUME NEW g \in 1 .. N, NEW m \in Names, Block(f, m, g), NEW i \in Span(m, g), i \in Span(n, h) PROVE FALSE
    OBVIOUS
  <2>1. f[i].kind = HeadKind \/ f[i].kind \in PartKinds
    BY BlockKinds DEF Span
  <2>2. f[i].kind \in {"zero", "gone"}
    OBVIOUS
  <2> QED
    BY <2>1, <2>2, KindsAre
<1>3. \A i \in Span(n, h) : F[i].kind = "lfn" => i \in Nat /\ i < h /\ i .. h \subseteq Span(n, h)
  BY PiecesLead
<1>4. OthersKept(N, f, F, h)
  <2>1. \A g \in 1 .. N : \A m \in Names : g # h /\ Block(f, m, g) => \A i \in Span(m, g) : i \notin Span(n, h)
    BY <1>2
  <2> QED
    BY <1>1, <1>3, <2>1, Others
<1>5. ASSUME NEW g \in 1 .. N, g # h, F[g].kind = HeadKind
      PROVE  \E m \in Names : Block(f, m, g) /\ Block(F, m, g) /\ PartsAt(m, g) \subseteq 1 .. N
  <2>1. g \notin Span(n, h)
    <3>1. \A i \in PartsAt(n, h) : F[i].kind \in PartKinds
      BY BlockKinds
    <3> QED
      BY <1>5, <3>1, KindsAre DEF Span
  <2>2. f[g].kind = HeadKind
    BY <1>5, <2>1 DEF Untouched
  <2>3. PICK m \in Names : Block(f, m, g) /\ PartsAt(m, g) \subseteq 1 .. N
    BY <1>1, <2>2 DEF Headed
  <2> QED
    BY <1>4, <1>5, <2>3 DEF OthersKept
<1>6. Headed(N, F)
  <2> SUFFICES ASSUME NEW g \in 1 .. N, F[g].kind = HeadKind PROVE \E m \in Names : Block(F, m, g) /\ PartsAt(m, g) \subseteq 1 .. N
    BY DEF Headed
  <2>1. CASE g = h
    BY <2>1 DEF Span
  <2>2. CASE g # h
    BY <1>5, <2>2
  <2> QED
    BY <2>1, <2>2
<1>7. Owned(N, F)
  <2> SUFFICES ASSUME NEW i \in 1 .. N, F[i].kind \in PartKinds PROVE \E g \in 1 .. N : \E m \in Names : Block(F, m, g) /\ i \in PartsAt(m, g)
    BY DEF Owned
  <2>1. CASE i \in Span(n, h)
    <3>1. F[h].kind = HeadKind
      BY BlockKinds
    <3>2. i # h
      BY <3>1, KindsAre
    <3> QED
      BY <2>1, <3>2 DEF Span
  <2>2. CASE i \notin Span(n, h)
    <3>1. f[i].kind \in PartKinds
      BY <2>2 DEF Untouched
    <3>2. PICK g \in 1 .. N, m \in Names : Block(f, m, g) /\ i \in PartsAt(m, g)
      BY <1>1, <3>1 DEF Owned
    <3>3. g # h
      <4>1. g \in Span(m, g) /\ h \in Span(n, h)
        BY DEF Span
      <4> QED
        BY <1>2, <3>2, <4>1
    <3> QED
      BY <1>4, <3>2, <3>3 DEF OthersKept
  <2> QED
    BY <2>1, <2>2
<1>8. Apart(N, F)
  <2>1. ASSUME NEW g \in 1 .. N, NEW k \in 1 .. N, F[g].kind = HeadKind, F[k].kind = HeadKind, g # k
        PROVE  \E a, b \in Names : Block(F, a, g) /\ Block(F, b, k) /\ ~Clash(F, a, g, b, k)
    <3>1. CASE g = h
      <4>1. PICK b \in Names : Block(f, b, k) /\ Block(F, b, k)
        BY <1>5, <2>1, <3>1
      <4>2. ~Clash(F, n, h, b, k)
        BY <2>1, <3>1, <4>1 DEF Unclashed
      <4> QED
        BY <3>1, <4>1, <4>2
    <3>2. CASE k = h
      <4>1. PICK a \in Names : Block(f, a, g) /\ Block(F, a, g)
        BY <1>5, <2>1, <3>2
      <4>2. ~Clash(F, n, h, a, g)
        BY <2>1, <3>2, <4>1 DEF Unclashed
      <4>3. ~Clash(F, a, g, n, h)
        BY <4>2 DEF Clash
      <4> QED
        BY <3>2, <4>1, <4>3
    <3>3. CASE g # h /\ k # h
      <4>1. PICK a \in Names : Block(f, a, g) /\ Block(F, a, g)
        BY <1>5, <2>1, <3>3
      <4>2. PICK b \in Names : Block(f, b, k) /\ Block(F, b, k)
        BY <1>5, <2>1, <3>3
      <4>3. F[g] = f[g] /\ F[k] = f[k]
        <5>1. g \in Span(a, g) /\ k \in Span(b, k)
          BY DEF Span
        <5> QED
          BY <1>2, <4>1, <4>2, <5>1 DEF Untouched
      <4>4. ~Clash(f, a, g, b, k)
        BY <1>1, <2>1, <4>1, <4>2 DEF Apart
      <4>5. ~Clash(F, a, g, b, k)
        BY <4>3, <4>4 DEF Clash
      <4> QED
        BY <4>1, <4>2, <4>5
    <3> QED
      BY <3>1, <3>2, <3>3
  <2> QED
    BY <2>1, ApartOne
<1> QED
  BY <1>4, <1>6, <1>7, <1>8 DEF Good

\* dir_remove
LEMMA GoodDrop ==
    ASSUME NEW N \in Nat, NEW f, NEW F, Good(N, f), NEW n \in Names, NEW h \in 1 .. N, Block(f, n, h),
           \A i \in Span(n, h) : F[i] = Gone, Untouched(N, f, F, Span(n, h))
    PROVE  Good(N, F) /\ OthersKept(N, f, F, h)
<1>1. Headed(N, f) /\ Owned(N, f) /\ Apart(N, f)
  BY DEF Good
<1>2. \A g \in 1 .. N : \A m \in Names : g # h /\ Block(f, m, g) => \A i \in Span(m, g) : i \notin Span(n, h)
  BY BlocksApart
<1>3. \A i \in Span(n, h) : F[i].kind = "lfn" => i \in Nat /\ i < h /\ i .. h \subseteq Span(n, h)
  BY EntryConst
<1>4. OthersKept(N, f, F, h)
  BY <1>1, <1>2, <1>3, Others
<1>5. ASSUME NEW g \in 1 .. N, F[g].kind = HeadKind
      PROVE  g # h /\ F[g] = f[g] /\ \E m \in Names : Block(f, m, g) /\ Block(F, m, g) /\ PartsAt(m, g) \subseteq 1 .. N
  <2>1. g \notin Span(n, h)
    BY <1>5, EntryConst, KindsAre
  <2>2. f[g].kind = HeadKind /\ F[g] = f[g]
    BY <1>5, <2>1 DEF Untouched
  <2>3. PICK m \in Names : Block(f, m, g) /\ PartsAt(m, g) \subseteq 1 .. N
    BY <1>1, <2>2 DEF Headed
  <2>4. g # h
    BY <2>1 DEF Span
  <2> QED
    BY <1>4, <2>2, <2>3, <2>4 DEF OthersKept
<1>6. Headed(N, F)
  BY <1>5 DEF Headed
<1>7. Owned(N, F)
  <2> SUFFICES ASSUME NEW i \in 1 .. N, F[i].kind \in PartKinds PROVE \E g \in 1 .. N : \E m \in Names : Block(F, m, g) /\ i \in PartsAt(m, g)
    BY DEF Owned
  <2>1. i \notin Span(n, h)
    BY EntryConst, KindsAre
  <2>2. f[i].kind \in PartKinds
    BY <2>1 DEF Untouched
  <2>3. PICK g \in 1 .. N, m \in Names : Block(f, m, g) /\ i \in PartsAt(m, g)
    BY <1>1, <2>2 DEF Owned
  <2>4. g # h
    <3> SUFFICES ASSUME g = h PROVE FALSE
      OBVIOUS
    <3>1. SameName(m, n) /\ m.lfn \in BOOLEAN /\ n.lfn \in BOOLEAN
      BY <2>3, BlockName, NameIs
    <3>2. Span(m, h) = Span(n, h)
      BY <3>1, SameParts
    <3> QED
      BY <2>1, <2>3, <3>2 DEF Span
  <2> QED
    BY <1>4, <2>3, <2>4 DEF OthersKept
<1>8. Apart(N, F)
  <2>1. ASSUME NEW g \in 1 .. N, NEW k \in 1 .. N, F[g].kind = HeadKind, F[k].kind = HeadKind, g # k
        PROVE  \E a, b \in Names : Block(F, a, g) /\ Block(F, b, k) /\ ~Clash(F, a, g, b, k)
    <3>1. PICK a \in Names : Block(f, a, g) /\ Block(F, a, g)
      BY <1>5, <2>1
    <3>2. PICK b \in Names : Block(f, b, k) /\ Block(F, b, k)
      BY <1>5, <2>1
    <3>3. F[g] = f[g] /\ F[k] = f[k]
      BY <1>5, <2>1
    <3>4. ~Clash(f, a, g, b, k)
      BY <1>1, <2>1, <3>1, <3>2 DEF Apart
    <3>5. ~Clash(F, a, g, b, k)
      BY <3>3, <3>4 DEF Clash
    <3> QED
      BY <3>1, <3>2, <3>5
  <2> QED
    BY <2>1, ApartOne
<1> QED
  BY <1>4, <1>6, <1>7, <1>8 DEF Good

\* f_sync: the entries of a block again.
LEMMA GoodAgain ==
    ASSUME NEW N \in Nat, NEW f, NEW F, Good(N, f), NEW n \in Names, NEW h \in 1 .. N, Block(f, n, h), Block(F, n, h),
           Untouched(N, f, F, Span(n, h)), ~ExFat => F[h].sfn = f[h].sfn
    PROVE  Good(N, F) /\ OthersKept(N, f, F, h)
<1>1. Headed(N, f) /\ Owned(N, f) /\ Apart(N, f)
  BY DEF Good
<1>2. \A g \in 1 .. N : \A m \in Names : g # h /\ Block(f, m, g) => \A i \in Span(m, g) : i \notin Span(n, h)
  BY BlocksApart
<1>3. \A i \in Span(n, h) : F[i].kind = "lfn" => i \in Nat /\ i < h /\ i .. h \subseteq Span(n, h)
  BY PiecesLead
<1>4. OthersKept(N, f, F, h)
  BY <1>1, <1>2, <1>3, Others
<1>5. ASSUME NEW g \in 1 .. N, F[g].kind = HeadKind
      PROVE  \E m \in Names : Block(f, m, g) /\ Block(F, m, g) /\ PartsAt(m, g) \subseteq 1 .. N /\ (g # h => F[g] = f[g])
  <2>1. CASE g = h
    <3>1. Span(n, h) \subseteq 1 .. N
      BY <1>1, BlockIn
    <3> QED
      BY <2>1, <3>1 DEF Span
  <2>2. CASE g # h
    <3>1. g \notin Span(n, h)
      <4>1. \A i \in PartsAt(n, h) : F[i].kind \in PartKinds
        BY BlockKinds
      <4> QED
        BY <1>5, <2>2, <4>1, KindsAre DEF Span
    <3>2. f[g].kind = HeadKind /\ F[g] = f[g]
      BY <1>5, <3>1 DEF Untouched
    <3>3. PICK m \in Names : Block(f, m, g) /\ PartsAt(m, g) \subseteq 1 .. N
      BY <1>1, <3>2 DEF Headed
    <3> QED
      BY <1>4, <2>2, <3>2, <3>3 DEF OthersKept
  <2> QED
    BY <2>1, <2>2
<1>6. Headed(N, F)
  BY <1>5 DEF Headed
<1>7. Owned(N, F)
  <2> SUFFICES ASSUME NEW i \in 1 .. N, F[i].kind \in PartKinds PROVE \E g \in 1 .. N : \E m \in Names : Block(F, m, g) /\ i \in PartsAt(m, g)
    BY DEF Owned
  <2>1. CASE i \in Span(n, h)
    <3>1. F[h].kind = HeadKind
      BY BlockKinds
    <3>2. i # h
      BY <3>1, KindsAre
    <3> QED
      BY <2>1, <3>2 DEF Span
  <2>2. CASE i \notin Span(n, h)
    <3>1. f[i].kind \in PartKinds
      BY <2>2 DEF Untouched
    <3>2. PICK g \in 1 .. N, m \in Names : Block(f, m, g) /\ i \in PartsAt(m, g)
      BY <1>1, <3>1 DEF Owned
    <3>3. g # h
      <4> SUFFICES ASSUME g = h PROVE FALSE
        OBVIOUS
      <4>1. SameName(m, n) /\ m.lfn \in BOOLEAN /\ n.lfn \in BOOLEAN
        BY <3>2, BlockName, NameIs
      <4>2. Span(m, h) = Span(n, h)
        BY <4>1, SameParts
      <4> QED
        BY <2>2, <3>2, <4>2 DEF Span
    <3> QED
      BY <1>4, <3>2, <3>3 DEF OthersKept
  <2> QED
    BY <2>1, <2>2
<1>8. Apart(N, F)
  <2>1. ASSUME NEW g \in 1 .. N, NEW k \in 1 .. N, F[g].kind = HeadKind, F[k].kind = HeadKind, g # k
        PROVE  \E a, b \in Names : Block(F, a, g) /\ Block(F, b, k) /\ ~Clash(F, a, g, b, k)
    <3>1. PICK a \in Names : Block(f, a, g) /\ Block(F, a, g)
      BY <1>5, <2>1
    <3>2. PICK b \in Names : Block(f, b, k) /\ Block(F, b, k)
      BY <1>5, <2>1
    <3>3. ~ExFat => F[g].sfn = f[g].sfn /\ F[k].sfn = f[k].sfn
      BY <1>5, <2>1
    <3>4. ~Clash(f, a, g, b, k)
      BY <1>1, <2>1, <3>1, <3>2 DEF Apart
    <3>5. ~Clash(F, a, g, b, k)
      BY <3>3, <3>4 DEF Clash
    <3> QED
      BY <3>1, <3>2, <3>5
  <2> QED
    BY <2>1, ApartOne
<1> QED
  BY <1>4, <1>6, <1>7, <1>8 DEF Good

\* dir_next with stretch: entries that are zero behind the table.
LEMMA GoodLonger ==
    ASSUME NEW N \in Nat, NEW M \in Nat, N <= M, NEW f, NEW F, Good(N, f), \A i \in 1 .. N : F[i] = f[i],
           \A i \in N + 1 .. M : F[i] = Zero
    PROVE  Good(M, F) /\ \A g \in 1 .. N : \A m \in Names : Block(f, m, g) => Block(F, m, g)
<1>1. Headed(N, f) /\ Owned(N, f) /\ Apart(N, f)
  BY DEF Good
<1>2. ASSUME NEW g \in 1 .. N, NEW m \in Names, Block(f, m, g) PROVE Block(F, m, g)
  <2>1. Span(m, g) \subseteq 1 .. N
    BY <1>1, <1>2, BlockIn
  <2>2. \A i \in Span(m, g) : F[i] = f[i]
    BY <2>1
  <2>3. ~ExFat /\ ~m.lfn => g = 1 \/ F[g - 1].kind # "lfn"
    <3> SUFFICES ASSUME ~ExFat, ~m.lfn, g # 1 PROVE F[g - 1].kind # "lfn"
      OBVIOUS
    <3>1. g - 1 \in 1 .. N
      OBVIOUS
    <3>2. f[g - 1].kind # "lfn"
      BY <1>2 DEF Block, FatBlock, LongOf, ShortOf
    <3> QED
      BY <3>1, <3>2
  <2> QED
    BY <1>2, <2>2, <2>3, BlockStays, SMTT(40)
<1>3. ASSUME NEW i \in 1 .. M, F[i].kind = HeadKind \/ F[i].kind \in PartKinds PROVE i \in 1 .. N /\ F[i] = f[i]
  <2>1. F[i] # Zero
    BY <1>3, EntryConst, KindsAre
  <2> QED
    BY <2>1
<1>4. Headed(M, F)
  <2> SUFFICES ASSUME NEW g \in 1 .. M, F[g].kind = HeadKind PROVE \E m \in Names : Block(F, m, g) /\ PartsAt(m, g) \subseteq 1 .. M
    BY DEF Headed
  <2>1. g \in 1 .. N /\ f[g].kind = HeadKind
    BY <1>3
  <2>2. PICK m \in Names : Block(f, m, g) /\ PartsAt(m, g) \subseteq 1 .. N
    BY <1>1, <2>1 DEF Headed
  <2>3. 1 .. N \subseteq 1 .. M
    OBVIOUS
  <2> QED
    BY <1>2, <2>1, <2>2, <2>3
<1>5. Owned(M, F)
  <2> SUFFICES ASSUME NEW i \in 1 .. M, F[i].kind \in PartKinds PROVE \E g \in 1 .. M : \E m \in Names : Block(F, m, g) /\ i \in PartsAt(m, g)
    BY DEF Owned
  <2>1. i \in 1 .. N /\ f[i].kind \in PartKinds
    BY <1>3
  <2>2. PICK g \in 1 .. N, m \in Names : Block(f, m, g) /\ i \in PartsAt(m, g)
    BY <1>1, <2>1 DEF Owned
  <2>3. g \in 1 .. M
    OBVIOUS
  <2> QED
    BY <1>2, <2>2, <2>3
<1>6. Apart(M, F)
  <2>1. ASSUME NEW g \in 1 .. M, NEW k \in 1 .. M, F[g].kind = HeadKind, F[k].kind = HeadKind, g # k
        PROVE  \E a, b \in Names : Block(F, a, g) /\ Block(F, b, k) /\ ~Clash(F, a, g, b, k)
    <3>1. g \in 1 .. N /\ k \in 1 .. N /\ F[g] = f[g] /\ F[k] = f[k]
      BY <1>3, <2>1
    <3>2. PICK a \in Names : Block(f, a, g)
      BY <1>1, <2>1, <3>1 DEF Headed
    <3>3. PICK b \in Names : Block(f, b, k)
      BY <1>1, <2>1, <3>1 DEF Headed
    <3>4. ~Clash(f, a, g, b, k)
      BY <1>1, <2>1, <3>1, <3>2, <3>3 DEF Apart
    <3>5. ~Clash(F, a, g, b, k)
      BY <3>1, <3>4 DEF Clash
    <3> QED
      BY <1>2, <3>1, <3>2, <3>3, <3>5
  <2> QED
    BY <2>1, ApartOne
<1> QED
  BY <1>2, <1>4, <1>5, <1>6 DEF Good

(***************************************************************************)
(* dir_find                                                                *)
(***************************************************************************)
LEMMA KindIs ==
    ASSUME NEW T, T.len \in Nat, ZeroLast(T), NEW from \in Nat, from >= 1, NEW k, k \notin {"zero", "junk"}
    PROVE  Kind(T, from, k) = {i \in from .. T.len : T.slot[i].kind = k}
<1>1. PICK Z : Z = {i \in from .. T.len : T.slot[i].kind = "zero"}
  OBVIOUS
<1>2. CASE Z = {}
  <2>1. End(T, from) = T.len + 1
    BY <1>1, <1>2 DEF End
  <2>2. from .. End(T, from) - 1 = from .. T.len
    BY <2>1
  <2> QED
    BY <2>2 DEF Kind
<1>3. CASE Z # {}
  <2>1. Z \in SUBSET (1 .. T.len)
    BY <1>1
  <2>2. PICK z \in Z : z = First(Z) /\ \A j \in Z : z <= j
    BY <1>3, <2>1, FirstIs
  <2>3. End(T, from) = z
    BY <1>1, <1>3, <2>2 DEF End
  <2>4. z \in from .. T.len /\ T.slot[z].kind = "zero"
    BY <1>1, <2>2
  <2>5. ASSUME NEW i \in from .. T.len, T.slot[i].kind = k PROVE i \in from .. z - 1
    <3> SUFFICES ASSUME i >= z PROVE FALSE
      BY <2>4
    <3>1. i = z \/ T.slot[i].kind \in {"zero", "junk"}
      BY <2>4 DEF ZeroLast
    <3> QED
      BY <2>4, <2>5, <3>1
  <2>6. \A i \in from .. z - 1 : i \in from .. T.len
    BY <2>4
  <2> QED
    BY <2>3, <2>5, <2>6 DEF Kind
<1> QED
  BY <1>2, <1>3

LEMMA HeadsAre ==
    ASSUME NEW T, T.len \in Nat, ZeroLast(T) PROVE Heads(T) = {i \in 1 .. T.len : T.slot[i].kind = HeadKind}
<1>1. HeadKind \notin {"zero", "junk"}
  BY KindsAre
<1>2. Heads(T) = Kind(T, 1, HeadKind)
  BY DEF Heads, HeadKind
<1> QED
  BY <1>1, <1>2, KindIs

LEMMA FindIs ==
    ASSUME NEW T, T.len \in Nat, ZeroLast(T), NEW n
    PROVE  /\ Find(T, n) > 0 => Find(T, n) \in Heads(T) /\ Hit(T, n, Find(T, n))
           /\ Find(T, n) \in {0, -1} \union Heads(T) /\ Find(T, n) \in Int
           /\ Find(T, n) = 0 => \A i \in Heads(T) : ~Hit(T, n, i)
           /\ \A i \in Heads(T) : Hit(T, n, i) /\ (\A j \in Heads(T) : Hit(T, n, j) \/ (ExFat /\ ~Whole(T, j)) => j = i) => Find(T, n) = i
<1>1. PICK S : S = {i \in Heads(T) : Hit(T, n, i) \/ (ExFat /\ ~Whole(T, i))}
  OBVIOUS
<1>2. Heads(T) \in SUBSET (1 .. T.len)
  BY HeadsAre
<1>3. S # {} => First(S) \in S
  BY <1>1, <1>2, FirstIs
<1>4. Find(T, n) = CASE S = {} -> 0 [] S # {} /\ Hit(T, n, First(S)) -> First(S) [] OTHER -> -1
  BY <1>1 DEF Find
<1>5. CASE S = {}
  <2>1. Find(T, n) = 0
    BY <1>4, <1>5
  <2> QED
    BY <1>1, <1>5, <2>1
<1>6. CASE S # {}
  <2>1. First(S) \in Heads(T) /\ First(S) \in Int /\ First(S) > 0
    BY <1>1, <1>2, <1>3, <1>6
  <2>2. Find(T, n) = IF Hit(T, n, First(S)) THEN First(S) ELSE -1
    BY <1>4, <1>6
  <2>3. ASSUME NEW i \in Heads(T), Hit(T, n, i), \A j \in Heads(T) : Hit(T, n, j) \/ (ExFat /\ ~Whole(T, j)) => j = i
        PROVE  Find(T, n) = i
    <3>1. First(S) = i
      BY <1>1, <1>3, <1>6, <2>3
    <3> QED
      BY <2>2, <2>3, <3>1
  <2> QED
    BY <2>1, <2>2, <2>3
<1> QED
  BY <1>5, <1>6

\* The block that dir_remove clears, whatever else is in the table.
RunAt(b, e, i) ==
    /\ b \in Nat /\ e \in Nat /\ 1 <= b /\ b <= i /\ i <= e /\ e <= table.len
    /\ \A j \in b .. e : j # i => table.slot[j].kind \in PartKinds
LEMMA StartFat ==
    ASSUME Calm, ~ExFat, NEW i \in 1 .. table.len
    PROVE  /\ BlockStart(table, i) \in 1 .. i
           /\ \A j \in BlockStart(table, i) .. i - 1 : table.slot[j].kind = "lfn"
           /\ BlockStart(table, i) = i
              \/ (table.slot[BlockStart(table, i)].kind = "lfn" /\ table.slot[BlockStart(table, i)].last
                  /\ BlockStart(table, i) < i)
           /\ \A j \in 1 .. i - 1 :
                  table.slot[j].kind = "lfn" /\ table.slot[j].last /\ (\A k \in j .. i - 1 : table.slot[k].kind = "lfn")
                      => BlockStart(table, i) >= j /\ BlockStart(table, i) < i
<1>1. PICK B : B = {j \in 1 .. i - 1 : table.slot[j].kind # "lfn"}
  OBVIOUS
<1>2. PICK S : S = {j \in 1 .. i - 1 : table.slot[j].kind = "lfn" /\ table.slot[j].last /\ \A b \in B : b < j}
  OBVIOUS
<1>3. BlockStart(table, i) = IF S = {} THEN i ELSE Latest(S)
  BY <1>1, <1>2 DEF BlockStart
<1>4. CASE S = {}
  <2>1. BlockStart(table, i) = i
    BY <1>3, <1>4
  <2>2. ASSUME NEW j \in 1 .. i - 1, table.slot[j].kind = "lfn", table.slot[j].last, \A k \in j .. i - 1 : table.slot[k].kind = "lfn" PROVE FALSE
    <3>1. \A b \in B : b < j
      BY <1>1, <2>2
    <3> QED
      BY <1>2, <1>4, <2>2, <3>1
  <2> QED
    BY <2>1, <2>2
<1>5. CASE S # {}
  <2>1. S \in SUBSET (1 .. i - 1) /\ i - 1 \in Nat
    BY <1>2
  <2>2. PICK s \in S : s = Latest(S) /\ \A j \in S : s >= j
    BY <1>5, <2>1, LatestIs
  <2>3. BlockStart(table, i) = s
    BY <1>3, <1>5, <2>2
  <2>4. s \in 1 .. i - 1 /\ table.slot[s].kind = "lfn" /\ table.slot[s].last /\ \A b \in B : b < s
    BY <1>2
  <2>5. \A j \in s .. i - 1 : table.slot[j].kind = "lfn"
    BY <1>1, <2>4
  <2>6. ASSUME NEW j \in 1 .. i - 1, table.slot[j].kind = "lfn", table.slot[j].last, \A k \in j .. i - 1 : table.slot[k].kind = "lfn" PROVE s >= j
    <3>1. \A b \in B : b < j
      BY <1>1, <2>6
    <3> QED
      BY <1>2, <2>2, <2>6, <3>1
  <2> QED
    BY <2>3, <2>4, <2>5, <2>6
<1> QED
  BY <1>4, <1>5

LEMMA BlockRun ==
    ASSUME Calm, NEW n, NEW i, i = Find(table, n), i > 0
    PROVE  /\ i \in 1 .. table.len /\ table.slot[i].kind = HeadKind /\ Hit(table, n, i)
           /\ RunAt(BlockStart(table, i), BlockEnd(table, i), i)
           /\ ExFat => Whole(table, i) /\ table.slot[i + 1].kind = "c0"
<1>1. table.len \in Nat /\ ZeroLast(table)
  BY PartsOf DEF Calm, TablesOK
<1>2. i \in Heads(table) /\ Hit(table, n, i)
  BY <1>1, FindIs
<1>3. i \in 1 .. table.len /\ table.slot[i].kind = HeadKind
  BY <1>1, <1>2, HeadsAre
<1>4. CASE ExFat
  <2>1. Whole(table, i)
    BY <1>2, <1>4 DEF Hit
  <2>2. BlockStart(table, i) = i /\ BlockEnd(table, i) = i + table.slot[i].num
    BY <1>4 DEF BlockStart, BlockEnd
  <2>3. PICK p \in Nat : p = table.slot[i].num /\ p >= 2
    <3>1. EntryOK(table.slot[i])
      BY <1>3, Pos DEF Calm, TablesOK, Typed
    <3>2. table.slot[i].kind = "85"
      BY <1>3, <1>4, KindsAre
    <3> QED
      BY <3>1, <3>2 DEF EntryOK
  <2>4. i + p <= table.len /\ table.slot[i + 1].kind = "c0" /\ \A k \in 2 .. p : table.slot[i + k].kind = "c1"
    BY <2>1, <2>3 DEF Whole
  <2>5. ASSUME NEW j \in i .. i + p, j # i PROVE table.slot[j].kind \in PartKinds
    <3>1. CASE j = i + 1
      BY <1>4, <2>4, <3>1, KindsAre
    <3>2. CASE j # i + 1
      <4>1. j - i \in 2 .. p /\ i + (j - i) = j
        BY <1>3, <2>5, <3>2
      <4> QED
        BY <1>4, <2>4, <4>1, KindsAre
    <3> QED
      BY <3>1, <3>2
  <2>6. RunAt(i, i + p, i)
    BY <1>1, <1>3, <2>4, <2>5 DEF RunAt
  <2> QED
    BY <1>2, <1>3, <2>1, <2>2, <2>3, <2>4, <2>6
<1>5. CASE ~ExFat
  <2>1. BlockEnd(table, i) = i
    BY <1>5 DEF BlockEnd
  <2>2. PICK b \in Nat : b = BlockStart(table, i) /\ b \in 1 .. i /\ \A j \in b .. i - 1 : table.slot[j].kind = "lfn"
    BY <1>3, <1>5, StartFat
  <2>3. RunAt(b, i, i)
    BY <1>1, <1>3, <1>5, <2>2, KindsAre DEF RunAt
  <2> QED
    BY <1>2, <1>3, <1>5, <2>1, <2>2, <2>3
<1> QED
  BY <1>4, <1>5

(***************************************************************************)
(* A good table read                                                       *)
(***************************************************************************)
GoodNow == Calm /\ Good(table.len, table.slot)
BlockNow(m, h) == m \in Names /\ h \in 1 .. table.len /\ Block(table.slot, m, h)

LEMMA NowIs ==
    ASSUME GoodNow
    PROVE  /\ table.len \in Nat /\ ZeroLast(table)
           /\ Heads(table) = {i \in 1 .. table.len : table.slot[i].kind = HeadKind}
           /\ \A h \in Heads(table) : \E m : BlockNow(m, h)
           /\ \A m, h : BlockNow(m, h) => h \in Heads(table) /\ Span(m, h) \subseteq 1 .. table.len
           /\ \A m, k, h, g : BlockNow(m, h) /\ BlockNow(k, g) /\ Clash(table.slot, m, h, k, g) => h = g
<1>1. table.len \in Nat /\ ZeroLast(table)
  BY PartsOf DEF GoodNow, Calm, TablesOK
<1>2. Heads(table) = {i \in 1 .. table.len : table.slot[i].kind = HeadKind}
  BY <1>1, HeadsAre
<1>3. Headed(table.len, table.slot) /\ Apart(table.len, table.slot)
  BY DEF GoodNow, Good
<1>4. \A h \in Heads(table) : \E m : BlockNow(m, h)
  BY <1>2, <1>3 DEF Headed, BlockNow
<1>5. ASSUME NEW m, NEW h, BlockNow(m, h) PROVE h \in Heads(table) /\ Span(m, h) \subseteq 1 .. table.len
  <2>1. m \in Names /\ h \in 1 .. table.len /\ Block(table.slot, m, h) /\ h \in Nat
    BY <1>5 DEF BlockNow
  <2>2. table.slot[h].kind = HeadKind
    BY <2>1, BlockKinds
  <2>3. Span(m, h) \subseteq 1 .. table.len
    BY <1>1, <1>3, <2>1, BlockIn
  <2> QED
    BY <1>2, <2>1, <2>2, <2>3
<1>6. \A m, k, h, g : BlockNow(m, h) /\ BlockNow(k, g) /\ Clash(table.slot, m, h, k, g) => h = g
  BY <1>3 DEF Apart, BlockNow
<1> QED
  BY <1>1, <1>2, <1>4, <1>5, <1>6

LEMMA ExReads ==
    ASSUME GoodNow, ExFat, NEW m, NEW h, BlockNow(m, h)
    PROVE  /\ Whole(table, h) /\ SetText(table, h) = m.text
           /\ BlockStart(table, h) = h /\ BlockEnd(table, h) = h + 1 + Pieces(m)
           /\ Span(m, h) = BlockStart(table, h) .. BlockEnd(table, h)
<1>1. m \in Names /\ h \in 1 .. table.len /\ ExBlock(table.slot, m, h) /\ table.len \in Nat
  BY NowIs DEF BlockNow, Block
<1>2. PICK p \in Nat : p = Pieces(m) /\ p >= 1
  BY <1>1, NameIs
<1>3. /\ table.slot[h].num = p + 1 /\ table.slot[h + 1].kind = "c0"
      /\ table.slot[h].sum = <<m.text, table.slot[h + 1].obj>>
      /\ \A k \in 1 .. p : table.slot[h + 1 + k].kind = "c1" /\ table.slot[h + 1 + k].text = m.text[k]
  BY <1>1, <1>2 DEF ExBlock
<1>4. Span(m, h) = h .. h + 1 + p
  <2>1. PartsAt(m, h) = h + 1 .. h + 1 + p
    BY <1>2 DEF PartsAt
  <2> QED
    BY <1>1, <2>1 DEF Span
<1>5. h + (p + 1) <= table.len
  <2>1. h + 1 + p \in Span(m, h)
    BY <1>1, <1>4
  <2>2. Span(m, h) \subseteq 1 .. table.len
    BY NowIs
  <2> QED
    BY <1>1, <2>1, <2>2
<1>6. SetText(table, h) = m.text
  <2>1. SetText(table, h) = [k \in 1 .. p |-> table.slot[h + 1 + k].text]
    <3>1. table.slot[h].num - 1 = p
      BY <1>3
    <3> QED
      BY <3>1 DEF SetText
  <2>2. m.text = [k \in 1 .. p |-> m.text[k]]
    <3>1. IsSeq(m.text) /\ Len(m.text) = p
      BY <1>1, <1>2, NameIs DEF Pieces
    <3> QED
      BY <3>1, SeqFun
  <2> QED
    BY <1>3, <2>1, <2>2
<1>7. \A k \in 2 .. p + 1 : table.slot[h + k].kind = "c1"
  <2> TAKE k \in 2 .. p + 1
  <2>1. k - 1 \in 1 .. p /\ h + 1 + (k - 1) = h + k
    BY <1>1
  <2> QED
    BY <1>3, <2>1
<1>8. Whole(table, h)
  BY <1>3, <1>5, <1>6, <1>7 DEF Whole
<1>9. BlockStart(table, h) = h /\ BlockEnd(table, h) = h + 1 + p
  BY <1>1, <1>3 DEF BlockStart, BlockEnd
<1> QED
  BY <1>2, <1>4, <1>6, <1>8, <1>9

LEMMA FatReads ==
    ASSUME GoodNow, ~ExFat, NEW m, NEW h, BlockNow(m, h)
    PROVE  /\ m.lfn => LongOf(table.slot, m, h) /\ Run(table, h, 1) = {Pieces(m)} /\ TextAt(table, h, 1) = m.text
           /\ ~m.lfn => ShortOf(table.slot, m, h) /\ Run(table, h, 1) = {}
           /\ table.slot[h].sfn \in ShortNames /\ (~m.lossy => table.slot[h].sfn = m.sfn)
           /\ BlockEnd(table, h) = h /\ Span(m, h) = BlockStart(table, h) .. BlockEnd(table, h)
<1>1. m \in Names /\ h \in 1 .. table.len /\ FatBlock(table.slot, m, h) /\ table.len \in Nat /\ h \in Nat /\ 1 \in 1 .. h
  BY NowIs DEF BlockNow, Block
<1>2. PICK p \in Nat : p = Pieces(m) /\ p >= 1
  BY <1>1, NameIs
<1>3. BlockEnd(table, h) = h
  BY DEF BlockEnd
<1>4. CASE m.lfn
  <2>1. LongOf(table.slot, m, h)
    BY <1>1, <1>4 DEF FatBlock, ShortOf
  <2>2. h - 1 >= p
    BY <1>1, <1>2, <2>1 DEF LongOf
  <2>3. Run(table, h, 1) = {Pieces(m)} /\ TextAt(table, h, 1) = m.text
    BY <1>1, <1>2, <2>1, <2>2, RunOf, TextLong
  <2>4. Span(m, h) = h - p .. h
    <3>1. PartsAt(m, h) = h - p .. h - 1
      BY <1>2, <1>4 DEF PartsAt
    <3> QED
      BY <1>1, <3>1 DEF Span
  <2>5. \A k \in 1 .. p : table.slot[h - k].kind = "lfn" /\ table.slot[h - k].last = (k = p)
    <3> TAKE k \in 1 .. p
    <3>1. table.slot[h - k] = Lfn(m.text[k], k, k = p, table.slot[h].sfn)
      BY <1>2, <2>1 DEF LongOf
    <3>2. /\ Lfn(m.text[k], k, k = p, table.slot[h].sfn).kind = "lfn"
          /\ Lfn(m.text[k], k, k = p, table.slot[h].sfn).last = (k = p)
      BY DEF Lfn
    <3> QED
      BY <3>1, <3>2
  <2>6. \A j \in h - p .. h - 1 : table.slot[j].kind = "lfn" /\ (table.slot[j].last => j = h - p) /\ (j = h - p => table.slot[j].last)
    <3> TAKE j \in h - p .. h - 1
    <3>1. h - j \in 1 .. p /\ h - (h - j) = j
      BY <1>1
    <3>2. table.slot[j].kind = "lfn" /\ table.slot[j].last = (h - j = p)
      BY <2>5, <3>1
    <3>3. (h - j = p) <=> j = h - p
      BY <1>1
    <3> QED
      BY <3>2, <3>3, Zenon
  <2>7. PICK b \in Nat :
           /\ b = BlockStart(table, h) /\ b \in 1 .. h /\ \A j \in b .. h - 1 : table.slot[j].kind = "lfn"
           /\ b = h \/ (table.slot[b].kind = "lfn" /\ table.slot[b].last /\ b < h)
           /\ \A j \in 1 .. h - 1 :
                  table.slot[j].kind = "lfn" /\ table.slot[j].last /\ (\A k \in j .. h - 1 : table.slot[k].kind = "lfn")
                      => b >= j /\ b < h
    <3>1. Calm
      BY DEF GoodNow
    <3> QED
      BY <1>1, <3>1, StartFat
  <2>8. b >= h - p /\ b < h
    <3>1. h - p \in 1 .. h - 1 /\ h - p \in h - p .. h - 1
      BY <1>1, <1>2, <2>2
    <3>2. table.slot[h - p].kind = "lfn" /\ table.slot[h - p].last /\ \A k \in h - p .. h - 1 : table.slot[k].kind = "lfn"
      BY <2>6, <3>1
    <3> QED
      BY <2>7, <3>1, <3>2
  <2>9. b = h - p
    BY <1>1, <2>6, <2>7, <2>8
  <2> QED
    BY <1>1, <1>3, <1>4, <2>1, <2>3, <2>4, <2>7, <2>9 DEF FatBlock
<1>5. CASE ~m.lfn
  <2>1. ShortOf(table.slot, m, h)
    BY <1>1, <1>5 DEF FatBlock, LongOf
  <2>2. Run(table, h, 1) = {}
    BY <1>1, <2>1, TextShort
  <2>3. Span(m, h) = {h}
    BY <1>5 DEF Span, PartsAt
  <2>4. BlockStart(table, h) = h
    <3>1. PICK b \in Nat : b = BlockStart(table, h) /\ b \in 1 .. h /\ \A j \in b .. h - 1 : table.slot[j].kind = "lfn"
      <4>1. Calm
        BY DEF GoodNow
      <4> QED
        BY <1>1, <4>1, StartFat
    <3>2. h # 1 => table.slot[h - 1].kind # "lfn"
      BY <2>1 DEF ShortOf
    <3>3. b # h => h - 1 \in b .. h - 1 /\ h # 1
      BY <1>1, <3>1
    <3> QED
      BY <3>1, <3>2, <3>3
  <2>5. h .. h = {h}
    BY <1>1
  <2> QED
    BY <1>1, <1>3, <1>5, <2>1, <2>2, <2>3, <2>4, <2>5 DEF FatBlock
<1>6. m.lfn \in BOOLEAN
  BY <1>1, NameIs
<1> QED
  BY <1>4, <1>5, <1>6

\* What a name leads to, in terms of the names of the blocks.
Leads(n, m, h) ==
    IF ExFat THEN m.text = n.text ELSE (m.lfn /\ m.text = n.text) \/ (~n.lossy /\ table.slot[h].sfn = n.sfn)
LEMMA HitIs ==
    ASSUME GoodNow, NEW m, NEW h, BlockNow(m, h), NEW n
    PROVE  /\ Hit(table, n, h) <=> Leads(n, m, h)
           /\ ExFat => Whole(table, h)
<1>1. CASE ExFat
  <2>1. Whole(table, h) /\ SetText(table, h) = m.text
    BY <1>1, ExReads
  <2> QED
    BY <1>1, <2>1 DEF Hit, Leads
<1>2. CASE ~ExFat
  <2>1. /\ m.lfn => Run(table, h, 1) = {Pieces(m)} /\ TextAt(table, h, 1) = m.text
        /\ ~m.lfn => Run(table, h, 1) = {}
    BY <1>2, FatReads
  <2>2. m.lfn \in BOOLEAN
    BY NameIs DEF BlockNow
  <2> QED
    BY <1>2, <2>1, <2>2 DEF Hit, Leads
<1> QED
  BY <1>1, <1>2

LEMMA HitOne ==
    ASSUME GoodNow, NEW m, NEW h, BlockNow(m, h), NEW k, NEW g, BlockNow(k, g), NEW n \in Names,
           Leads(n, m, h), Leads(n, k, g)
    PROVE  h = g
<1>1. m \in Names /\ k \in Names
  BY DEF BlockNow
<1>2. Clash(table.slot, m, h, k, g)
  <2>1. CASE ExFat
    BY <2>1 DEF Leads, Clash
  <2>2. CASE ~ExFat
    <3>1. /\ ~m.lossy => table.slot[h].sfn = m.sfn
          /\ ~k.lossy => table.slot[g].sfn = k.sfn
      BY <2>2, FatReads
    <3>2. (m.text = n.text => m.sfn = n.sfn /\ m.lossy = n.lossy) /\ (k.text = n.text => k.sfn = n.sfn /\ k.lossy = n.lossy)
      BY <1>1, NameIs
    <3> QED
      BY <2>2, <3>1, <3>2 DEF Leads, Clash
  <2> QED
    BY <2>1, <2>2
<1> QED
  BY <1>2, NowIs

\* dir_find on a good table: never an error, and where the name leads alone.
LEMMA FindGood ==
    ASSUME GoodNow, NEW n
    PROVE  /\ Find(table, n) = 0 => \A m, h : BlockNow(m, h) => ~Leads(n, m, h)
           /\ Find(table, n) > 0 => \E m : BlockNow(m, Find(table, n)) /\ Leads(n, m, Find(table, n))
           /\ \A m, h : BlockNow(m, h) /\ Leads(n, m, h)
                  /\ (\A k, g : BlockNow(k, g) /\ Leads(n, k, g) => g = h) => Find(table, n) = h
<1>1. table.len \in Nat /\ ZeroLast(table)
  BY NowIs
<1>2. /\ Find(table, n) > 0 => Find(table, n) \in Heads(table) /\ Hit(table, n, Find(table, n))
      /\ Find(table, n) = 0 => \A i \in Heads(table) : ~Hit(table, n, i)
      /\ \A i \in Heads(table) : Hit(table, n, i) /\ (\A j \in Heads(table) : Hit(table, n, j) \/ (ExFat /\ ~Whole(table, j)) => j = i) => Find(table, n) = i
  BY <1>1, FindIs
<1>3. ASSUME Find(table, n) = 0, NEW m, NEW h, BlockNow(m, h) PROVE ~Leads(n, m, h)
  BY <1>2, <1>3, NowIs, HitIs
<1>4. ASSUME Find(table, n) > 0 PROVE \E m : BlockNow(m, Find(table, n)) /\ Leads(n, m, Find(table, n))
  <2>1. PICK m : BlockNow(m, Find(table, n))
    BY <1>2, <1>4, NowIs
  <2> QED
    BY <1>2, <1>4, <2>1, HitIs
<1>5. ASSUME NEW m, NEW h, BlockNow(m, h), Leads(n, m, h), \A k, g : BlockNow(k, g) /\ Leads(n, k, g) => g = h
      PROVE  Find(table, n) = h
  <2>1. h \in Heads(table) /\ Hit(table, n, h)
    BY <1>5, NowIs, HitIs
  <2>2. ASSUME NEW j \in Heads(table), Hit(table, n, j) \/ (ExFat /\ ~Whole(table, j)) PROVE j = h
    <3>1. PICK k : BlockNow(k, j)
      BY NowIs
    <3>2. Leads(n, k, j)
      BY <2>2, <3>1, HitIs
    <3> QED
      BY <1>5, <3>1, <3>2
  <2> QED
    BY <1>2, <2>1, <2>2
<1> QED
  BY <1>3, <1>4, <1>5

(***************************************************************************)
(* dir_register: the entries of a name                                     *)
(***************************************************************************)
EntryShape(e, obj) ==
    /\ e.kind \in {HeadKind} \union PartKinds
    /\ e.kind \in {"sfn", "c0"} => e.obj = obj
    /\ e.kind = "85" => e.num \in Nat /\ e.num >= 2
LEMMA ShapeOK ==
    ASSUME NEW e, NEW obj, EntryShape(e, obj), obj \in Objs', fs_type' = fs_type PROVE EntryOK(e)'
<1>1. HeadKind' = HeadKind /\ PartKinds' = PartKinds
  BY DEF HeadKind, PartKinds, ExFat
<1>2. e.kind # "zero"
  BY KindsAre DEF EntryShape
<1> QED
  BY <1>1, <1>2 DEF EntryOK, EntryShape

LEMMA NumberedIs ==
    ASSUME NEW n \in Names, NumberLeft(n), ~ExFat
    PROVE  /\ Numbered(n) \in ShortNames
           /\ ~n.lossy => Numbered(n) = n.sfn
           /\ n.lossy => \A i \in Kind(table, 1, "sfn") : table.slot[i].sfn # Numbered(n)
<1>1. CASE ~n.lossy
  BY <1>1, NameIs DEF Numbered
<1>2. CASE n.lossy
  <2>1. FreeNumbers(n) \in SUBSET (1 .. MaxNumber) /\ FreeNumbers(n) # {} /\ MaxNumber \in Nat
    BY <1>2, Nums DEF NumberLeft, FreeNumbers
  <2>2. PICK k : k = First(FreeNumbers(n)) /\ k \in FreeNumbers(n)
    BY <2>1, FirstIs
  <2>3. Numbered(n) = <<n.sfn[1], k>> /\ k \in 1 .. MaxNumber
    BY <1>2, <2>1, <2>2 DEF Numbered
  <2>4. \A i \in Kind(table, 1, "sfn") : table.slot[i].sfn # <<n.sfn[1], k>>
    BY <2>2 DEF FreeNumbers
  <2>5. Numbered(n) \in ShortNames
    BY <1>2, <2>3 DEF ShortNames
  <2> QED
    BY <1>2, <2>3, <2>4, <2>5
<1>3. n.lossy \in BOOLEAN
  BY NameIs
<1> QED
  BY <1>1, <1>2, <1>3

\* The entries of a name, one by one.
EntriesFat(E, n, obj) ==
    IF n.lfn
    THEN /\ Len(E) = Pieces(n) + 1 /\ E[Pieces(n) + 1] = Sfn(Numbered(n), obj)
         /\ \A k \in 1 .. Pieces(n) : E[k] = Lfn(n.text[Pieces(n) + 1 - k], Pieces(n) + 1 - k, k = 1, Numbered(n))
    ELSE Len(E) = 1 /\ E[1] = Sfn(n.sfn, obj)
EntriesEx(E, n, obj) ==
    /\ Len(E) = Pieces(n) + 2 /\ E[1] = FileDir(n.text, obj) /\ E[2] = Stream(n.text, obj)
    /\ \A k \in 1 .. Pieces(n) : E[2 + k] = FileName(n.text[k])
EntriesOK(E, n, obj) == IsSeq(E) /\ IF ExFat THEN EntriesEx(E, n, obj) ELSE EntriesFat(E, n, obj)

LEMMA OneSeq == ASSUME NEW e PROVE IsSeq(<<e>>) /\ Len(<<e>>) = 1 /\ <<e>>[1] = e
<1>1. <<e>> \in Seq({e})
  OBVIOUS
<1> QED
  BY <1>1, SeqSelf
LEMMA TwoSeq == ASSUME NEW d, NEW e PROVE IsSeq(<<d, e>>) /\ Len(<<d, e>>) = 2 /\ <<d, e>>[1] = d /\ <<d, e>>[2] = e
<1>1. <<d, e>> \in Seq({d, e})
  OBVIOUS
<1> QED
  BY <1>1, SeqSelf

\* create_xdir and store_xdir
LEMMA SetIs ==
    ASSUME NEW n, Pieces(n) \in Nat, Pieces(n) >= 1, NEW obj, NEW E, NEW c, c = [k \in 1 .. Pieces(n) |-> FileName(n.text[k])],
           E = <<FileDir(n.text, obj), Stream(n.text, obj)>> \o c
    PROVE  IsSeq(E) /\ EntriesEx(E, n, obj)
<1>1. PICK p \in Nat : p = Pieces(n) /\ p >= 1
  OBVIOUS
<1>2. IsSeq(c) /\ Len(c) = p /\ \A k \in 1 .. p : c[k] = FileName(n.text[k])
  <2>1. c = [k \in 1 .. p |-> c[k]]
    BY <1>1
  <2> QED
    BY <1>1, <2>1, SeqOf
<1>3. PICK d : d = <<FileDir(n.text, obj), Stream(n.text, obj)>>
  OBVIOUS
<1>4. IsSeq(d) /\ Len(d) = 2 /\ d[1] = FileDir(n.text, obj) /\ d[2] = Stream(n.text, obj)
  BY <1>3, TwoSeq
<1>5. Joins(E, d, c) /\ IsSeq(E)
  <2>1. E = d \o c
    BY <1>3
  <2> QED
    BY <1>2, <1>4, <2>1, CatIs
<1>6. /\ Len(E) = p + 2 /\ E[1] = d[1] /\ E[2] = d[2]
      /\ \A k \in 1 .. p : E[2 + k] = c[k]
  <2>1. /\ Len(E) = Len(d) + Len(c) /\ \A k \in 1 .. Len(d) : E[k] = d[k]
        /\ \A k \in 1 .. Len(c) : E[Len(d) + k] = c[k]
    BY <1>5 DEF Joins
  <2>2. Len(d) = 2 /\ Len(c) = p
    BY <1>2, <1>4
  <2>3. Len(E) = 2 + p /\ (\A k \in 1 .. 2 : E[k] = d[k]) /\ \A k \in 1 .. p : E[2 + k] = c[k]
    BY <2>1, <2>2, Zenon
  <2>4. 1 \in 1 .. 2 /\ 2 \in 1 .. 2 /\ 2 + p = p + 2
    OBVIOUS
  <2> QED
    BY <2>3, <2>4
<1> QED
  BY <1>1, <1>2, <1>4, <1>5, <1>6 DEF EntriesEx

LEMMA EntriesAre ==
    ASSUME NEW n \in Names, NEW obj, NEW E, E = Entries(n, obj) PROVE EntriesOK(E, n, obj)
<1>1. PICK p \in Nat : p = Pieces(n) /\ p >= 1
  BY NameIs
<1>2. Len(n.text) = p
  BY <1>1 DEF Pieces
<1>3. CASE ExFat
  <2>1. PICK c : c = [k \in 1 .. Pieces(n) |-> FileName(n.text[k])]
    OBVIOUS
  <2>2. E = <<FileDir(n.text, obj), Stream(n.text, obj)>> \o c
    BY <1>3, <2>1 DEF Entries, Pieces
  <2> QED
    BY <1>1, <1>3, <2>1, <2>2, SetIs DEF EntriesOK
<1>4. CASE ~ExFat /\ ~n.lfn
  <2>1. E = <<Sfn(n.sfn, obj)>>
    BY <1>4 DEF Entries
  <2> QED
    BY <1>4, <2>1, OneSeq DEF EntriesOK, EntriesFat
<1>5. CASE ~ExFat /\ n.lfn
  <2>1. PICK c : c = [k \in 1 .. p |-> Lfn(n.text[p + 1 - k], p + 1 - k, k = 1, Numbered(n))]
    OBVIOUS
  <2>2. E = c \o <<Sfn(Numbered(n), obj)>>
    BY <1>2, <1>5, <2>1 DEF Entries, SumSfn
  <2>3. IsSeq(c) /\ Len(c) = p
    <3>1. c = [k \in 1 .. p |-> c[k]]
      BY <2>1
    <3> QED
      BY <3>1, SeqOf
  <2>4. PICK d : d = <<Sfn(Numbered(n), obj)>>
    OBVIOUS
  <2>5. IsSeq(d) /\ Len(d) = 1 /\ d[1] = Sfn(Numbered(n), obj)
    BY <2>4, OneSeq
  <2>6. Joins(E, c, d) /\ IsSeq(E)
    <3>1. E = c \o d
      BY <2>2, <2>4
    <3> QED
      BY <2>3, <2>5, <3>1, CatIs
  <2>7. Len(E) = p + 1 /\ E[p + 1] = Sfn(Numbered(n), obj) /\ \A k \in 1 .. p : E[k] = c[k]
    BY <2>3, <2>5, <2>6 DEF Joins
  <2>8. \A k \in 1 .. p : E[k] = Lfn(n.text[p + 1 - k], p + 1 - k, k = 1, Numbered(n))
    BY <2>1, <2>7
  <2> QED
    BY <1>1, <1>5, <2>6, <2>7, <2>8 DEF EntriesOK, EntriesFat
<1> QED
  BY <1>3, <1>4, <1>5

LEMMA EntryKinds ==
    /\ \A s, o : Sfn(s, o).kind = "sfn" /\ Sfn(s, o).sfn = s /\ Sfn(s, o).obj = o
    /\ \A t, k, l, s : Lfn(t, k, l, s).kind = "lfn"
    /\ \A t, o : FileDir(t, o).kind = "85" /\ FileDir(t, o).num = Len(t) + 1 /\ FileDir(t, o).sum = <<t, o>>
    /\ \A t, o : Stream(t, o).kind = "c0" /\ Stream(t, o).obj = o
    /\ \A t : FileName(t).kind = "c1" /\ FileName(t).text = t
  BY DEF Sfn, Lfn, FileDir, Stream, FileName

LEMMA EntriesShape ==
    ASSUME NEW n \in Names, NEW obj, NEW E, EntriesOK(E, n, obj)
    PROVE  Len(E) \in Nat /\ Len(E) >= 1 /\ \A k \in 1 .. Len(E) : EntryShape(E[k], obj)
<1>1. PICK p \in Nat : p = Pieces(n) /\ p >= 1
  BY NameIs
<1>2. CASE ExFat
  <2>1. /\ Len(E) = p + 2 /\ E[1] = FileDir(n.text, obj) /\ E[2] = Stream(n.text, obj)
        /\ \A k \in 1 .. p : E[2 + k] = FileName(n.text[k])
    BY <1>1, <1>2 DEF EntriesOK, EntriesEx
  <2>2. EntryShape(E[1], obj)
    <3>1. E[1].kind = "85" /\ E[1].num = p + 1
      BY <1>1, <2>1, EntryKinds DEF Pieces
    <3> QED
      BY <1>1, <1>2, <3>1, KindsAre DEF EntryShape
  <2>3. EntryShape(E[2], obj)
    BY <1>2, <2>1, EntryKinds, KindsAre DEF EntryShape
  <2>4. ASSUME NEW k \in 1 .. p PROVE EntryShape(E[2 + k], obj)
    <3>1. E[2 + k] = FileName(n.text[k])
      BY <2>1
    <3>2. E[2 + k].kind = "c1"
      BY <3>1, EntryKinds
    <3>3. "c1" \in PartKinds
      BY <1>2, KindsAre
    <3> QED
      BY <3>2, <3>3 DEF EntryShape
  <2>5. \A k \in 1 .. p + 2 : EntryShape(E[k], obj)
    <3> TAKE k \in 1 .. p + 2
    <3>1. k > 2 => k - 2 \in 1 .. p /\ 2 + (k - 2) = k
      OBVIOUS
    <3>2. k = 1 \/ k = 2 \/ k > 2
      OBVIOUS
    <3> QED
      BY <2>2, <2>3, <2>4, <3>1, <3>2
  <2> QED
    BY <1>1, <2>1, <2>5
<1>3. CASE ~ExFat
  <2>1. EntriesFat(E, n, obj)
    BY <1>3 DEF EntriesOK
  <2>2. \A s : EntryShape(Sfn(s, obj), obj)
    BY <1>3, EntryKinds, KindsAre DEF EntryShape
  <2>3. \A t, k, l, s : EntryShape(Lfn(t, k, l, s), obj)
    BY <1>3, EntryKinds, KindsAre DEF EntryShape
  <2>4. CASE n.lfn
    <3>1. Len(E) = p + 1 /\ EntryShape(E[p + 1], obj) /\ \A k \in 1 .. p : EntryShape(E[k], obj)
      BY <1>1, <2>1, <2>2, <2>3, <2>4 DEF EntriesFat
    <3>2. \A k \in 1 .. p + 1 : k = p + 1 \/ k \in 1 .. p
      OBVIOUS
    <3> QED
      BY <1>1, <3>1, <3>2
  <2>5. CASE ~n.lfn
    <3>1. Len(E) = 1 /\ EntryShape(E[1], obj)
      BY <2>1, <2>2, <2>5 DEF EntriesFat
    <3> QED
      BY <3>1
  <2> QED
    BY <2>4, <2>5
<1> QED
  BY <1>2, <1>3

\* Written from start on, they are a block of the name.
HeadOf(start, E) == IF ExFat THEN start ELSE start + Len(E) - 1
Written(F, start, E) == \A i \in start .. start + Len(E) - 1 : F[i] = E[i - start + 1]
LEMMA EntriesBlock ==
    ASSUME NEW n \in Names, NEW obj, NEW E, EntriesOK(E, n, obj), NumberLeft(n), NEW start \in Nat, start >= 1, NEW F,
           Written(F, start, E), start = 1 \/ F[start - 1].kind # "lfn"
    PROVE  /\ Block(F, n, HeadOf(start, E)) /\ Span(n, HeadOf(start, E)) = start .. start + Len(E) - 1
           /\ HeadOf(start, E) \in start .. start + Len(E) - 1
           /\ ~ExFat => F[HeadOf(start, E)].sfn = Numbered(n)
<1>1. PICK p \in Nat : p = Pieces(n) /\ p >= 1
  BY NameIs
<1>2. CASE ExFat
  <2>1. /\ Len(E) = p + 2 /\ E[1] = FileDir(n.text, obj) /\ E[2] = Stream(n.text, obj)
        /\ \A k \in 1 .. p : E[2 + k] = FileName(n.text[k])
    BY <1>1, <1>2 DEF EntriesOK, EntriesEx
  <2>2. ASSUME NEW k \in 1 .. p + 2 PROVE F[start + k - 1] = E[k]
    <3>1. start + k - 1 \in start .. start + Len(E) - 1 /\ (start + k - 1) - start + 1 = k
      BY <2>1
    <3> QED
      BY <3>1 DEF Written
  <2>3. F[start] = E[1] /\ F[start + 1] = E[2]
    <3>1. 1 \in 1 .. p + 2 /\ 2 \in 1 .. p + 2 /\ start + 1 - 1 = start /\ start + 2 - 1 = start + 1
      OBVIOUS
    <3> QED
      BY <2>2, <3>1
  <2>4. \A k \in 1 .. p : F[start + 1 + k] = FileName(n.text[k])
    <3> TAKE k \in 1 .. p
    <3>1. 2 + k \in 1 .. p + 2 /\ start + (2 + k) - 1 = start + 1 + k
      OBVIOUS
    <3>2. F[start + (2 + k) - 1] = E[2 + k]
      BY <2>2, <3>1
    <3> QED
      BY <2>1, <3>1, <3>2
  <2>5. ExBlock(F, n, start)
    BY <1>1, <2>1, <2>3, <2>4, EntryKinds, SMTT(40) DEF ExBlock, Pieces
  <2>6. Span(n, start) = start .. start + Len(E) - 1
    <3>1. PartsAt(n, start) = start + 1 .. start + 1 + p
      BY <1>1, <1>2 DEF PartsAt
    <3> QED
      BY <2>1, <3>1 DEF Span
  <2> QED
    BY <1>2, <2>1, <2>5, <2>6 DEF HeadOf, Block
<1>3. CASE ~ExFat /\ n.lfn
  <2>1. /\ Len(E) = p + 1 /\ E[p + 1] = Sfn(Numbered(n), obj)
        /\ \A k \in 1 .. p : E[k] = Lfn(n.text[p + 1 - k], p + 1 - k, k = 1, Numbered(n))
    BY <1>1, <1>3 DEF EntriesOK, EntriesFat
  <2>2. PICK h \in Nat : h = start + p
    OBVIOUS
  <2>3. HeadOf(start, E) = h /\ h \in start .. start + Len(E) - 1
    BY <1>3, <2>1, <2>2 DEF HeadOf
  <2>4. F[h] = Sfn(Numbered(n), obj)
    <3>1. h \in start .. start + Len(E) - 1 /\ h - start + 1 = p + 1
      BY <2>1, <2>2
    <3> QED
      BY <2>1, <3>1 DEF Written
  <2>5. F[h].kind = "sfn" /\ F[h].sfn = Numbered(n)
    BY <2>4, EntryKinds
  <2>6. ASSUME NEW k \in 1 .. p PROVE F[h - k] = Lfn(n.text[k], k, k = p, F[h].sfn)
    <3>1. h - k \in start .. start + (p + 1) - 1 /\ (h - k) - start + 1 = p + 1 - k /\ p + 1 - k \in 1 .. p
      BY <2>2
    <3>2. h - k \in start .. start + Len(E) - 1 /\ (h - k) - start + 1 = p + 1 - k /\ p + 1 - k \in 1 .. p
      BY <2>1, <3>1
    <3>3. F[h - k] = E[p + 1 - k]
      BY <3>2 DEF Written
    <3>4. E[p + 1 - k] = Lfn(n.text[p + 1 - (p + 1 - k)], p + 1 - (p + 1 - k), p + 1 - k = 1, Numbered(n))
      BY <2>1, <3>2
    <3>5. p + 1 - (p + 1 - k) = k /\ ((p + 1 - k = 1) <=> (k = p))
      OBVIOUS
    <3>6. (p + 1 - k = 1) = (k = p)
      BY <3>5
    <3> QED
      BY <2>5, <3>3, <3>4, <3>5, <3>6
  <2>7. LongOf(F, n, h)
    BY <1>1, <1>3, <2>2, <2>6 DEF LongOf
  <2>8. FatBlock(F, n, h)
    BY <1>3, <2>5, <2>7, NumberedIs DEF FatBlock
  <2>9. Span(n, h) = start .. start + Len(E) - 1
    <3>1. PartsAt(n, h) = h - p .. h - 1
      BY <1>1, <1>3 DEF PartsAt
    <3> QED
      BY <2>1, <2>2, <3>1 DEF Span
  <2> QED
    BY <1>3, <2>3, <2>5, <2>8, <2>9 DEF Block
<1>4. CASE ~ExFat /\ ~n.lfn
  <2>1. Len(E) = 1 /\ E[1] = Sfn(n.sfn, obj)
    BY <1>4 DEF EntriesOK, EntriesFat
  <2>2. HeadOf(start, E) = start /\ start \in start .. start + Len(E) - 1
    BY <1>4, <2>1 DEF HeadOf
  <2>3. F[start] = Sfn(n.sfn, obj)
    BY <2>1, <2>2 DEF Written
  <2>4. ~n.lossy /\ Numbered(n) = n.sfn
    BY <1>4, NameIs, NumberedIs
  <2>5. F[start].kind = "sfn" /\ F[start].sfn = Numbered(n)
    BY <2>3, <2>4, EntryKinds
  <2>6. FatBlock(F, n, start)
    BY <1>4, <2>4, <2>5, NumberedIs DEF FatBlock, ShortOf
  <2>7. Span(n, start) = start .. start + Len(E) - 1
    BY <1>4, <2>1 DEF Span, PartsAt
  <2> QED
    BY <1>4, <2>2, <2>5, <2>6, <2>7 DEF Block
<1>5. n.lfn \in BOOLEAN
  BY NameIs
<1> QED
  BY <1>2, <1>3, <1>4, <1>5

(***************************************************************************)
(* Runs of entries that a call writes                                      *)
(***************************************************************************)
LEMMA PutFromIs ==
    ASSUME NEW E, IsSeq(E), NEW start \in Nat, NEW P, P = PutFrom(start, E)
    PROVE  IsSeq(P) /\ Len(P) = Len(E) /\ Len(E) \in Nat /\ \A k \in 1 .. Len(E) : P[k] = Put(start + k - 1, E[k])
<1>1. PICK n \in Nat : n = Len(E)
  BY DEF IsSeq
<1>2. P = [k \in 1 .. n |-> Put(start + k - 1, E[k])]
  BY <1>1 DEF PutFrom
<1>3. P = [k \in 1 .. n |-> P[k]]
  BY <1>2
<1>4. IsSeq(P) /\ Len(P) = n
  BY <1>3, SeqOf
<1> QED
  BY <1>1, <1>2, <1>4

\* A run of entries to write, none behind one that is blank.
SegOK(T, n, start, E) ==
    /\ IsSeq(E) /\ start \in Nat /\ start >= 1 /\ start + Len(E) - 1 <= n
    /\ \A k \in 1 .. Len(E) : E[k].kind \notin {"zero", "junk"}
    /\ \A i \in 1 .. start - 1 : ~Blank(T, i)
LEMMA SegPuts ==
    ASSUME NEW T, NEW n \in Nat, NEW start, NEW E, SegOK(T, n, start, E) PROVE PutsOK(T, n, PutFrom(start, E))
<1>1. IsSeq(E) /\ start \in Nat /\ start >= 1 /\ start + Len(E) - 1 <= n
  BY DEF SegOK
<1>2. PICK P : P = PutFrom(start, E)
  OBVIOUS
<1>3. IsSeq(P) /\ Len(P) = Len(E) /\ Len(E) \in Nat /\ \A k \in 1 .. Len(E) : P[k] = Put(start + k - 1, E[k])
  BY <1>1, <1>2, PutFromIs
<1>4. \A k \in 1 .. Len(E) : P[k] = Put(P[k].at, P[k].entry) /\ P[k].do = "put" /\ P[k].at = start + k - 1 /\ P[k].entry = E[k]
  BY <1>3, StepConst
<1>5. ASSUME NEW k \in 1 .. Len(P)
      PROVE  /\ P[k].at \in 1 .. n /\ P[k].entry.kind \notin {"zero", "junk"}
             /\ \A i \in 1 .. P[k].at - 1 : Blank(T, i) => \E m \in 1 .. k - 1 : P[m].at = i
  <2>1. k \in 1 .. Len(E) /\ P[k].at = start + k - 1 /\ P[k].entry = E[k]
    BY <1>3, <1>4
  <2>2. P[k].entry.kind \notin {"zero", "junk"}
    BY <2>1 DEF SegOK
  <2>3. ASSUME NEW i \in 1 .. P[k].at - 1, Blank(T, i) PROVE \E m \in 1 .. k - 1 : P[m].at = i
    <3>1. i >= start
      <4> SUFFICES ASSUME i < start PROVE FALSE
        BY <1>1
      <4>1. i \in 1 .. start - 1
        BY <1>1
      <4> QED
        BY <2>3, <4>1 DEF SegOK
    <3>2. i - start + 1 \in 1 .. k - 1 /\ i - start + 1 \in 1 .. Len(E) /\ start + (i - start + 1) - 1 = i
      BY <1>1, <1>3, <2>1, <3>1
    <3> QED
      BY <1>4, <3>2
  <2>4. P[k].at \in 1 .. n
    BY <1>1, <1>3, <2>1
  <2> QED
    BY <2>2, <2>3, <2>4
<1>6. ASSUME NEW k \in 1 .. Len(P), NEW m \in 1 .. Len(P), P[k].at = P[m].at PROVE k = m
  <2>1. P[k].at = start + k - 1 /\ P[m].at = start + m - 1
    BY <1>3, <1>4
  <2>2. start + k - 1 = start + m - 1
    BY <1>6, <2>1, Zenon
  <2>3. k \in Nat /\ m \in Nat
    BY <1>3
  <2> QED
    BY <1>1, <2>2, <2>3
<1>7. PutsOK(T, n, P)
  BY <1>3, <1>4, <1>5, <1>6 DEF PutsOK
<1> QED
  BY <1>2, <1>7

LEMMA NoPuts == ASSUME NEW T, NEW n \in Nat PROVE PutsOK(T, n, <<>>) /\ IsSeq(<<>>) /\ Len(<<>>) = 0
<1>1. <<>> \in Seq({}) /\ Len(<<>>) = 0
  OBVIOUS
<1>2. IsSeq(<<>>)
  BY <1>1, SeqSelf
<1> QED
  BY <1>1, <1>2 DEF PutsOK

\* One run after the other.
PutsHold(T, n, P, c) ==
    /\ \A k \in 1 .. c : /\ P[k] = Put(P[k].at, P[k].entry) /\ P[k].do = "put"
                         /\ P[k].at \in 1 .. n /\ P[k].entry.kind \notin {"zero", "junk"}
    /\ \A k \in 1 .. c : \A i \in 1 .. P[k].at - 1 : Blank(T, i) => \E m \in 1 .. k - 1 : P[m].at = i
    /\ \A k, m \in 1 .. c : P[k].at = P[m].at => k = m
LEMMA PutsAre == ASSUME NEW T, NEW n, NEW P PROVE PutsOK(T, n, P) <=> IsSeq(P) /\ PutsHold(T, n, P, Len(P))
<1>1. PutsOK(T, n, P) => IsSeq(P) /\ PutsHold(T, n, P, Len(P))
  BY DEF PutsOK, PutsHold
<1>2. IsSeq(P) /\ PutsHold(T, n, P, Len(P)) => PutsOK(T, n, P)
  BY DEF PutsOK, PutsHold
<1> QED
  BY <1>1, <1>2
LEMMA TwoPuts ==
    ASSUME NEW T, NEW n \in Nat, NEW P, NEW Q, PutsOK(T, n, P), PutsOK(T, n, Q), NEW R, R = P \o Q,
           \A k \in 1 .. Len(P) : \A m \in 1 .. Len(Q) : P[k].at # Q[m].at
    PROVE  PutsOK(T, n, R) /\ Joins(R, P, Q)
<1>1. IsSeq(P) /\ IsSeq(Q)
  BY DEF PutsOK
<1>2. IsSeq(R) /\ Joins(R, P, Q)
  BY <1>1, CatIs
<1>3. PICK a \in Nat, b \in Nat : a = Len(P) /\ b = Len(Q) /\ Len(R) = a + b
  BY <1>2 DEF Joins
<1>4. (\A k \in 1 .. a : R[k] = P[k]) /\ \A k \in 1 .. b : R[a + k] = Q[k]
  BY <1>2, <1>3 DEF Joins
<1>5. \A k \in 1 .. a + b : k \in 1 .. a \/ (k - a \in 1 .. b /\ a + (k - a) = k)
  OBVIOUS
<1>6. PutsHold(T, n, P, a)
  BY <1>3, PutsAre, Zenon
<1>7. PutsHold(T, n, Q, b)
  BY <1>3, PutsAre, Zenon
<1>8. \A k \in 1 .. a : \A m \in 1 .. b : P[k].at # Q[m].at
  BY <1>3, Zenon
<1>9. ASSUME NEW k \in 1 .. a + b
      PROVE  /\ R[k] = Put(R[k].at, R[k].entry) /\ R[k].do = "put"
             /\ R[k].at \in 1 .. n /\ R[k].entry.kind \notin {"zero", "junk"}
  <2>1. CASE k \in 1 .. a
    <3>1. R[k] = P[k]
      BY <1>4, <2>1
    <3> QED
      BY <1>6, <2>1, <3>1, Zenon DEF PutsHold
  <2>2. CASE k - a \in 1 .. b /\ a + (k - a) = k
    <3>1. PICK j \in 1 .. b : R[k] = Q[j]
      BY <1>4, <2>2
    <3>2. /\ Q[j] = Put(Q[j].at, Q[j].entry) /\ Q[j].do = "put"
          /\ Q[j].at \in 1 .. n /\ Q[j].entry.kind \notin {"zero", "junk"}
      BY <1>7, Zenon DEF PutsHold
    <3> QED
      BY <3>1, <3>2, Zenon
  <2> QED
    BY <1>5, <2>1, <2>2
<1>10. ASSUME NEW k \in 1 .. a + b, NEW i \in 1 .. R[k].at - 1, Blank(T, i) PROVE \E m \in 1 .. k - 1 : R[m].at = i
  <2>1. CASE k \in 1 .. a
    <3>1. R[k] = P[k]
      BY <1>4, <2>1
    <3>2. i \in 1 .. P[k].at - 1
      BY <3>1
    <3>3. PICK m \in 1 .. k - 1 : P[m].at = i
      BY <1>6, <1>10, <2>1, <3>2 DEF PutsHold
    <3>4. m \in 1 .. a
      BY <2>1
    <3> QED
      BY <1>4, <3>3, <3>4
  <2>2. CASE k - a \in 1 .. b /\ a + (k - a) = k
    <3>1. PICK j \in 1 .. b : j = k - a /\ a + j = k
      BY <2>2
    <3>2. R[k] = Q[j]
      BY <1>4, <3>1
    <3>3. i \in 1 .. Q[j].at - 1
      BY <3>2
    <3>4. PICK m \in 1 .. j - 1 : Q[m].at = i
      BY <1>7, <1>10, <3>3 DEF PutsHold
    <3>5. a + m \in 1 .. k - 1 /\ m \in 1 .. b
      BY <3>1
    <3> QED
      BY <1>4, <3>4, <3>5
  <2> QED
    BY <1>5, <2>1, <2>2
<1>11. ASSUME NEW k \in 1 .. a + b, NEW m \in 1 .. a + b, R[k].at = R[m].at PROVE k = m
  <2>1. CASE k \in 1 .. a /\ m \in 1 .. a
    <3>1. P[k].at = P[m].at
      BY <1>4, <1>11, <2>1
    <3> QED
      BY <1>6, <2>1, <3>1 DEF PutsHold
  <2>2. CASE k \in 1 .. a /\ m - a \in 1 .. b /\ a + (m - a) = m
    <3>1. R[k] = P[k] /\ R[m] = Q[m - a]
      BY <1>4, <2>2
    <3> QED
      BY <1>8, <1>11, <2>2, <3>1
  <2>3. CASE m \in 1 .. a /\ k - a \in 1 .. b /\ a + (k - a) = k
    <3>1. R[m] = P[m] /\ R[k] = Q[k - a]
      BY <1>4, <2>3
    <3> QED
      BY <1>8, <1>11, <2>3, <3>1
  <2>4. CASE k - a \in 1 .. b /\ a + (k - a) = k /\ m - a \in 1 .. b /\ a + (m - a) = m
    <3>1. R[k] = Q[k - a] /\ R[m] = Q[m - a]
      BY <1>4, <2>4
    <3>2. k - a = m - a
      BY <1>7, <1>11, <2>4, <3>1 DEF PutsHold
    <3> QED
      BY <3>2
  <2> QED
    BY <1>5, <2>1, <2>2, <2>3, <2>4
<1>12. Len(R) = a + b
  BY <1>3
<1>13. PutsHold(T, n, R, a + b)
  BY <1>9, <1>10, <1>11, Zenon DEF PutsHold
<1>14. PutsOK(T, n, R)
  BY <1>2, <1>12, <1>13, PutsAre, Zenon
<1> QED
  BY <1>2, <1>14

(***************************************************************************)
(* What they make of the table                                             *)
(***************************************************************************)
Base(T, i) == IF Blank(T, i) THEN Zero ELSE T.slot[i]
Cells(start, E) == start .. start + Len(E) - 1
LEMMA NoneFinal == ASSUME NEW T, NEW n, NEW F, \A i \in 1 .. n : F[i] = Base(T, i) PROVE Finally(T, n, <<>>, F)
  BY DEF Finally, Base
LEMMA OneFinal ==
    ASSUME NEW T, NEW n \in Nat, NEW start \in Nat, NEW E, IsSeq(E), NEW F, Written(F, start, E),
           \A i \in 1 .. n : i \notin Cells(start, E) => F[i] = Base(T, i)
    PROVE  Finally(T, n, PutFrom(start, E), F)
<1>1. PICK P : P = PutFrom(start, E)
  OBVIOUS
<1>2. IsSeq(P) /\ Len(P) = Len(E) /\ Len(E) \in Nat /\ \A k \in 1 .. Len(E) : P[k] = Put(start + k - 1, E[k])
  BY <1>1, PutFromIs
<1>3. ASSUME NEW k \in 1 .. Len(P) PROVE F[P[k].at] = P[k].entry
  <2>1. P[k].at = start + k - 1 /\ P[k].entry = E[k]
    BY <1>2, StepConst
  <2>2. start + k - 1 \in start .. start + Len(E) - 1 /\ (start + k - 1) - start + 1 = k
    BY <1>2
  <2> QED
    BY <2>1, <2>2 DEF Written
<1>4. ASSUME NEW i \in 1 .. n, \A k \in 1 .. Len(P) : P[k].at # i PROVE F[i] = Base(T, i)
  <2>1. i \notin Cells(start, E)
    <3> SUFFICES ASSUME i \in start .. start + Len(E) - 1 PROVE FALSE
      BY DEF Cells
    <3>1. i - start + 1 \in 1 .. Len(E) /\ start + (i - start + 1) - 1 = i
      BY <1>2
    <3>2. P[i - start + 1].at = i
      BY <1>2, <3>1, StepConst
    <3> QED
      BY <1>2, <1>4, <3>1, <3>2
  <2> QED
    BY <2>1
<1>5. Finally(T, n, P, F)
  BY <1>3, <1>4 DEF Finally, Base
<1> QED
  BY <1>1, <1>5
LEMMA TwoFinal ==
    ASSUME NEW T, NEW n \in Nat, NEW s \in Nat, NEW D, IsSeq(D), NEW t \in Nat, NEW E, IsSeq(E), NEW F,
           Written(F, s, D), Written(F, t, E),
           \A i \in 1 .. n : i \notin Cells(s, D) /\ i \notin Cells(t, E) => F[i] = Base(T, i)
    PROVE  Finally(T, n, PutFrom(s, D) \o PutFrom(t, E), F)
<1>1. PICK P, Q : P = PutFrom(s, D) /\ Q = PutFrom(t, E)
  OBVIOUS
<1>2. IsSeq(P) /\ Len(P) = Len(D) /\ Len(D) \in Nat /\ \A k \in 1 .. Len(D) : P[k] = Put(s + k - 1, D[k])
  BY <1>1, PutFromIs
<1>3. IsSeq(Q) /\ Len(Q) = Len(E) /\ Len(E) \in Nat /\ \A k \in 1 .. Len(E) : Q[k] = Put(t + k - 1, E[k])
  BY <1>1, PutFromIs
<1>4. PICK R : R = P \o Q
  OBVIOUS
<1>5. PICK a \in Nat, b \in Nat : /\ a \in Nat /\ b \in Nat
                                  /\ a = Len(P) /\ b = Len(Q) /\ Len(R) = a + b
                                  /\ \A k \in 1 .. a : R[k] = P[k]
                                  /\ \A k \in 1 .. b : R[a + k] = Q[k]
  <2>1. IsSeq(P) /\ IsSeq(Q)
    BY <1>2, <1>3
  <2>2. Joins(R, P, Q)
    BY <1>4, <2>1, CatIs
  <2> QED
    BY <2>2 DEF Joins
<1>6. ASSUME NEW k \in 1 .. a PROVE F[P[k].at] = P[k].entry
  <2>1. P[k].at = s + k - 1 /\ P[k].entry = D[k]
    BY <1>2, <1>5, StepConst
  <2>2. s + k - 1 \in s .. s + Len(D) - 1 /\ (s + k - 1) - s + 1 = k
    BY <1>2, <1>5
  <2> QED
    BY <2>1, <2>2 DEF Written
<1>7. ASSUME NEW k \in 1 .. b PROVE F[Q[k].at] = Q[k].entry
  <2>1. Q[k].at = t + k - 1 /\ Q[k].entry = E[k]
    BY <1>3, <1>5, StepConst
  <2>2. t + k - 1 \in t .. t + Len(E) - 1 /\ (t + k - 1) - t + 1 = k
    BY <1>3, <1>5
  <2> QED
    BY <2>1, <2>2 DEF Written
<1>8. ASSUME NEW k \in 1 .. a + b PROVE F[R[k].at] = R[k].entry
  <2>1. k \in 1 .. a \/ (k - a \in 1 .. b /\ a + (k - a) = k)
    OBVIOUS
  <2>2. CASE k \in 1 .. a
    BY <1>5, <1>6, <2>2
  <2>3. CASE k - a \in 1 .. b /\ a + (k - a) = k
    <3>1. R[k] = Q[k - a]
      BY <1>5, <2>3
    <3> QED
      BY <1>7, <2>3, <3>1
  <2> QED
    BY <2>1, <2>2, <2>3
<1>9. ASSUME NEW i \in 1 .. n, \A k \in 1 .. a + b : R[k].at # i PROVE F[i] = Base(T, i)
  <2>1. i \notin Cells(s, D)
    <3> SUFFICES ASSUME i \in s .. s + Len(D) - 1 PROVE FALSE
      BY DEF Cells
    <3>1. i - s + 1 \in 1 .. Len(D) /\ s + (i - s + 1) - 1 = i
      BY <1>2
    <3>2. P[i - s + 1].at = i
      BY <1>2, <3>1, StepConst
    <3>3. i - s + 1 \in 1 .. a /\ i - s + 1 \in 1 .. a + b
      BY <1>2, <1>5, <3>1
    <3> QED
      BY <1>5, <1>9, <3>2, <3>3
  <2>2. i \notin Cells(t, E)
    <3> SUFFICES ASSUME i \in t .. t + Len(E) - 1 PROVE FALSE
      BY DEF Cells
    <3>1. i - t + 1 \in 1 .. Len(E) /\ t + (i - t + 1) - 1 = i
      BY <1>3
    <3>2. Q[i - t + 1].at = i
      BY <1>3, <3>1, StepConst
    <3>3. i - t + 1 \in 1 .. b /\ a + (i - t + 1) \in 1 .. a + b
      <4>1. Len(E) = b
        BY <1>3, <1>5
      <4>2. i - t + 1 \in 1 .. b
        BY <3>1, <4>1
      <4>3. a \in Nat /\ b \in Nat
        BY <1>5
      <4>4. a + (i - t + 1) \in 1 .. a + b
        BY <4>2, <4>3
      <4> QED
        BY <4>2, <4>4
    <3> QED
      BY <1>5, <1>9, <3>2, <3>3
  <2> QED
    BY <2>1, <2>2
<1>10. Finally(T, n, R, F)
  BY <1>5, <1>8, <1>9 DEF Finally, Base
<1> QED
  BY <1>1, <1>4, <1>10

(***************************************************************************)
(* The inductive invariant                                                 *)
(***************************************************************************)
IsReader(r) ==
    r = [open |-> r.open, pos |-> r.pos, failed |-> r.failed, stay |-> r.stay, seen |-> r.seen, at |-> r.at, name |-> r.name]
\* A handle that has come to entry pos of n has given what stays before it once.
Reader(r, n) ==
    /\ IsReader(r) /\ r.pos \in 0 .. n /\ r.at \in 0 .. n /\ r.stay \subseteq 1 .. n
    /\ r.seen \in [1 .. MaxSlots -> Nat]
    /\ \A i \in r.stay :
        r.open => IF r.pos # 0 THEN r.seen[i] = IF i < r.pos THEN 1 ELSE 0
                  ELSE r.seen[i] <= 1 /\ (~r.failed => r.seen[i] = 1)
ReadText(f, n, h, t) == (t = n.text /\ (ExFat \/ n.lfn)) \/ (~ExFat /\ t = <<f[h].sfn>>)
Told(f, h, name) == \E n \in Names : Block(f, n, h) /\ \E t : ReadText(f, n, h, t) /\ name = NameOfText(t)
Held(f) ==
    /\ \A i \in rd.stay : f[i].kind = HeadKind
    /\ pulls = 0 /\ rd.at # 0 => Told(f, rd.at, rd.name)
IdAt(f, h) == IF ExFat THEN f[h + 1].obj.id ELSE f[h].obj.id
\* The names M says were made have their blocks, for their objects, and no other block is there.
Settled(n, f, M) ==
    /\ \A m \in Names : M[m].at # 0 =>
           M[m].at \in 1 .. n /\ Block(f, m, M[m].at) /\ IdAt(f, M[m].at) = M[m].id
    /\ \A h \in 1 .. n : f[h].kind = HeadKind => \E m \in Names : M[m].at = h
\* f is the table that the call under way will have made.
FinalOK(n, f) ==
    /\ call.at \in 0 .. n /\ (pulls = 0 => Good(n, f)) /\ Held(f)
    /\ pulls = 0 => Settled(n, f, Done(call))
MadeOK == \A n \in Names : made[n].at \in 0 .. table.len /\ made[n].id \in 0 .. objects
IInv ==
    /\ TablesOK /\ MadeOK /\ pulls \in Nat /\ Reader(rd, table.len) /\ call.id \in 0 .. objects
    /\ todo = <<>> => call = Idle
    /\ \E ln, f : Plan(table, todo, ln, f) /\ FinalOK(Ends(todo, ln), f)
\* Between calls.
AtRest ==
    /\ Calm /\ MadeOK /\ pulls \in Nat /\ Reader(rd, table.len)
    /\ todo = <<>> /\ call = Idle
    /\ (pulls = 0 => Good(table.len, table.slot)) /\ Held(table.slot)
    /\ pulls = 0 => Settled(table.len, table.slot, made)

LEMMA SameKinds ==
    ASSUME fs_type' = fs_type
    PROVE  /\ HeadKind' = HeadKind /\ PartKinds' = PartKinds
           /\ \A f, n, h : Block(f, n, h)' <=> Block(f, n, h)
           /\ \A n, h : PartsAt(n, h)' = PartsAt(n, h)
           /\ \A f, n, h, m, g : Clash(f, n, h, m, g)' <=> Clash(f, n, h, m, g)
           /\ \A f, n, h, t : ReadText(f, n, h, t)' <=> ReadText(f, n, h, t)
<1>1. ExFat' <=> ExFat
  BY DEF ExFat
<1> QED
  BY <1>1 DEF HeadKind, PartKinds, Block, PartsAt, Clash, ReadText
LEMMA SameGood ==
    ASSUME fs_type' = fs_type, NEW N, NEW f, Good(N, f) PROVE Good(N, f)'
<1>1. /\ HeadKind' = HeadKind /\ PartKinds' = PartKinds
      /\ \A n, h : Block(f, n, h)' <=> Block(f, n, h)
      /\ \A n, h : PartsAt(n, h)' = PartsAt(n, h)
      /\ \A n, h, m, g : Clash(f, n, h, m, g)' <=> Clash(f, n, h, m, g)
  BY SameKinds
<1>2. Headed(N, f)'
  BY <1>1 DEF Good, Headed
<1>3. Owned(N, f)'
  BY <1>1 DEF Good, Owned
<1>4. Apart(N, f)'
  BY <1>1 DEF Good, Apart
<1> QED
  BY <1>2, <1>3, <1>4 DEF Good
LEMMA SameTold ==
    ASSUME fs_type' = fs_type, NEW h, NEW f, NEW name, Told(f, h, name) PROVE Told(f, h, name)'
<1>1. /\ \A n : Block(f, n, h)' <=> Block(f, n, h)
      /\ \A n, t : ReadText(f, n, h, t)' <=> ReadText(f, n, h, t)
  BY SameKinds
<1> QED
  BY <1>1 DEF Told
LEMMA SameHeld ==
    ASSUME fs_type' = fs_type, NEW f, Held(f), rd'.stay = rd.stay, rd'.at = rd.at, rd'.name = rd.name, pulls' = pulls
    PROVE  Held(f)'
<1>1. HeadKind' = HeadKind
  BY SameKinds
<1>2. pulls' = 0 /\ rd'.at # 0 => Told(f, rd.at, rd.name)'
  <2> SUFFICES ASSUME pulls' = 0, rd'.at # 0 PROVE Told(f, rd.at, rd.name)'
    OBVIOUS
  <2>1. PICK h, name : h = rd.at /\ name = rd.name
    OBVIOUS
  <2>2. Told(f, h, name)
    BY <2>1 DEF Held
  <2>3. Told(f, h, name)'
    BY <2>2, SameTold
  <2> QED
    BY <2>1, <2>3
<1> QED
  BY <1>1, <1>2 DEF Held

LEMMA DoneIdle == (\A m \in Names : Done(Idle)[m] = made[m]) /\ \A m \in Names : Done(Idle)'[m] = made'[m]
<1>1. Idle.op = "none" /\ Idle.old = 0 /\ Idle.at = 0
  BY DEF Idle
<1>2. PICK M : M = [m \in Names |-> IF made[m].at = Idle.old /\ Idle.old # 0 THEN Nothing ELSE made[m]]
  OBVIOUS
<1>3. PICK L : L = [m \in Names |-> IF made'[m].at = Idle.old /\ Idle.old # 0 THEN Nothing ELSE made'[m]]
  OBVIOUS
<1>4. Done(Idle) = M
  BY <1>1, <1>2 DEF Done
<1>5. Done(Idle)' = L
  <2>1. Idle' = Idle
    BY DEF Idle, NoName
  <2> QED
    BY <1>1, <1>3, <2>1 DEF Done
<1> QED
  BY <1>1, <1>2, <1>3, <1>4, <1>5
LEMMA SettledAs ==
    ASSUME NEW n, NEW f, NEW M, NEW L, Settled(n, f, M), \A m \in Names : L[m] = M[m] PROVE Settled(n, f, L)
  BY DEF Settled
LEMMA SameSettled ==
    ASSUME fs_type' = fs_type, NEW n, NEW f, NEW M, Settled(n, f, M) PROVE Settled(n, f, M)'
<1>1. HeadKind' = HeadKind /\ \A m, h : Block(f, m, h)' <=> Block(f, m, h)
  BY SameKinds
<1>2. \A h : IdAt(f, h)' = IdAt(f, h)
  BY DEF IdAt, ExFat
<1> QED
  BY <1>1, <1>2 DEF Settled
LEMMA SettledThere ==
    ASSUME NEW n \in Nat, NEW f, NEW F, Good(n, f), \A i \in 1 .. n : F[i] = f[i],
           \A g \in 1 .. n : \A m \in Names : Block(f, m, g) => Block(F, m, g), NEW M, Settled(n, f, M)
    PROVE  Settled(n, F, M)
<1>1. ASSUME NEW m \in Names, M[m].at # 0
      PROVE  M[m].at \in 1 .. n /\ Block(F, m, M[m].at) /\ IdAt(F, M[m].at) = M[m].id
  <2>1. PICK h \in 1 .. n : h = M[m].at /\ Block(f, m, h) /\ IdAt(f, h) = M[m].id
    BY <1>1 DEF Settled
  <2>2. Block(F, m, h) /\ F[h] = f[h]
    BY <2>1
  <2>3. ASSUME ExFat PROVE F[h + 1] = f[h + 1]
    <3>1. Span(m, h) \subseteq 1 .. n
      BY <2>1, BlockIn DEF Good
    <3>2. h + 1 \in Span(m, h)
      <4>1. PICK p \in Nat : p = Pieces(m)
        BY NameIs
      <4>2. h + 1 \in h + 1 .. h + 1 + p
        BY <4>1
      <4> QED
        BY <2>3, <4>1, <4>2 DEF Span, PartsAt
    <3> QED
      BY <3>1, <3>2
  <2>4. IdAt(F, h) = IdAt(f, h)
    BY <2>2, <2>3 DEF IdAt
  <2> QED
    BY <2>1, <2>2, <2>4
<1>2. ASSUME NEW h \in 1 .. n, F[h].kind = HeadKind PROVE \E m \in Names : M[m].at = h
  BY <1>2 DEF Settled
<1> QED
  BY <1>1, <1>2 DEF Settled

LEMMA EmptySteps ==
    ASSUME NEW T, T.len \in Lens PROVE \E ln : StepsOK(T, <<>>, ln) /\ Ends(<<>>, ln) = T.len
<1>1. Len(<<>>) = 0 /\ IsSeq(<<>>) /\ \A k : k \notin 1 .. 0
  BY NoPuts, Nums
<1>2. PICK ln : ln = [k \in 1 .. 1 |-> T.len]
  OBVIOUS
<1>3. ln \in [1 .. 1 -> Lens] /\ ln[1] = T.len
  BY <1>2
<1>4. Len(<<>>) + 1 = 1
  BY <1>1
<1>5. StepsOK(T, <<>>, ln)
  BY <1>1, <1>3, <1>4 DEF StepsOK
<1> QED
  BY <1>3, <1>4, <1>5 DEF Ends

LEMMA RestInv == AtRest => IInv
<1> SUFFICES ASSUME AtRest PROVE IInv
  OBVIOUS
<1>1. TablesOK /\ todo = <<>> /\ Len(<<>>) = 0 /\ \A k : k \notin 1 .. 0
  BY NoPuts DEF AtRest, Calm
<1>2. PICK ln : StepsOK(table, <<>>, ln) /\ Ends(<<>>, ln) = table.len
  BY <1>1, EmptySteps DEF TablesOK, Shaped
<1>3. PutsTyped(<<>>) /\ NewCluster(table, <<>>)
  BY <1>1 DEF PutsTyped, NewCluster, AtRest, Calm
<1>4. Makes(table, <<>>, table.len, table.slot)
  <2>1. ASSUME NEW i \in 1 .. table.len PROVE table.slot[i] = IF Blank(table, i) THEN Zero ELSE table.slot[i]
    <3> SUFFICES ASSUME Blank(table, i) PROVE table.slot[i] = Zero
      OBVIOUS
    <3>1. table.slot[i].kind = "zero"
      BY PartsOf DEF AtRest, Calm, TablesOK, Blank
    <3>2. EntryOK(table.slot[i])
      BY <1>1, Pos DEF TablesOK, Typed
    <3> QED
      BY <3>1, <3>2 DEF EntryOK
  <2> QED
    BY <1>1, <2>1 DEF Makes
<1>5. FinalOK(table.len, table.slot)
  <2>1. call = Idle /\ call.at = 0 /\ table.len \in Nat
    BY PartsOf DEF AtRest, Idle, Calm, TablesOK
  <2>2. pulls = 0 => Settled(table.len, table.slot, Done(call))
    BY <2>1, DoneIdle, SettledAs DEF AtRest
  <2>3. call.at \in 0 .. table.len
    BY <2>1
  <2> QED
    BY <2>2, <2>3 DEF FinalOK, AtRest
<1>6. Plan(table, todo, ln, table.slot) /\ FinalOK(Ends(todo, ln), table.slot)
  BY <1>1, <1>2, <1>3, <1>4, <1>5 DEF Plan
<1>7. call = Idle /\ call.id \in 0 .. objects
  <2>1. call = Idle /\ Idle.id = 0 /\ objects \in Nat
    BY <1>1 DEF AtRest, Idle, TablesOK
  <2> QED
    BY <2>1
<1> QED
  BY <1>6, <1>7 DEF AtRest, IInv, Calm

\* What a call has made is there when it is done.
LEMMA RestIs == ASSUME IInv, todo = <<>> PROVE AtRest
<1>1. PICK ln, f : Plan(table, todo, ln, f) /\ FinalOK(Ends(todo, ln), f)
  BY DEF IInv
<1>2. Len(<<>>) = 0 /\ \A k : k \notin 1 .. 0
  BY NoPuts
<1>3. Ends(todo, ln) = table.len /\ \A i \in 1 .. table.len : table.slot[i].kind # "junk"
  BY <1>1, <1>2 DEF Plan, StepsOK, NewCluster, Ends
<1>4. Calm /\ TablesOK
  BY <1>3 DEF Calm, IInv
<1>5. PICK N \in Nat : N = table.len
  BY <1>4, PartsOf DEF TablesOK
<1>6. ASSUME NEW i \in 1 .. N PROVE f[i] = table.slot[i]
  <2>1. f[i] = IF Blank(table, i) THEN Zero ELSE table.slot[i]
    BY <1>1, <1>2, <1>3, <1>5 DEF Plan, Makes
  <2> SUFFICES ASSUME Blank(table, i) PROVE table.slot[i] = Zero
    BY <2>1
  <2>2. table.slot[i].kind = "zero"
    BY <1>3, <1>5 DEF Blank
  <2>3. EntryOK(table.slot[i])
    BY <1>4, <1>5, Pos DEF TablesOK, Typed
  <2> QED
    BY <2>2, <2>3 DEF EntryOK
<1>7. PICK F : F = table.slot
  OBVIOUS
<1>8. ASSUME pulls = 0 PROVE Good(N, F) /\ \A g \in 1 .. N : \A m \in Names : Block(f, m, g) => Block(F, m, g)
  <2>1. Good(N, f)
    BY <1>1, <1>3, <1>5, <1>8 DEF FinalOK
  <2>2. (\A i \in 1 .. N : F[i] = f[i]) /\ \A i \in N + 1 .. N : F[i] = Zero
    BY <1>6, <1>7
  <2>3. N <= N
    OBVIOUS
  <2> QED
    BY <2>1, <2>2, <2>3, GoodLonger, SMTT(40)
<1>9. Held(F)
  <2>1. rd.stay \subseteq 1 .. N /\ rd.at \in 0 .. N /\ Held(f)
    BY <1>1, <1>5 DEF IInv, Reader, FinalOK
  <2>2. \A i \in rd.stay : F[i].kind = HeadKind
    BY <1>6, <1>7, <2>1 DEF Held
  <2>3. ASSUME pulls = 0, rd.at # 0 PROVE Told(F, rd.at, rd.name)
    <3>1. PICK h \in 1 .. N : h = rd.at
      BY <2>1, <2>3
    <3>2. PICK n \in Names : Block(f, n, h) /\ \E t : ReadText(f, n, h, t) /\ rd.name = NameOfText(t)
      BY <2>1, <2>3, <3>1 DEF Held, Told
    <3>3. Block(F, n, h) /\ F[h] = f[h]
      BY <1>6, <1>7, <1>8, <2>3, <3>2
    <3>4. \A t : ReadText(f, n, h, t) => ReadText(F, n, h, t)
      BY <3>3 DEF ReadText
    <3> QED
      BY <3>1, <3>2, <3>3, <3>4 DEF Told
  <2> QED
    BY <2>2, <2>3 DEF Held
<1>10. call = Idle /\ (pulls = 0 => Settled(N, F, made))
  <2>1. call = Idle
    BY DEF IInv
  <2>2. ASSUME pulls = 0 PROVE Settled(N, F, made)
    <3>1. Settled(N, f, made) /\ Good(N, f)
      BY <1>1, <1>3, <1>5, <2>1, <2>2, DoneIdle, SettledAs DEF FinalOK
    <3>2. \A i \in 1 .. N : F[i] = f[i]
      BY <1>6, <1>7
    <3> QED
      BY <1>8, <2>2, <3>1, <3>2, SettledThere
  <2> QED
    BY <2>1, <2>2
<1> QED
  BY <1>4, <1>5, <1>7, <1>8, <1>9, <1>10 DEF AtRest, IInv

(***************************************************************************)
(* The steps of a call                                                     *)
(***************************************************************************)
LEMMA ReaderLonger ==
    ASSUME NEW r, NEW n \in Nat, NEW m \in Nat, n <= m, Reader(r, n) PROVE Reader(r, m)
  BY DEF Reader
LEMMA DoneIs ==
    ASSUME NEW m \in Names PROVE Done(call)[m] \in {Nothing, made[m], [at |-> call.at, id |-> call.id]}
<1>1. PICK rest : rest = [n \in Names |-> IF made[n].at = call.old /\ call.old # 0 THEN Nothing ELSE made[n]]
  OBVIOUS
<1>2. rest[m] \in {Nothing, made[m]}
  BY <1>1
<1>3. PICK v : v = [at |-> call.at, id |-> call.id]
  OBVIOUS
<1>4. Done(call) \in {rest, [rest EXCEPT ![call.name] = v], [rest EXCEPT ![call.new] = v]}
  BY <1>1, <1>3 DEF Done
<1>5. DOMAIN rest = Names
  BY <1>1
<1>6. \A x : [rest EXCEPT ![x] = v][m] \in {v, rest[m]}
  BY <1>5
<1> QED
  BY <1>2, <1>3, <1>4, <1>6
LEMMA StepLonger ==
    ASSUME IInv, Step PROVE table'.len \in Nat /\ table.len \in Nat /\ table.len <= table'.len
<1>1. table.len \in Nat /\ PerSector \in Nat /\ Shaped(table) /\ Shaped(disk)
  BY PartsOf DEF IInv, TablesOK
<1>2. CASE LinkCluster(Head(todo))
  BY <1>1, <1>2 DEF LinkCluster, Grown
<1>3. CASE ClearCluster(Head(todo))
  <2>1. table'.len = table.len
    BY <1>1, <1>3 DEF ClearCluster, Cleared, Shaped
  <2> QED
    BY <1>1, <2>1
<1>4. CASE PutEntry(Head(todo))
  <2>1. table'.len = table.len
    BY <1>1, <1>4 DEF PutEntry, Shaped
  <2> QED
    BY <1>1, <2>1
<1>5. CASE SyncFs(Head(todo))
  BY <1>1, <1>5 DEF SyncFs
<1> QED
  BY <1>2, <1>3, <1>4, <1>5 DEF Step

LEMMA StepInv == ASSUME IInv, Step PROVE IInv'
<1>1. PICK ln, f : Plan(table, todo, ln, f) /\ FinalOK(Ends(todo, ln), f)
  BY DEF IInv
<1>2. TablesOK /\ MadeOK /\ pulls \in Nat /\ Reader(rd, table.len) /\ call.id \in 0 .. objects /\ objects \in Nat
  BY DEF IInv, TablesOK
<1>3. TablesOK' /\ \E l : Plan(table, todo, l, f)' /\ Ends(todo, l)' = Ends(todo, ln)
  BY <1>1, <1>2, StepPlan
<1>4. PICK l : Plan(table, todo, l, f)' /\ Ends(todo, l)' = Ends(todo, ln)
  BY <1>3
<1>5. PICK N : N = Ends(todo, ln)
  OBVIOUS
<1>6. fs_type' = fs_type /\ rd' = rd /\ objects' = objects /\ pulls' = pulls /\ todo' = Tail(todo)
  BY DEF Step
<1>7. PICK n \in Nat, m \in Nat : n = table.len /\ m = table'.len /\ n <= m
  BY StepLonger
<1>8. Reader(rd', table'.len)
  BY <1>2, <1>6, <1>7, ReaderLonger
<1>9. ASSUME Tail(todo) = <<>> PROVE MadeOK' /\ call'.id \in 0 .. objects' /\ call'.at \in 0 .. N
  <2>1. made' = Done(call) /\ call' = Idle
    BY <1>9 DEF Step
  <2>2. N = m
    <3>1. todo' = <<>> /\ Len(<<>>) = 0
      BY <1>6, <1>9, NoPuts
    <3> QED
      BY <1>4, <1>5, <1>7, <3>1 DEF Plan, StepsOK, Ends
  <2>3. MadeOK'
    <3>1. ASSUME NEW x \in Names PROVE made'[x].at \in 0 .. m /\ made'[x].id \in 0 .. objects
      <4>1. made'[x] \in {Nothing, made[x], [at |-> call.at, id |-> call.id]}
        BY <2>1, DoneIs
      <4>2. call.at \in 0 .. m /\ call.id \in 0 .. objects
        BY <1>1, <1>2, <1>5, <2>2 DEF FinalOK
      <4>3. made[x].at \in 0 .. m /\ made[x].id \in 0 .. objects
        BY <1>2, <1>7 DEF MadeOK
      <4> QED
        BY <1>2, <4>1, <4>2, <4>3 DEF Nothing
    <3> QED
      BY <1>6, <1>7, <3>1 DEF MadeOK
  <2>4. call'.id \in 0 .. objects' /\ call'.at \in 0 .. N
    BY <1>2, <1>6, <2>1, <2>2 DEF Idle
  <2> QED
    BY <2>3, <2>4
<1>10. ASSUME Tail(todo) # <<>> PROVE MadeOK' /\ call'.id \in 0 .. objects' /\ call'.at \in 0 .. N
  <2>1. made' = made /\ call' = call
    BY <1>10 DEF Step
  <2>2. MadeOK'
    BY <1>2, <1>6, <1>7, <2>1 DEF MadeOK
  <2>3. call'.id \in 0 .. objects' /\ call'.at \in 0 .. N
    BY <1>1, <1>2, <1>5, <1>6, <2>1 DEF FinalOK
  <2> QED
    BY <2>2, <2>3
<1>11. MadeOK' /\ call'.id \in 0 .. objects' /\ call'.at \in 0 .. N
  BY <1>9, <1>10
<1>12. pulls' = 0 => Settled(N, f, Done(call))'
  <2> SUFFICES ASSUME pulls = 0 PROVE Settled(N, f, Done(call))'
    BY <1>6
  <2>1. PICK M : M = Done(call) /\ Settled(N, f, M)
    BY <1>1, <1>5 DEF FinalOK
  <2>2. Settled(N, f, M)'
    BY <1>6, <2>1, SameSettled
  <2>3. PICK L : L = Done(call)'
    OBVIOUS
  <2>4. \A x \in Names : L[x] = M[x]
    <3>1. CASE Tail(todo) = <<>>
      <4>1. made' = M /\ call' = Idle
        BY <2>1, <3>1 DEF Step
      <4>2. L = Done(Idle)'
        BY <2>3, <4>1 DEF Done, Idle, NoName
      <4> QED
        BY <4>1, <4>2, DoneIdle
    <3>2. CASE Tail(todo) # <<>>
      <4>1. made' = made /\ call' = call
        BY <3>2 DEF Step
      <4>2. L = M
        BY <2>1, <2>3, <4>1 DEF Done
      <4> QED
        BY <4>2
    <3> QED
      BY <3>1, <3>2
  <2>5. Settled(N, f, L)'
    BY <2>2, <2>4 DEF Settled
  <2> QED
    BY <2>3, <2>5 DEF Settled
<1>13. todo' = <<>> => call' = Idle
  BY <1>6 DEF Step
<1>14. Held(f)'
  <2>1. Held(f)
    BY <1>1 DEF FinalOK
  <2>2. rd'.stay = rd.stay /\ rd'.at = rd.at /\ rd'.name = rd.name
    BY <1>6
  <2> QED
    BY <1>6, <2>1, <2>2, SameHeld
<1>15. pulls' = 0 => Good(N, f)'
  <2>1. pulls = 0 => Good(N, f)
    BY <1>1, <1>5 DEF FinalOK
  <2> QED
    BY <1>6, <2>1, SameGood
<1>16. Plan(table, todo, l, f)' /\ FinalOK(Ends(todo, l), f)'
  <2>1. FinalOK(N, f)'
    BY <1>11, <1>14, <1>15, <1>12 DEF FinalOK
  <2> QED
    BY <1>4, <1>5, <2>1 DEF FinalOK
<1> QED
  BY <1>2, <1>3, <1>6, <1>8, <1>11, <1>16, <1>13 DEF IInv

(***************************************************************************)
(* Between calls                                                           *)
(***************************************************************************)
LEMMA Still ==
    ASSUME AtRest, UNCHANGED <<fs_type, table, todo, call, made, objects, pulls>>, DiskMoves,
           Reader(rd', table.len), Held(table.slot)'
    PROVE  AtRest'
<1>1. UNCHANGED <<fs_type, objects>> /\ table' = table /\ todo' = todo /\ call' = call /\ made' = made /\ pulls' = pulls
  OBVIOUS
<1>2. TablesOK /\ objects \in Nat
  BY DEF AtRest, Calm, TablesOK
<1>3. TablesOK'
  BY <1>1, <1>2, StillOK
<1>4. Calm'
  BY <1>1, <1>3 DEF AtRest, Calm
<1>5. MadeOK'
  BY <1>1 DEF AtRest, MadeOK
<1>6. ASSUME pulls = 0 PROVE Good(table.len, table.slot)'
  <2>1. PICK n, f : n = table.len /\ f = table.slot /\ Good(n, f)
    BY <1>6 DEF AtRest
  <2>2. Good(n, f)'
    BY <1>1, <2>1, SameGood
  <2> QED
    BY <1>1, <2>1, <2>2
<1>7. Reader(rd', table'.len)
  BY <1>1
<1>8. ASSUME pulls = 0 PROVE Settled(table.len, table.slot, made)'
  <2>1. PICK n, f, M : n = table.len /\ f = table.slot /\ M = made /\ Settled(n, f, M)
    BY <1>8 DEF AtRest
  <2>2. Settled(n, f, M)'
    BY <1>1, <2>1, SameSettled
  <2>3. table'.len = n /\ table'.slot = f /\ made' = M
    BY <1>1, <2>1
  <2> QED
    BY <2>2, <2>3
<1>9. call' = Idle' /\ todo' = <<>>
  BY <1>1 DEF AtRest, Idle, NoName
<1> QED
  BY <1>1, <1>4, <1>5, <1>6, <1>7, <1>8, <1>9 DEF AtRest

LEMMA HeldStill ==
    ASSUME AtRest, UNCHANGED <<fs_type, table, pulls>>, rd'.stay = rd.stay, rd'.at = rd.at, rd'.name = rd.name
    PROVE  Held(table.slot)'
<1>1. PICK f : f = table.slot /\ Held(f)
  BY DEF AtRest
<1>2. Held(f)'
  BY <1>1, SameHeld
<1> QED
  BY <1>1, <1>2
LEMMA ElsewhereRest == ASSUME AtRest, Elsewhere PROVE AtRest'
<1>1. UNCHANGED <<fs_type, table, todo, call, made, objects, pulls>> /\ DiskMoves /\ rd' = rd
  BY DEF Elsewhere, DiskMoves
<1>2. Held(table.slot)'
  <2>1. rd'.stay = rd.stay /\ rd'.at = rd.at /\ rd'.name = rd.name
    BY <1>1
  <2> QED
    BY <1>1, <2>1, HeldStill
<1>3. Reader(rd', table.len)
  BY <1>1 DEF AtRest
<1> QED
  BY <1>1, <1>2, <1>3, Still

LEMMA NoHandle ==
    ASSUME rd' = Closed, NEW n \in Nat PROVE Reader(rd', n) /\ Held(table.slot)'
<1>1. PICK s : s = [i \in 1 .. MaxSlots |-> 0]
  OBVIOUS
<1>2. s \in [1 .. MaxSlots -> Nat]
  BY <1>1
<1>3. PICK r : r = rd' /\ r = [open |-> FALSE, pos |-> 0, failed |-> FALSE, stay |-> {}, seen |-> s, at |-> 0, name |-> NoName]
  BY <1>1 DEF Closed
<1>4. Reader(r, n)
  BY <1>2, <1>3 DEF Reader, IsReader
<1>5. Held(table.slot)'
  BY <1>3 DEF Held
<1> QED
  BY <1>3, <1>4, <1>5
LEMMA CloseRest == ASSUME AtRest, CloseDir PROVE AtRest'
<1>1. UNCHANGED <<fs_type, table, todo, call, made, objects, pulls>> /\ DiskMoves /\ rd' = Closed
  BY DEF CloseDir, DiskMoves
<1>2. table.len \in Nat
  BY PartsOf DEF AtRest, Calm, TablesOK
<1> QED
  BY <1>1, <1>2, NoHandle, Still

LEMMA OpenRest == ASSUME AtRest, OpenDir PROVE AtRest'
<1>1. UNCHANGED <<fs_type, table, todo, call, made, objects, pulls>> /\ DiskMoves
  BY DEF OpenDir, DiskMoves
<1>2. PICK n \in Nat : n = table.len /\ n >= 1 /\ n <= MaxSlots /\ ZeroLast(table)
  BY LenIs DEF AtRest, Calm, TablesOK, Shaped
<1>3. PICK H : H = Heads(table) /\ H = {i \in 1 .. n : table.slot[i].kind = HeadKind}
  BY <1>2, HeadsAre
<1>4. PICK s : s = [i \in 1 .. MaxSlots |-> 0]
  OBVIOUS
<1>5. s \in [1 .. MaxSlots -> Nat] /\ \A i \in 1 .. n : s[i] = 0
  BY <1>2, <1>4, Nums
<1>6. PICK r : r = rd' /\ r = [open |-> TRUE, pos |-> 1, failed |-> FALSE, stay |-> H, seen |-> s, at |-> 0, name |-> NoName]
  BY <1>3, <1>4 DEF OpenDir, Closed
<1>7. r.open = TRUE /\ r.pos = 1 /\ r.failed = FALSE /\ r.stay = H /\ r.seen = s /\ r.at = 0 /\ IsReader(r)
  BY <1>6 DEF IsReader
<1>8. \A i \in H : i \in 1 .. n /\ ~(i < 1) /\ table.slot[i].kind = HeadKind
  BY <1>3
<1>9. Reader(r, n)
  BY <1>2, <1>5, <1>7, <1>8 DEF Reader
<1>10. Held(table.slot)'
  BY <1>1, <1>6, <1>7, <1>8, SameKinds DEF Held
<1> QED
  BY <1>1, <1>2, <1>6, <1>9, <1>10, Still

(***************************************************************************)
(* Reading on                                                              *)
(***************************************************************************)
LEMMA AheadIs ==
    ASSUME AtRest
    PROVE  Ahead = IF rd.pos = 0 THEN {} ELSE {i \in rd.pos .. table.len : table.slot[i].kind = HeadKind}
<1>1. table.len \in Nat /\ ZeroLast(table) /\ rd.pos \in 0 .. table.len
  BY PartsOf DEF AtRest, Calm, TablesOK, Reader
<1>2. CASE rd.pos = 0
  BY <1>2 DEF Ahead
<1>3. CASE rd.pos # 0
  <2>1. PICK p \in Nat : p = rd.pos /\ p >= 1
    BY <1>1, <1>3
  <2>2. PICK k : k = HeadKind /\ k \notin {"zero", "junk"}
    BY DEF HeadKind
  <2>3. Kind(table, p, k) = {i \in p .. table.len : table.slot[i].kind = k}
    BY <1>1, <2>1, <2>2, KindIs
  <2>4. Ahead = Kind(table, p, k)
    BY <1>3, <2>1, <2>2 DEF Ahead, HeadKind
  <2> QED
    BY <1>3, <2>1, <2>2, <2>3, <2>4
<1> QED
  BY <1>2, <1>3

\* Nothing is ahead: the handle is at the end.
LEMMA ReadAll ==
    ASSUME AtRest, rd.open, NEW s, s \in [1 .. MaxSlots -> Nat],
           \A i \in rd.stay : s[i] = IF i \in Ahead THEN rd.seen[i] + 1 ELSE rd.seen[i],
           NEW r, r = [rd EXCEPT !.pos = 0, !.seen = s]
    PROVE  Reader(r, table.len) /\ r.stay = rd.stay /\ r.at = rd.at /\ r.name = rd.name
<1>1. PICK n \in Nat, p \in Nat : n = table.len /\ p = rd.pos /\ p <= n /\ Reader(rd, n)
  BY PartsOf DEF AtRest, Calm, TablesOK, Reader
<1>2. IsReader(rd) /\ rd.at \in 0 .. n /\ rd.stay \subseteq 1 .. n
  BY <1>1 DEF Reader
<1>3. /\ r = [open |-> rd.open, pos |-> 0, failed |-> rd.failed, stay |-> rd.stay, seen |-> s, at |-> rd.at, name |-> rd.name]
      /\ IsReader(r)
  BY <1>2 DEF IsReader
<1>4. r.open = rd.open /\ r.pos = 0 /\ r.failed = rd.failed /\ r.stay = rd.stay /\ r.seen = s /\ r.at = rd.at /\ r.name = rd.name
  BY <1>3
<1>5. PICK A : A = Ahead /\ A = IF p = 0 THEN {} ELSE {i \in p .. n : table.slot[i].kind = HeadKind}
  BY <1>1, AheadIs
<1>6. ASSUME NEW i \in rd.stay PROVE s[i] <= 1 /\ (~r.failed => s[i] = 1)
  <2>1. s[i] = IF i \in A THEN rd.seen[i] + 1 ELSE rd.seen[i]
    BY <1>5
  <2>2. IF p # 0 THEN rd.seen[i] = IF i < p THEN 1 ELSE 0 ELSE rd.seen[i] <= 1 /\ (~rd.failed => rd.seen[i] = 1)
    BY <1>1 DEF Reader
  <2>3. table.slot[i].kind = HeadKind /\ i \in 1 .. n
    BY <1>2 DEF AtRest, Held
  <2>4. CASE p = 0
    BY <1>4, <1>5, <2>1, <2>2, <2>4
  <2>5. CASE p # 0
    <3>1. i \in A <=> ~(i < p)
      BY <1>5, <2>3, <2>5
    <3> QED
      BY <2>1, <2>2, <2>5, <3>1
  <2> QED
    BY <2>4, <2>5
<1>7. Reader(r, n)
  <2>1. \A i \in r.stay : r.open => r.seen[i] <= 1 /\ (~r.failed => r.seen[i] = 1)
    BY <1>4, <1>6
  <2>2. r.pos \in 0 .. n /\ r.at \in 0 .. n /\ r.stay \subseteq 1 .. n /\ r.seen \in [1 .. MaxSlots -> Nat]
    BY <1>2, <1>4
  <2> QED
    BY <1>3, <1>4, <2>1, <2>2 DEF Reader
<1> QED
  BY <1>1, <1>4, <1>7

\* The entry at i is given, and the handle goes on behind its block.
Given(r, i, p, name) ==
    r = [open |-> rd.open, pos |-> p, failed |-> rd.failed, stay |-> rd.stay, seen |-> [rd.seen EXCEPT ![i] = @ + 1],
         at |-> i, name |-> name]
LEMMA ReadOne ==
    ASSUME AtRest, rd.open, NEW i \in Ahead, i = First(Ahead), NEW e, e = BlockEnd(table, i), ExFat => Whole(table, i),
           NEW name, NEW p, p = IF e = table.len THEN 0 ELSE e + 1,
           NEW r, Given(r, i, p, name)
    PROVE  Reader(r, table.len) /\ r.stay = rd.stay /\ r.at = i /\ r.name = name /\ i \in 1 .. table.len
<1>1. PICK n \in Nat, q \in Nat : n = table.len /\ q = rd.pos /\ q <= n /\ Reader(rd, n) /\ n <= MaxSlots
  BY PartsOf, LenIs DEF AtRest, Calm, TablesOK, Shaped, Reader
<1>2. IsReader(rd) /\ rd.at \in 0 .. n /\ rd.stay \subseteq 1 .. n /\ rd.seen \in [1 .. MaxSlots -> Nat]
  BY <1>1 DEF Reader
<1>3. PICK A : A = Ahead /\ A = {j \in q .. n : table.slot[j].kind = HeadKind} /\ q >= 1
  BY <1>1, AheadIs
<1>4. i \in q .. n /\ i \in 1 .. n /\ table.slot[i].kind = HeadKind /\ \A j \in A : i <= j
  <2>1. i \in q .. n /\ i \in 1 .. n /\ table.slot[i].kind = HeadKind
    BY <1>3
  <2>2. A \in SUBSET (1 .. n) /\ A # {} /\ i = First(A)
    <3>1. A \subseteq 1 .. n
      BY <1>3
    <3>2. i \in A /\ i = First(A)
      BY <1>3
    <3> QED
      BY <3>1, <3>2
  <2>3. \A j \in A : i <= j
    <3>1. PICK g : g = First(A)
      OBVIOUS
    <3>2. \A j \in A : First(A) <= j
      BY <2>2, FirstIs
    <3>3. \A j \in A : g <= j
      BY <3>1, <3>2
    <3> QED
      BY <2>2, <3>1, <3>3
  <2> QED
    BY <2>1, <2>3
<1>5. e \in Nat /\ i <= e /\ e <= n /\ \A j \in i + 1 .. e : table.slot[j].kind # HeadKind
  <2>1. CASE ~ExFat
    BY <1>4, <2>1 DEF BlockEnd
  <2>2. CASE ExFat
    <3>1. HeadKind = "85" /\ e = i + table.slot[i].num /\ Whole(table, i)
      BY <2>2 DEF HeadKind, BlockEnd
    <3>2. EntryOK(table.slot[i])
      BY <1>1, <1>4, Pos DEF AtRest, Calm, TablesOK, Typed
    <3>3. PICK m \in Nat : m = table.slot[i].num /\ m >= 2 /\ e = i + m
      BY <1>4, <3>1, <3>2 DEF EntryOK
    <3>4. i + m <= n /\ table.slot[i + 1].kind = "c0" /\ \A k \in 2 .. m : table.slot[i + k].kind = "c1"
      BY <1>1, <3>1, <3>3 DEF Whole
    <3>5. ASSUME NEW j \in i + 1 .. e PROVE table.slot[j].kind # "85"
      <4>1. j = i + 1 \/ (j - i \in 2 .. m /\ i + (j - i) = j)
        BY <1>4, <3>3
      <4> QED
        BY <3>4, <4>1
    <3> QED
      BY <1>4, <3>1, <3>3, <3>4, <3>5
  <2> QED
    BY <2>1, <2>2
<1>6. PICK s : s = [rd.seen EXCEPT ![i] = @ + 1]
  OBVIOUS
<1>7. i \in 1 .. MaxSlots /\ s \in [1 .. MaxSlots -> Nat] /\ s[i] = rd.seen[i] + 1 /\ \A j \in 1 .. n : j # i => s[j] = rd.seen[j]
  <2>1. i \in 1 .. MaxSlots /\ 1 .. n \subseteq 1 .. MaxSlots
    BY <1>1, <1>4, Nums
  <2>2. rd.seen[i] \in Nat
    BY <1>2, <2>1
  <2>3. rd.seen[i] + 1 \in Nat
    BY <2>2
  <2> QED
    BY <1>2, <1>6, <2>1, <2>3
<1>8. /\ r = [open |-> rd.open, pos |-> p, failed |-> rd.failed, stay |-> rd.stay, seen |-> s, at |-> i, name |-> name]
      /\ IsReader(r)
  BY <1>6 DEF Given, IsReader
<1>9. r.open = rd.open /\ r.pos = p /\ r.failed = rd.failed /\ r.stay = rd.stay /\ r.seen = s /\ r.at = i /\ r.name = name
  BY <1>8
<1>10. ASSUME NEW j \in rd.stay PROVE IF p # 0 THEN s[j] = IF j < p THEN 1 ELSE 0 ELSE s[j] = 1
  <2>1. j \in 1 .. n /\ table.slot[j].kind = HeadKind
    BY <1>2 DEF AtRest, Held
  <2>2. rd.seen[j] = IF j < q THEN 1 ELSE 0
    BY <1>1, <1>3 DEF Reader
  <2>3. j >= q => i <= j
    BY <1>3, <1>4, <2>1
  <2>4. j > i => j > e
    BY <1>4, <1>5, <2>1
  <2>5. s[j] = IF j <= i THEN 1 ELSE 0
    BY <1>3, <1>4, <1>7, <2>1, <2>2, <2>3, SMTT(40)
  <2>6. CASE e = n
    BY <1>1, <1>4, <1>5, <2>1, <2>4, <2>5, <2>6
  <2>7. CASE e # n
    <3>1. p = e + 1 /\ p # 0
      BY <1>1, <1>5, <2>7
    <3>2. j < p <=> j <= i
      BY <1>4, <1>5, <2>1, <2>4, <3>1
    <3> QED
      BY <2>5, <3>1, <3>2
  <2> QED
    BY <2>6, <2>7
<1>11. p \in 0 .. n
  BY <1>1, <1>5
<1>12. Reader(r, n)
  <2>1. \A j \in r.stay : r.open => IF r.pos # 0 THEN r.seen[j] = IF j < r.pos THEN 1 ELSE 0
                                    ELSE r.seen[j] <= 1 /\ (~r.failed => r.seen[j] = 1)
    <3> SUFFICES ASSUME NEW j \in rd.stay
                 PROVE IF p # 0 THEN s[j] = IF j < p THEN 1 ELSE 0 ELSE s[j] <= 1 /\ (~r.failed => s[j] = 1)
      BY <1>9
    <3>1. IF p # 0 THEN s[j] = IF j < p THEN 1 ELSE 0 ELSE s[j] = 1
      BY <1>10
    <3> QED
      BY <3>1
  <2>2. r.pos \in 0 .. n /\ r.at \in 0 .. n /\ r.stay \subseteq 1 .. n /\ r.seen \in [1 .. MaxSlots -> Nat]
    BY <1>2, <1>4, <1>7, <1>9, <1>11
  <2> QED
    BY <1>8, <2>1, <2>2 DEF Reader
<1> QED
  BY <1>1, <1>4, <1>9, <1>12

LEMMA ReportedIs ==
    ASSUME GoodNow, NEW i \in Heads(table), rd.pos \in 1 .. i PROVE Told(table.slot, i, Reported(i))
<1>1. PICK m : BlockNow(m, i)
  BY NowIs
<1>2. m \in Names /\ i \in 1 .. table.len /\ Block(table.slot, m, i) /\ i \in Nat
  BY <1>1, NowIs DEF BlockNow
<1>3. CASE ExFat
  <2>1. SetText(table, i) = m.text
    BY <1>1, <1>3, ExReads
  <2>2. Reported(i) = NameOfText(m.text) /\ ReadText(table.slot, m, i, m.text)
    BY <1>3, <2>1 DEF Reported, ReadText
  <2> QED
    BY <1>2, <2>2 DEF Told
<1>4. CASE ~ExFat
  <2>1. PICK p \in 1 .. i : p = rd.pos
    OBVIOUS
  <2>2. m.lfn => LongOf(table.slot, m, i)
    BY <1>1, <1>4, FatReads
  <2>3. ~m.lfn => ShortOf(table.slot, m, i)
    BY <1>1, <1>4, FatReads
  <2>4. PICK t : t = TextAt(table, i, p)
    OBVIOUS
  <2>5. ReadText(table.slot, m, i, t)
    <3>1. CASE m.lfn
      <4>1. t = IF i - p >= Pieces(m) THEN m.text ELSE <<table.slot[i].sfn>>
        BY <1>2, <2>2, <2>4, <3>1, TextLong
      <4> QED
        BY <1>4, <3>1, <4>1 DEF ReadText
    <3>2. CASE ~m.lfn
      <4>1. t = <<table.slot[i].sfn>>
        BY <1>2, <2>3, <2>4, <3>2, TextShort
      <4> QED
        BY <1>4, <4>1 DEF ReadText
    <3> QED
      BY <3>1, <3>2
  <2>6. Reported(i) = NameOfText(t)
    BY <1>4, <2>1, <2>4 DEF Reported
  <2> QED
    BY <1>2, <2>5, <2>6 DEF Told
<1> QED
  BY <1>3, <1>4

LEMMA ReadRest == ASSUME AtRest, ReadDir PROVE AtRest'
<1>1. UNCHANGED <<fs_type, table, todo, call, made, objects, pulls>> /\ rd.open
  BY DEF ReadDir
<1>2. PICK n \in Nat : n = table.len /\ ZeroLast(table) /\ rd.pos \in 0 .. n
  BY PartsOf DEF AtRest, Calm, TablesOK, Reader
<1>3. IsReader(rd) /\ rd.seen \in [1 .. MaxSlots -> Nat] /\ rd.stay \subseteq 1 .. n
  BY <1>2 DEF AtRest, Reader
<1>4. CASE Ahead = {}
  <2>1. rd' = [rd EXCEPT !.pos = 0] /\ DiskMoves
    BY <1>4, ReadMoves DEF ReadDir
  <2>2. PICK s, r : s = rd.seen /\ r = [rd EXCEPT !.pos = 0, !.seen = s]
    OBVIOUS
  <2>3. r = rd'
    <3>1. r = [open |-> rd.open, pos |-> 0, failed |-> rd.failed, stay |-> rd.stay, seen |-> rd.seen, at |-> rd.at, name |-> rd.name]
      BY <1>3, <2>2 DEF IsReader
    <3>2. rd' = [open |-> rd.open, pos |-> 0, failed |-> rd.failed, stay |-> rd.stay, seen |-> rd.seen, at |-> rd.at, name |-> rd.name]
      BY <1>3, <2>1 DEF IsReader
    <3> QED
      BY <3>1, <3>2
  <2>4. \A i \in rd.stay : s[i] = IF i \in Ahead THEN rd.seen[i] + 1 ELSE rd.seen[i]
    BY <1>4, <2>2
  <2>5. Reader(r, table.len) /\ r.stay = rd.stay /\ r.at = rd.at /\ r.name = rd.name
    <3>1. s \in [1 .. MaxSlots -> Nat]
      BY <1>3, <2>2
    <3> QED
      BY <1>1, <2>2, <2>4, <3>1, ReadAll
  <2>6. Held(table.slot)'
    BY <1>1, <2>3, <2>5, HeldStill
  <2> QED
    BY <1>1, <2>1, <2>3, <2>5, <2>6, Still
<1>5. CASE Ahead # {}
  <2>1. PICK A : A = Ahead /\ A \subseteq 1 .. n /\ \A j \in A : j >= rd.pos /\ rd.pos >= 1 /\ table.slot[j].kind = HeadKind
    BY <1>2, <1>5, AheadIs
  <2>2. PICK i : i = First(Ahead)
    OBVIOUS
  <2>3. i \in Ahead
    BY <1>5, <2>1, <2>2, FirstIs
  <2>4. i \in 1 .. n /\ rd.pos \in 1 .. i /\ i \in Heads(table)
    <3>1. i \in 1 .. n /\ table.slot[i].kind = HeadKind /\ i >= rd.pos /\ rd.pos >= 1
      BY <2>1, <2>3
    <3>2. Heads(table) = {j \in 1 .. table.len : table.slot[j].kind = HeadKind}
      BY <1>2, HeadsAre
    <3> QED
      BY <1>2, <3>1, <3>2
  <2>5. CASE ExFat /\ ~Whole(table, i)
    <3>1. rd' = [rd EXCEPT !.pos = 0, !.failed = TRUE] /\ DiskMoves
      BY <1>5, <2>2, <2>5, VisitMoves DEF ReadDir
    <3>2. PICK r : r = rd' /\ r = [open |-> rd.open, pos |-> 0, failed |-> TRUE, stay |-> rd.stay, seen |-> rd.seen, at |-> rd.at, name |-> rd.name]
      BY <1>3, <3>1 DEF IsReader
    <3>3. r.open = rd.open /\ r.pos = 0 /\ r.failed = TRUE /\ r.stay = rd.stay /\ r.seen = rd.seen /\ r.at = rd.at /\ r.name = rd.name /\ IsReader(r)
      BY <3>2 DEF IsReader
    <3>4. \A j \in rd.stay : rd.seen[j] <= 1
      <4> TAKE j \in rd.stay
      <4>1. IF rd.pos # 0 THEN rd.seen[j] = IF j < rd.pos THEN 1 ELSE 0 ELSE rd.seen[j] <= 1 /\ (~rd.failed => rd.seen[j] = 1)
        BY <1>1 DEF AtRest, Reader
      <4> QED
        BY <4>1
    <3>5. Reader(r, n)
      <4>1. \A j \in r.stay : r.seen[j] <= 1
        BY <3>3, <3>4
      <4>2. r.pos \in 0 .. n /\ r.at \in 0 .. n /\ r.stay \subseteq 1 .. n /\ r.seen \in [1 .. MaxSlots -> Nat]
        BY <1>2, <1>3, <3>3 DEF AtRest, Reader
      <4> QED
        BY <3>3, <4>1, <4>2 DEF Reader
    <3>6. Held(table.slot)'
      BY <1>1, <3>2, <3>3, HeldStill
    <3> QED
      BY <1>1, <1>2, <3>1, <3>2, <3>5, <3>6, Still
  <2>6. CASE ~(ExFat /\ ~Whole(table, i))
    <3>1. rd' = [rd EXCEPT !.pos = After(i), !.seen[i] = @ + 1, !.at = i, !.name = Reported(i)] /\ DiskMoves
      BY <1>5, <2>2, <2>6, VisitMoves DEF ReadDir
    <3>2. PICK r, p, name, e : r = rd' /\ p = After(i) /\ name = Reported(i) /\ e = BlockEnd(table, i)
      OBVIOUS
    <3>3. p = IF e = table.len THEN 0 ELSE e + 1
      BY <3>2 DEF After
    <3>4. Given(r, i, p, name)
      BY <1>3, <3>1, <3>2 DEF Given, IsReader
    <3>5. Reader(r, table.len) /\ r.stay = rd.stay /\ r.at = i /\ r.name = name /\ i \in 1 .. table.len
      BY <1>1, <2>2, <2>3, <2>6, <3>2, <3>3, <3>4, ReadOne
    <3>6. Held(table.slot)'
      <4>1. PICK f : f = table.slot /\ Held(f)
        BY DEF AtRest
      <4>2. HeadKind' = HeadKind /\ rd'.stay = rd.stay /\ rd'.at = i /\ rd'.name = name
        BY <1>1, <3>2, <3>5, SameKinds
      <4>3. ASSUME pulls = 0 PROVE Told(f, i, name)'
        <5>1. GoodNow
          BY <4>3 DEF AtRest, GoodNow
        <5>2. Told(f, i, name)
          BY <2>4, <3>2, <4>1, <5>1, ReportedIs
        <5> QED
          BY <1>1, <5>2, SameTold
      <4> QED
        BY <1>1, <4>1, <4>2, <4>3 DEF Held
    <3> QED
      BY <1>1, <3>1, <3>2, <3>5, <3>6, Still
  <2> QED
    BY <2>5, <2>6
<1> QED
  BY <1>4, <1>5

LEMMA CountRest == ASSUME AtRest, GetEntryCount PROVE AtRest'
<1>1. UNCHANGED <<fs_type, table, todo, call, made, objects, pulls>> /\ rd.open /\ DiskMoves
  BY ReadMoves DEF GetEntryCount
<1>2. PICK n \in Nat : n = table.len /\ n <= MaxSlots
  BY PartsOf, LenIs DEF AtRest, Calm, TablesOK, Shaped
<1>3. IsReader(rd) /\ rd.seen \in [1 .. MaxSlots -> Nat] /\ rd.stay \subseteq 1 .. n
  BY <1>2 DEF AtRest, Reader
<1>4. PICK s : s = [i \in 1 .. MaxSlots |-> IF i \in Ahead THEN rd.seen[i] + 1 ELSE rd.seen[i]]
  OBVIOUS
<1>5. PICK r : r = [rd EXCEPT !.pos = 0, !.seen = s]
  OBVIOUS
<1>6. r = rd'
  <2>1. r = [open |-> rd.open, pos |-> 0, failed |-> rd.failed, stay |-> rd.stay, seen |-> s, at |-> rd.at, name |-> rd.name]
    BY <1>3, <1>5 DEF IsReader
  <2>2. rd' = [open |-> rd.open, pos |-> 0, failed |-> rd.failed, stay |-> rd.stay, seen |-> s, at |-> rd.at, name |-> rd.name]
    BY <1>3, <1>4 DEF IsReader, GetEntryCount
  <2> QED
    BY <2>1, <2>2
<1>7. s \in [1 .. MaxSlots -> Nat]
  <2>1. \A i \in 1 .. MaxSlots : rd.seen[i] \in Nat /\ rd.seen[i] + 1 \in Nat
    <3>1. PICK q, m : q = rd.seen /\ m = MaxSlots /\ q \in [1 .. m -> Nat]
      BY <1>3
    <3>2. \A i \in 1 .. m : q[i] \in Nat
      BY <3>1
    <3>3. \A i \in 1 .. m : q[i] + 1 \in Nat
      BY <3>2
    <3> QED
      BY <3>1, <3>2, <3>3
  <2> QED
    BY <1>4, <2>1
<1>8. \A i \in rd.stay : s[i] = IF i \in Ahead THEN rd.seen[i] + 1 ELSE rd.seen[i]
  <2>1. rd.stay \subseteq 1 .. MaxSlots
    BY <1>2, <1>3, Nums
  <2> QED
    BY <1>4, <2>1
<1>9. Reader(r, table.len) /\ r.stay = rd.stay /\ r.at = rd.at /\ r.name = rd.name
  BY <1>1, <1>5, <1>7, <1>8, ReadAll
<1>10. Held(table.slot)'
  BY <1>1, <1>6, <1>9, HeldStill
<1> QED
  BY <1>1, <1>6, <1>9, <1>10, Still

(***************************************************************************)
(* The drive goes and comes back                                           *)
(***************************************************************************)
LEMMA ObjIn ==
    ASSUME NEW T, Shaped(T), Typed(T), ZeroLast(T), NEW n, NEW i, i = Find(T, n), i > 0
    PROVE  i \in 1 .. T.len /\ ObjAt(T, i) \in Objs
<1>1. PICK l \in Nat : l = T.len /\ l <= MaxSlots
  BY LenIs DEF Shaped
<1>2. i \in Heads(T) /\ Hit(T, n, i) /\ Heads(T) = {j \in 1 .. T.len : T.slot[j].kind = HeadKind}
  BY <1>1, FindIs, HeadsAre
<1>3. i \in 1 .. l /\ i \in 1 .. MaxSlots /\ T.slot[i].kind = HeadKind
  BY <1>1, <1>2, Nums
<1>4. CASE ~ExFat
  BY <1>1, <1>3, <1>4 DEF ObjAt, Typed, EntryOK, HeadKind
<1>5. CASE ExFat
  <2>1. Whole(T, i)
    BY <1>2, <1>5 DEF Hit
  <2>2. PICK b \in Nat : b = T.slot[i].num /\ b >= 2
    BY <1>3, <1>5 DEF Typed, EntryOK, HeadKind
  <2>3. T.slot[i + 1].kind = "c0" /\ i + b <= l
    BY <1>1, <2>1, <2>2 DEF Whole
  <2>4. i + 1 \in 1 .. MaxSlots
    BY <1>1, <1>3, <2>2, <2>3, Nums
  <2> QED
    BY <1>1, <1>3, <1>5, <2>3, <2>4 DEF ObjAt, Typed, EntryOK
<1> QED
  BY <1>4, <1>5
LEMMA PullRest == ASSUME IInv, Pull PROVE AtRest'
<1>1. /\ fs_type' = fs_type /\ objects' = objects /\ table' = disk /\ disk' = disk /\ dirty' = 0 /\ todo' = <<>>
      /\ call' = Idle /\ rd' = Closed /\ pulls' = pulls + 1 /\ ~JunkIn(disk)
  BY DEF Pull
<1>2. TablesOK /\ objects \in Nat /\ pulls \in Nat
  BY DEF IInv, TablesOK
<1>3. PICK n \in Nat : n = disk.len /\ n \in Lens /\ n <= MaxSlots /\ ZeroLast(disk) /\ Typed(disk) /\ Shaped(disk)
  BY <1>2, LenIs DEF TablesOK, Shaped
<1>4. TablesOK'
  <2>1. Typed(disk)'
    <3>1. PICK T : T = disk
      OBVIOUS
    <3>2. Typed(T)'
      BY <1>1, <1>2, <1>3, <3>1, TypedStays
    <3> QED
      BY <1>1, <3>1, <3>2
  <2>2. Typed(table)'
    BY <1>1, <2>1 DEF Typed
  <2>3. Lagging'
    BY <1>1, Nums DEF Lagging
  <2>4. Shaped(table') /\ Shaped(disk') /\ ZeroLast(table') /\ ZeroLast(disk')
    BY <1>1, <1>3
  <2> QED
    BY <1>1, <1>2, <2>1, <2>2, <2>3, <2>4 DEF TablesOK
<1>5. Calm'
  BY <1>1, <1>4 DEF Calm, JunkIn
<1>6. MadeOK'
  <2>1. ASSUME NEW m \in Names PROVE made'[m].at \in 0 .. n /\ made'[m].id \in 0 .. objects
    <3>1. PICK i : i = Find(disk, m)
      OBVIOUS
    <3>2. made'[m] \in {Nothing} \union {[at |-> j, id |-> ObjAt(disk, j).id] : j \in {k \in {i} : k > 0}}
      BY <3>1 DEF Pull
    <3>3. CASE made'[m] = Nothing
      BY <1>2, <3>3 DEF Nothing
    <3>4. CASE i > 0 /\ made'[m] = [at |-> i, id |-> ObjAt(disk, i).id]
      <4>1. i \in 1 .. n /\ ObjAt(disk, i) \in Objs
        BY <1>3, <3>1, <3>4, ObjIn
      <4>2. ObjAt(disk, i).id \in 0 .. objects
        BY <4>1 DEF Objs
      <4> QED
        BY <3>4, <4>1, <4>2
    <3> QED
      BY <3>2, <3>3, <3>4
  <2> QED
    BY <1>1, <1>3, <2>1 DEF MadeOK
<1>7. Reader(rd', n) /\ Held(table.slot)'
  BY <1>1, NoHandle
<1>8. call' = Idle'
  BY <1>1 DEF Idle, NoName
<1>9. pulls' \in Nat /\ pulls' # 0
  BY <1>1, <1>2
<1> QED
  BY <1>1, <1>3, <1>5, <1>6, <1>7, <1>8, <1>9 DEF AtRest

LEMMA InitRest == Init => AtRest
<1> SUFFICES ASSUME Init PROVE AtRest
  OBVIOUS
<1>1. /\ fs_type \in FsTypes /\ table = EmptyTable(PerSector) /\ disk = table /\ dirty = 0 /\ todo = <<>> /\ call = Idle
      /\ made = [n \in Names |-> Nothing] /\ rd = Closed /\ objects = 0 /\ pulls = 0
  BY DEF Init
<1>2. PICK n \in Nat : n = PerSector /\ n >= 1 /\ n \in Lens /\ n \in 1 .. MaxSlots
  <2>1. PICK p \in Nat : p = PerSector
    BY Nums
  <2>2. 1 \in 1 .. MaxClusters /\ 1 * p = p
    BY Nums
  <2>3. p \in Lens
    BY <2>1, <2>2 DEF Lens
  <2> QED
    BY <2>1, <2>3, LenIs, Nums
<1>3. PICK f : f = [i \in 1 .. MaxSlots |-> IF i <= n THEN Zero ELSE Junk]
  OBVIOUS
<1>4. table = [len |-> n, slot |-> f]
  BY <1>1, <1>2, <1>3 DEF EmptyTable
<1>5. table.len = n /\ table.slot = f /\ f = [i \in 1 .. MaxSlots |-> f[i]]
  BY <1>3, <1>4
<1>6. \A i \in 1 .. MaxSlots : f[i] = Zero \/ f[i] = Junk
  BY <1>3
<1>7. \A i \in 1 .. n : f[i] = Zero
  BY <1>2, <1>3, Nums
<1>8. Shaped(table) /\ Typed(table) /\ ZeroLast(table)
  <2>1. Shaped(table)
    BY <1>2, <1>4, <1>5 DEF Shaped
  <2>2. Typed(table)
    BY <1>5, <1>6, EntryConst DEF Typed
  <2>3. ZeroLast(table)
    BY <1>5, <1>7, EntryConst DEF ZeroLast
  <2> QED
    BY <2>1, <2>2, <2>3
<1>9. TablesOK
  <2>1. Lagging
    BY <1>1, Nums DEF Lagging
  <2> QED
    BY <1>1, <1>8, <2>1 DEF TablesOK
<1>10. Calm
  BY <1>5, <1>7, <1>9, EntryConst DEF Calm
<1>11. Good(n, f)
  <2>1. \A i \in 1 .. n : f[i].kind = "zero"
    BY <1>7, EntryConst
  <2>2. \A m \in Names, h \in 1 .. n : ~Block(f, m, h)
    BY <2>1 DEF Block, FatBlock, ExBlock
  <2>3. "zero" # HeadKind /\ "zero" \notin PartKinds
    BY KindsAre
  <2> QED
    BY <2>1, <2>2, <2>3 DEF Good, Headed, Owned, Apart
<1>12. MadeOK
  BY <1>1, <1>5 DEF MadeOK, Nothing
<1>13. Reader(rd, n) /\ Held(f)
  <2>1. PICK s : s = [i \in 1 .. MaxSlots |-> 0]
    OBVIOUS
  <2>2. s \in [1 .. MaxSlots -> Nat]
    BY <2>1
  <2>3. rd = [open |-> FALSE, pos |-> 0, failed |-> FALSE, stay |-> {}, seen |-> s, at |-> 0, name |-> NoName]
    BY <1>1, <2>1 DEF Closed
  <2>4. Reader(rd, n)
    BY <2>2, <2>3 DEF Reader, IsReader
  <2>5. Held(f)
    BY <2>3 DEF Held
  <2> QED
    BY <2>4, <2>5
<1>14. call = Idle /\ Settled(n, f, made)
  <2>1. \A h \in 1 .. n : f[h].kind # HeadKind
    BY <1>7, EntryConst, KindsAre
  <2>2. \A m \in Names : made[m].at = 0
    BY <1>1 DEF Nothing
  <2> QED
    BY <1>1, <2>1, <2>2 DEF Settled
<1> QED
  BY <1>1, <1>5, <1>10, <1>11, <1>12, <1>13, <1>14 DEF AtRest

(***************************************************************************)
(* A call begins                                                           *)
(***************************************************************************)
LEMMA Withdrawn ==
    ASSUME AtRest, NEW c, NEW q, Begin(c, q)
    PROVE  /\ Reader(rd', table.len) /\ rd'.stay = rd.stay \ {c.old}
           /\ rd'.at # 0 => rd'.at = rd.at /\ rd'.name = rd.name /\ rd.at # c.old /\ rd.at \in 1 .. table.len
<1>1. PICK n \in Nat : n = table.len /\ n <= MaxSlots /\ Reader(rd, n)
  BY PartsOf, LenIs DEF AtRest, Calm, TablesOK, Shaped
<1>2. IsReader(rd) /\ rd.seen \in [1 .. MaxSlots -> Nat] /\ rd.stay \subseteq 1 .. n /\ rd.at \in 0 .. n /\ rd.pos \in 0 .. n
  BY <1>1 DEF Reader
<1>3. PICK o, s, a, x : /\ o = c.old /\ s = [i \in 1 .. MaxSlots |-> IF i = o THEN 0 ELSE rd.seen[i]]
                        /\ a = (IF rd.at = o THEN 0 ELSE rd.at) /\ x = (IF rd.at = o THEN NoName ELSE rd.name)
  OBVIOUS
<1>4. rd' = [rd EXCEPT !.stay = @ \ {o}, !.seen = s, !.at = a, !.name = x]
  BY <1>2, <1>3 DEF Begin, IsReader
<1>5. PICK r : r = rd' /\ r = [open |-> rd.open, pos |-> rd.pos, failed |-> rd.failed, stay |-> rd.stay \ {o}, seen |-> s, at |-> a, name |-> x]
  BY <1>2, <1>4 DEF IsReader
<1>6. /\ r.open = rd.open /\ r.pos = rd.pos /\ r.failed = rd.failed /\ r.stay = rd.stay \ {o} /\ r.seen = s /\ r.at = a /\ r.name = x
      /\ IsReader(r)
  BY <1>5 DEF IsReader
<1>7. s \in [1 .. MaxSlots -> Nat] /\ \A i \in 1 .. n : i # o => s[i] = rd.seen[i]
  <2>1. PICK m \in Nat : m = MaxSlots /\ n <= m
    BY <1>1, Nums
  <2>2. PICK g : g = rd.seen /\ m = MaxSlots /\ g \in [1 .. m -> Nat] /\ n <= m
    BY <1>2, <2>1
  <2>3. s = [i \in 1 .. m |-> IF i = o THEN 0 ELSE g[i]]
    BY <1>3, <2>2
  <2>4. \A i \in 1 .. m : g[i] \in Nat
    BY <2>2
  <2>5. s \in [1 .. m -> Nat]
    BY <2>3, <2>4
  <2>6. \A i \in 1 .. n : i # o => s[i] = g[i]
    BY <2>2, <2>3
  <2> QED
    BY <2>2, <2>5, <2>6
<1>8. Reader(r, n)
  <2>1. ASSUME NEW i \in rd.stay, i # o, rd.open
        PROVE  IF rd.pos # 0 THEN s[i] = IF i < rd.pos THEN 1 ELSE 0 ELSE s[i] <= 1 /\ (~rd.failed => s[i] = 1)
    <3>1. s[i] = rd.seen[i]
      BY <1>2, <1>7, <2>1
    <3> QED
      BY <1>1, <2>1, <3>1 DEF Reader
  <2>2. \A i \in r.stay : r.open => IF r.pos # 0 THEN r.seen[i] = IF i < r.pos THEN 1 ELSE 0
                                    ELSE r.seen[i] <= 1 /\ (~r.failed => r.seen[i] = 1)
    <3> SUFFICES ASSUME NEW i \in rd.stay, i # o, rd.open
                 PROVE IF rd.pos # 0 THEN s[i] = IF i < rd.pos THEN 1 ELSE 0 ELSE s[i] <= 1 /\ (~rd.failed => s[i] = 1)
      BY <1>6
    <3> QED
      BY <2>1
  <2>3. r.pos \in 0 .. n /\ r.at \in 0 .. n /\ r.stay \subseteq 1 .. n /\ r.seen \in [1 .. MaxSlots -> Nat]
    BY <1>2, <1>3, <1>6, <1>7
  <2> QED
    BY <1>6, <2>2, <2>3 DEF Reader
<1>9. r.at # 0 => r.at = rd.at /\ r.name = rd.name /\ rd.at # o /\ rd.at \in 1 .. n
  BY <1>2, <1>3, <1>6
<1> QED
  BY <1>1, <1>3, <1>5, <1>6, <1>8, <1>9

\* F leaves the heads that h is not one of where they are.
KeepsHeads(F, h) == \A i \in 1 .. table.len : table.slot[i].kind = HeadKind /\ i # h => F[i].kind = HeadKind
KeepsBlocks(F, h) ==
    \A g \in 1 .. table.len : \A m \in Names : g # h /\ Block(table.slot, m, g) =>
        Block(F, m, g) /\ (~ExFat => F[g].sfn = table.slot[g].sfn) /\ IdAt(F, g) = IdAt(table.slot, g)
LEMMA RoomIs ==
    ASSUME Calm, NEW k, NEW s, Stretched(k, s), NEW N, N = (k + s) * PerSector
    PROVE  N \in Nat /\ table.len \in Nat /\ table.len <= N /\ N >= 1
<1>1. PICK p \in Nat : p = PerSector /\ p > 0
  BY Nums
<1>2. k \in Nat /\ s \in Nat /\ k >= 1 /\ table.len = k * p
  BY <1>1 DEF Stretched
<1>3. (k + s) * p = k * p + s * p /\ s * p \in Nat /\ k * p \in Nat /\ k * p >= 1
  BY <1>1, <1>2
<1> QED
  BY <1>1, <1>2, <1>3
LEMMA SameId ==
    ASSUME NEW f, NEW F, NEW n, NEW h, Block(f, n, h), Block(F, n, h), F[h] = f[h] PROVE IdAt(F, h) = IdAt(f, h)
<1>1. CASE ExFat
  <2>1. F[h].sum = <<n.text, F[h + 1].obj>> /\ f[h].sum = <<n.text, f[h + 1].obj>>
    BY <1>1 DEF Block, ExBlock
  <2>2. F[h + 1].obj = f[h + 1].obj
    BY <2>1
  <2> QED
    BY <1>1, <2>2 DEF IdAt
<1>2. CASE ~ExFat
  BY <1>2 DEF IdAt
<1> QED
  BY <1>1, <1>2
\* Of heads F has those there were, but for the one the call removes, and the one it makes.
NewHeads(N, F, o, h) ==
    \A g \in 1 .. N : F[g].kind = HeadKind /\ g # h => g \in 1 .. table.len /\ table.slot[g].kind = HeadKind /\ g # o
NameOf(c) == IF c.op = "create" THEN c.name ELSE c.new
Enters(N, F, c) ==
    /\ NewHeads(N, F, c.old, c.at)
    /\ c.at # 0 => /\ c.op \in {"create", "rename"}
                   /\ NameOf(c) \in Names /\ Block(F, NameOf(c), c.at) /\ IdAt(F, c.at) = c.id
                   /\ \A g \in 1 .. table.len : Block(table.slot, NameOf(c), g) => g = c.old
LEMMA DoneAt ==
    ASSUME NEW c, c.at # 0 => c.op \in {"create", "rename"}, NEW m \in Names
    PROVE  Done(c)[m] = IF c.at # 0 /\ m = NameOf(c) THEN [at |-> c.at, id |-> c.id]
                        ELSE IF made[m].at = c.old /\ c.old # 0 THEN Nothing ELSE made[m]
<1>1. PICK rest : rest = [n \in Names |-> IF made[n].at = c.old /\ c.old # 0 THEN Nothing ELSE made[n]]
  OBVIOUS
<1>2. rest[m] = (IF made[m].at = c.old /\ c.old # 0 THEN Nothing ELSE made[m]) /\ DOMAIN rest = Names
  BY <1>1
<1>3. PICK v : v = [at |-> c.at, id |-> c.id]
  OBVIOUS
<1>4. CASE c.at = 0
  <2>1. Done(c) = rest
    BY <1>1, <1>4 DEF Done
  <2> QED
    BY <1>2, <1>4, <2>1
<1>5. CASE c.at # 0
  <2>1. Done(c) = [rest EXCEPT ![NameOf(c)] = v]
    BY <1>1, <1>3, <1>5 DEF Done, NameOf
  <2>2. \A x : [rest EXCEPT ![x] = v][m] = IF m = x THEN v ELSE rest[m]
    BY <1>2
  <2> QED
    BY <1>2, <1>3, <1>5, <2>1, <2>2
<1> QED
  BY <1>4, <1>5
LEMMA EnteredIs ==
    ASSUME AtRest, pulls = 0, NEW N \in Nat, table.len \in Nat, table.len <= N, NEW F, NEW c, c.at \in 0 .. N,
           KeepsBlocks(F, c.old), Enters(N, F, c)
    PROVE  Settled(N, F, Done(c))
<1>1. PICK f, n, x : f = table.slot /\ n = table.len /\ x = NameOf(c) /\ n <= N /\ n \in Nat
  OBVIOUS
<1>2. Settled(n, f, made)
  BY <1>1 DEF AtRest
<1>3. PICK M : M = Done(c)
  OBVIOUS
<1>4. ASSUME NEW m \in Names
      PROVE  M[m] = IF c.at # 0 /\ m = x THEN [at |-> c.at, id |-> c.id]
                    ELSE IF made[m].at = c.old /\ c.old # 0 THEN Nothing ELSE made[m]
  <2>1. c.at # 0 => c.op \in {"create", "rename"}
    BY DEF Enters
  <2> QED
    BY <1>1, <1>3, <2>1, DoneAt
<1>5. ASSUME NEW m \in Names, M[m].at # 0
      PROVE  M[m].at \in 1 .. N /\ Block(F, m, M[m].at) /\ IdAt(F, M[m].at) = M[m].id
  <2>1. CASE c.at # 0 /\ m = x
    <3>1. M[m].at = c.at /\ M[m].id = c.id
      BY <1>4, <2>1
    <3>2. c.at \in 1 .. N
      BY <2>1
    <3> QED
      BY <1>1, <2>1, <3>1, <3>2 DEF Enters
  <2>2. CASE ~(c.at # 0 /\ m = x)
    <3>1. M[m] = made[m] /\ (made[m].at # c.old \/ c.old = 0)
      BY <1>4, <1>5, <2>2 DEF Nothing
    <3>2. PICK g : g = made[m].at /\ g # 0 /\ g # c.old
      BY <1>5, <3>1
    <3>3. g \in 1 .. n /\ Block(f, m, g) /\ IdAt(f, g) = made[m].id
      BY <1>2, <3>2 DEF Settled
    <3>4. Block(F, m, g) /\ IdAt(F, g) = IdAt(f, g)
      BY <1>1, <3>2, <3>3 DEF KeepsBlocks
    <3>5. g \in 1 .. N
      BY <1>1, <3>3
    <3> QED
      BY <3>1, <3>2, <3>3, <3>4, <3>5
  <2> QED
    BY <2>1, <2>2
<1>6. ASSUME NEW h \in 1 .. N, F[h].kind = HeadKind PROVE \E m \in Names : M[m].at = h
  <2>1. CASE h = c.at
    <3>1. c.at # 0 /\ x \in Names
      BY <1>1, <2>1 DEF Enters
    <3>2. M[x].at = h
      BY <1>4, <2>1, <3>1
    <3> QED
      BY <3>1, <3>2
  <2>2. CASE h # c.at
    <3>1. h \in 1 .. n /\ f[h].kind = HeadKind /\ h # c.old
      BY <1>1, <1>6, <2>2 DEF Enters, NewHeads
    <3>2. PICK m \in Names : made[m].at = h
      BY <1>2, <3>1 DEF Settled
    <3>3. h # 0
      OBVIOUS
    <3>4. ~(c.at # 0 /\ m = x)
      <4>1. Block(f, m, h)
        BY <1>2, <3>2, <3>3 DEF Settled
      <4> QED
        BY <1>1, <3>1, <4>1 DEF Enters
    <3>5. M[m] = made[m]
      BY <1>4, <3>1, <3>2, <3>4
    <3> QED
      BY <3>2, <3>5
  <2> QED
    BY <2>1, <2>2
<1> QED
  BY <1>3, <1>5, <1>6 DEF Settled

LEMMA BeginInv ==
    ASSUME AtRest, NEW c, NEW q, Begin(c, q), objects' \in Nat, objects <= objects',
           NEW k, NEW s, Stretched(k, s), NEW P, NEW S, S \in {<<>>, <<Sync>>}, q = Steps(s, P, S),
           NEW N \in Nat, N = (k + s) * PerSector, PutsOK(table, N, P), \A j \in 1 .. Len(P) : EntryOK(P[j].entry)',
           NEW F, Finally(table, N, P, F), c.at \in 0 .. N, c.id \in 0 .. objects', KeepsHeads(F, c.old),
           pulls = 0 => Good(N, F) /\ KeepsBlocks(F, c.old) /\ Enters(N, F, c)
    PROVE  IInv'
<1>1. UNCHANGED <<fs_type, made, pulls>> /\ table' = table /\ todo' = q /\ call' = c /\ DiskMoves
  BY LookedMoves DEF Begin
<1>2. PICK n : n = table.len /\ Stretched(k, s)
  OBVIOUS
<1>3. PICK ln : StepsOK(table, q, ln) /\ Ends(q, ln) = N
  BY BeginSteps, SMTT(40) DEF Stretched
<1>4. Makes(table, q, N, F) /\ (q # <<>> => q[1] # Clear) /\ PutsTyped(q)'
  BY BeginSteps DEF Stretched
<1>5. TablesOK /\ objects \in Nat /\ MadeOK /\ pulls \in Nat
  BY DEF AtRest, Calm, TablesOK
<1>6. TablesOK'
  BY <1>1, <1>5, StillOK
<1>7. NewCluster(table, todo)'
  <2>1. \A i \in 1 .. table'.len : table'.slot[i].kind # "junk"
    BY <1>1 DEF AtRest, Calm
  <2> QED
    BY <1>1, <1>4, <2>1 DEF NewCluster
<1>8. MadeOK'
  <2>1. objects <= objects' /\ objects \in Nat /\ objects' \in Nat
    BY <1>5
  <2> QED
    BY <1>1, <1>5, <2>1 DEF MadeOK
<1>9. Reader(rd', table.len) /\ rd'.stay = rd.stay \ {c.old}
      /\ (rd'.at # 0 => rd'.at = rd.at /\ rd'.name = rd.name /\ rd.at # c.old /\ rd.at \in 1 .. table.len)
  BY Withdrawn
<1>10. Held(F)'
  <2>1. \A i \in rd'.stay : F[i].kind = HeadKind'
    <3> TAKE i \in rd'.stay
    <3>1. i \in rd.stay /\ i # c.old /\ i \in 1 .. table.len /\ table.slot[i].kind = HeadKind
      BY <1>9 DEF AtRest, Reader, Held
    <3> QED
      BY <1>1, <3>1, SameKinds DEF KeepsHeads
  <2>2. ASSUME pulls = 0, rd'.at # 0 PROVE Told(F, rd.at, rd.name)'
    <3>1. PICK h \in 1 .. table.len : h = rd.at /\ h = rd'.at /\ h # c.old
      BY <1>9, <2>2
    <3>2. PICK name : name = rd.name /\ name = rd'.name
      BY <1>9, <2>2
    <3>3. PICK m \in Names : Block(table.slot, m, h) /\ \E t : ReadText(table.slot, m, h, t) /\ name = NameOfText(t)
      <4>1. rd.at # 0
        BY <1>9, <2>2
      <4>2. Told(table.slot, h, name)
        BY <2>2, <3>1, <3>2, <4>1 DEF AtRest, Held
      <4> QED
        BY <4>2 DEF Told
    <3>4. Block(F, m, h) /\ (~ExFat => F[h].sfn = table.slot[h].sfn)
      BY <2>2, <3>1, <3>3 DEF KeepsBlocks
    <3>5. \A t : ReadText(table.slot, m, h, t) => ReadText(F, m, h, t)
      BY <3>4 DEF ReadText
    <3>6. Told(F, h, name)
      BY <3>3, <3>4, <3>5 DEF Told
    <3>7. Told(F, h, name)'
      BY <1>1, <3>6, SameTold
    <3> QED
      BY <3>1, <3>2, <3>7
  <2> QED
    BY <1>1, <2>1, <2>2 DEF Held
<1>11. pulls' = 0 => Good(N, F)'
  BY <1>1, SameGood
<1>12. pulls' = 0 => Settled(N, F, Done(call))'
  <2> SUFFICES ASSUME pulls = 0 PROVE Settled(N, F, Done(call))'
    BY <1>1
  <2>1. PICK M : M = Done(c) /\ Settled(N, F, M)
    <3>1. table.len \in Nat /\ table.len <= N
      BY RoomIs DEF AtRest
    <3>2. Settled(N, F, Done(c))
      BY <3>1, EnteredIs
    <3> QED
      BY <3>2
  <2>2. Settled(N, F, M)'
    BY <1>1, <2>1, SameSettled
  <2>3. Done(call)' = M
    BY <1>1, <2>1 DEF Done
  <2> QED
    BY <2>2, <2>3
<1>13. todo' # <<>>
  BY DEF Begin
<1>14. FinalOK(N, F)'
  BY <1>1, <1>10, <1>11, <1>12 DEF FinalOK
<1>15. Plan(table, todo, ln, F)' /\ FinalOK(Ends(todo, ln), F)'
  <2>1. StepsOK(table', todo', ln) /\ Makes(table', todo', N, F) /\ Ends(todo', ln) = N
    BY <1>1, <1>3, <1>4
  <2>2. PutsTyped(todo)'
    BY <1>1, <1>4
  <2> QED
    BY <1>7, <1>14, <2>1, <2>2 DEF Plan
<1>16. Reader(rd', table'.len) /\ call'.id \in 0 .. objects' /\ pulls' \in Nat
  BY <1>1, <1>5, <1>9
<1> QED
  BY <1>6, <1>8, <1>15, <1>16, <1>13 DEF IInv

(***************************************************************************)
(* What is made of the table by writing the entries of a name              *)
(***************************************************************************)
LEMMA BaseIs ==
    ASSUME Calm
    PROVE  /\ \A i \in 1 .. table.len : Base(table, i) = table.slot[i]
           /\ \A i \in Nat : i > table.len => Base(table, i) = Zero
<1>1. PICK n \in Nat : n = table.len
  BY PartsOf DEF Calm, TablesOK
<1>2. ASSUME NEW i \in 1 .. n PROVE Base(table, i) = table.slot[i]
  <2> SUFFICES ASSUME Blank(table, i) PROVE table.slot[i] = Zero
    BY DEF Base
  <2>1. table.slot[i].kind = "zero"
    BY <1>1 DEF Blank, Calm
  <2>2. EntryOK(table.slot[i])
    BY <1>1, Pos DEF Calm, TablesOK, Typed
  <2> QED
    BY <2>1, <2>2 DEF EntryOK
<1>3. \A i \in Nat : i > n => Base(table, i) = Zero
  BY <1>1 DEF Base, Blank
<1> QED
  BY <1>1, <1>2, <1>3
LEMMA GoodBase ==
    ASSUME GoodNow, NEW N \in Nat, table.len <= N, NEW B, \A i \in 1 .. N : B[i] = Base(table, i)
    PROVE  Good(N, B) /\ \A g \in 1 .. table.len : \A m \in Names : Block(table.slot, m, g) => Block(B, m, g)
<1>1. PICK f : f = table.slot
  OBVIOUS
<1>2. PICK n \in Nat : n = table.len /\ Good(n, f) /\ n <= N
  BY <1>1, NowIs DEF GoodNow
<1>3. (\A i \in 1 .. n : B[i] = f[i]) /\ \A i \in n + 1 .. N : B[i] = Zero
  BY <1>1, <1>2, BaseIs DEF GoodNow
<1>4. Good(N, B) /\ \A g \in 1 .. n : \A m \in Names : Block(f, m, g) => Block(B, m, g)
  BY <1>2, <1>3, GoodLonger
<1> QED
  BY <1>1, <1>2, <1>4

\* A name leads to none of the entries but o.
NoOther(n, o) == \A m, g : BlockNow(m, g) /\ Leads(n, m, g) => g = o
\* What B has of heads the table has, all but o.
FromNow(N, B, o) ==
    \A i \in 1 .. N :
        /\ B[i].kind = "lfn" => ~ExFat
        /\ B[i].kind = HeadKind => /\ i \in 1 .. table.len /\ i # o /\ B[i] = table.slot[i]
                                   /\ \E m : BlockNow(m, i) /\ Block(B, m, i)
AddsTo(N, B, F, start, E) ==
    /\ start \in Nat /\ start >= 1 /\ start + Len(E) - 1 <= N
    /\ \A i \in start .. start + Len(E) - 1 : B[i].kind \in {"zero", "gone"}
    /\ Written(F, start, E)
    /\ \A i \in 1 .. N : i \notin start .. start + Len(E) - 1 => F[i] = B[i]
LEMMA NoneBefore ==
    ASSUME NEW N \in Nat, NEW B, Owned(N, B), \A i \in 1 .. N : B[i].kind = "lfn" => ~ExFat,
           NEW start \in 1 .. N, B[start].kind \in {"zero", "gone"}
    PROVE  start = 1 \/ B[start - 1].kind # "lfn"
<1> SUFFICES ASSUME start # 1, B[start - 1].kind = "lfn" PROVE FALSE
  OBVIOUS
<1>1. PICK i \in 1 .. N : i = start - 1 /\ start = i + 1
  OBVIOUS
<1>2. ~ExFat /\ B[i].kind \in PartKinds
  BY <1>1 DEF PartKinds
<1>3. PICK h \in 1 .. N, n \in Names : Block(B, n, h) /\ i \in PartsAt(n, h)
  BY <1>2 DEF Owned
<1>4. /\ B[h].kind = HeadKind /\ \A j \in PartsAt(n, h) : B[j].kind \in PartKinds
      /\ i < h /\ i .. h - 1 \subseteq PartsAt(n, h)
  <2>1. h \in Nat
    OBVIOUS
  <2> QED
    BY <1>2, <1>3, <2>1, BlockKinds
<1>5. start = h \/ start \in i .. h - 1
  BY <1>1, <1>4
<1>6. B[start].kind \in {HeadKind} \union PartKinds
  BY <1>4, <1>5
<1> QED
  BY <1>6, KindsAre

LEMMA EntriesId ==
    ASSUME NEW n \in Names, NEW obj, NEW E, EntriesOK(E, n, obj), NEW start \in Nat, start >= 1, NEW F, Written(F, start, E),
           NEW h, h = HeadOf(start, E)
    PROVE  IdAt(F, h) = obj.id
<1>1. PICK p \in Nat : p = Pieces(n) /\ p >= 1
  BY NameIs
<1>2. CASE ExFat
  <2>1. Len(E) = p + 2 /\ E[2] = Stream(n.text, obj)
    BY <1>1, <1>2 DEF EntriesOK, EntriesEx
  <2>2. start + 1 \in start .. start + Len(E) - 1 /\ (start + 1) - start + 1 = 2
    BY <1>1, <2>1
  <2>3. F[start + 1] = E[2]
    BY <2>2 DEF Written
  <2>4. h = start /\ F[start + 1].obj = obj
    BY <1>2, <2>1, <2>3, EntryKinds DEF HeadOf
  <2> QED
    BY <1>2, <2>4 DEF IdAt
<1>3. CASE ~ExFat
  <2>1. PICK l \in Nat : l = Len(E) /\ l >= 1 /\ \E s : E[l] = Sfn(s, obj)
    <3>1. EntriesFat(E, n, obj)
      BY <1>3 DEF EntriesOK
    <3>2. CASE n.lfn
      <4>1. Len(E) = p + 1 /\ E[p + 1] = Sfn(Numbered(n), obj)
        BY <1>1, <3>1, <3>2 DEF EntriesFat
      <4>2. p + 1 \in Nat /\ p + 1 >= 1
        BY <1>1
      <4> QED
        BY <4>1, <4>2
    <3>3. CASE ~n.lfn
      BY <3>1, <3>3 DEF EntriesFat
    <3> QED
      BY <3>2, <3>3
  <2>2. h = start + l - 1
    BY <1>3, <2>1 DEF HeadOf
  <2>3. h \in start .. start + Len(E) - 1 /\ h - start + 1 = l
    BY <2>1, <2>2
  <2>4. F[h] = E[l]
    BY <2>3 DEF Written
  <2>5. F[h].obj = obj
    BY <2>1, <2>4, EntryKinds
  <2> QED
    BY <1>3, <2>5 DEF IdAt
<1> QED
  BY <1>2, <1>3

LEMMA NewBlock ==
    ASSUME GoodNow, NEW n \in Names, NumberLeft(n), NEW obj, NEW E, EntriesOK(E, n, obj), NEW N \in Nat, NEW B, Good(N, B), NEW o,
           FromNow(N, B, o), NEW start, NEW F, AddsTo(N, B, F, start, E), NoOther(n, o), NEW h, h = HeadOf(start, E)
    PROVE  Good(N, F) /\ OthersKept(N, B, F, h) /\ Block(F, n, h) /\ IdAt(F, h) = obj.id /\ NewHeads(N, F, o, h)
<1>1. Len(E) \in Nat /\ Len(E) >= 1
  BY EntriesShape
<1>2. /\ start \in Nat /\ start >= 1 /\ start + Len(E) - 1 <= N
      /\ \A i \in start .. start + Len(E) - 1 : B[i].kind \in {"zero", "gone"}
      /\ Written(F, start, E)
      /\ \A i \in 1 .. N : i \notin start .. start + Len(E) - 1 => F[i] = B[i]
  BY DEF AddsTo
<1>3. start \in 1 .. N /\ start \in start .. start + Len(E) - 1
  BY <1>1, <1>2
<1>4. start = 1 \/ F[start - 1].kind # "lfn"
  <2>1. start = 1 \/ B[start - 1].kind # "lfn"
    <3>1. Owned(N, B) /\ \A i \in 1 .. N : B[i].kind = "lfn" => ~ExFat
      BY DEF Good, FromNow
    <3> QED
      BY <1>2, <1>3, <3>1, NoneBefore
  <2>2. start # 1 => F[start - 1] = B[start - 1]
    <3>1. start # 1 => start - 1 \in 1 .. N /\ start - 1 \notin start .. start + Len(E) - 1
      BY <1>1, <1>2, <1>3
    <3> QED
      BY <1>2, <3>1
  <2> QED
    BY <2>1, <2>2
<1>5. /\ Block(F, n, h) /\ Span(n, h) = start .. start + Len(E) - 1 /\ h \in start .. start + Len(E) - 1
      /\ ~ExFat => F[h].sfn = Numbered(n)
  BY <1>2, <1>4, EntriesBlock
<1>6. h \in 1 .. N /\ Span(n, h) \subseteq 1 .. N
  BY <1>1, <1>2, <1>5
<1>7. Untouched(N, B, F, Span(n, h)) /\ \A i \in Span(n, h) : B[i].kind \in {"zero", "gone"}
  BY <1>2, <1>5 DEF Untouched
<1>8. Unclashed(N, B, F, n, h)
  <2> SUFFICES ASSUME NEW g \in 1 .. N, NEW m \in Names, g # h, Block(B, m, g), Clash(F, n, h, m, g) PROVE FALSE
    BY DEF Unclashed
  <2>1. B[g].kind = HeadKind
    BY BlockKinds
  <2>2. g \in 1 .. table.len /\ g # o /\ B[g] = table.slot[g]
    BY <2>1 DEF FromNow
  <2>3. PICK k : BlockNow(k, g) /\ Block(B, k, g)
    BY <2>1 DEF FromNow
  <2>4. k \in Names
    BY <2>3 DEF BlockNow
  <2>5. F[g] = B[g]
    <3>1. g \notin start .. start + Len(E) - 1
      BY <1>2, <2>1, KindsAre
    <3> QED
      BY <1>2, <3>1
  <2>6. Clash(F, n, h, k, g)
    <3>1. SameName(m, k)
      <4>1. g \in Nat /\ g > 0
        OBVIOUS
      <4> QED
        BY <2>3, <2>4, <4>1, BlockName
    <3>2. SameName(n, n)
      BY DEF SameName
    <3> QED
      BY <3>1, <3>2, SameClash
  <2>7. Leads(n, k, g)
    <3>1. CASE n.text = k.text /\ (ExFat \/ (n.lfn /\ k.lfn))
      BY <3>1 DEF Leads
    <3>2. CASE ~ExFat /\ F[h].sfn = F[g].sfn
      <4>1. table.slot[g].sfn = Numbered(n)
        BY <1>5, <2>2, <2>5, <3>2
      <4>2. g \in Kind(table, 1, "sfn")
        <5>1. g \in Heads(table)
          BY <2>3, NowIs
        <5> QED
          BY <3>2, <5>1 DEF Heads
      <4>3. ~n.lossy
        BY <3>2, <4>1, <4>2, NumberedIs
      <4> QED
        BY <3>2, <4>1, <4>3, NumberedIs DEF Leads
    <3> QED
      BY <2>6, <3>1, <3>2 DEF Clash
  <2> QED
    BY <2>2, <2>3, <2>7 DEF NoOther
<1>9. ASSUME NEW g \in 1 .. N, F[g].kind = HeadKind, g # h
      PROVE  g \in 1 .. table.len /\ table.slot[g].kind = HeadKind /\ g # o
  <2>1. g \notin start .. start + Len(E) - 1
    <3> SUFFICES ASSUME g \in start .. start + Len(E) - 1 PROVE FALSE
      OBVIOUS
    <3>1. g \in PartsAt(n, h)
      BY <1>5, <1>9 DEF Span
    <3>2. h \in Nat
      BY <1>6
    <3>3. F[g].kind \in PartKinds
      BY <1>5, <3>1, <3>2, BlockKinds
    <3> QED
      BY <1>9, <3>3, KindsAre
  <2>2. F[g] = B[g]
    BY <1>2, <2>1
  <2> QED
    BY <1>9, <2>2 DEF FromNow
<1>10. IdAt(F, h) = obj.id
  BY <1>2, EntriesId
<1> QED
  BY <1>5, <1>6, <1>7, <1>8, <1>9, <1>10, GoodAdd DEF NewHeads

(***************************************************************************)
(* The steps, as BeginInv takes them                                       *)
(***************************************************************************)
LEMMA OneSet ==
    ASSUME NEW p, IsSeq(p), NEW q, IsSeq(q), NEW r, IsSeq(r) PROVE \E S : p \in Seq(S) /\ q \in Seq(S) /\ r \in Seq(S)
<1>1. PICK A, B, C : p \in Seq(A) /\ q \in Seq(B) /\ r \in Seq(C)
  BY DEF IsSeq
<1>2. PICK S : S = A \union B \union C
  OBVIOUS
<1>3. A \subseteq S /\ B \subseteq S /\ C \subseteq S
  BY <1>2
<1> QED
  BY <1>1, <1>3, SeqWider
LEMMA StepsBe ==
    /\ \A P, S : IsSeq(P) => Steps(0, P, S) = P \o S
    /\ \A s \in Nat : Steps(s, <<>>, <<>>) = Stretch(s)
    /\ \A s \in Nat : \A P, R : IsSeq(P) /\ IsSeq(R) => (Stretch(s) \o P) \o R = Stretch(s) \o (P \o R)
<1>1. ASSUME NEW P, NEW S, IsSeq(P) PROVE Steps(0, P, S) = P \o S
  <2>1. Stretch(0) = <<>>
    BY DEF Stretch
  <2>2. PICK A : P \in Seq(A)
    BY <1>1 DEF IsSeq
  <2>3. <<>> \o P = P
    BY <2>2, ConcatEmptySeq
  <2> QED
    BY <2>1, <2>3 DEF Steps
<1>2. ASSUME NEW s \in Nat PROVE Steps(s, <<>>, <<>>) = Stretch(s)
  <2>1. PICK A : Stretch(s) \in Seq(A)
    BY StretchIs DEF IsSeq
  <2>2. Stretch(s) \o <<>> = Stretch(s)
    BY <2>1, ConcatEmptySeq
  <2> QED
    BY <2>2 DEF Steps
<1>3. ASSUME NEW s \in Nat, NEW P, NEW R, IsSeq(P), IsSeq(R) PROVE (Stretch(s) \o P) \o R = Stretch(s) \o (P \o R)
  <2>1. PICK q : q = Stretch(s) /\ IsSeq(q)
    BY StretchIs
  <2>2. PICK S : q \in Seq(S) /\ P \in Seq(S) /\ R \in Seq(S)
    BY <1>3, <2>1, OneSet
  <2>3. (q \o P) \o R = q \o (P \o R)
    BY <2>2, ConcatAssociative
  <2> QED
    BY <2>1, <2>3
<1> QED
  BY <1>1, <1>2, <1>3

\* dir_register: where the entries E of a name go, if there is room.
Registered(n, obj, E, k, s, ok, start) ==
    /\ Stretched(k, s) /\ ok \in BOOLEAN
    /\ Register(n, obj) = Stretch(s) \o (IF ok THEN PutFrom(start, E) ELSE <<>>)
    /\ RegisteredAt(n, obj) = IF ok THEN HeadOf(start, E) ELSE 0
    /\ ok => FreeRun(start, Len(E), (k + s) * PerSector)
LEMMA RegisterIs ==
    ASSUME AtRest, NEW n \in Names, NEW obj, NEW E, E = Entries(n, obj)
    PROVE  EntriesOK(E, n, obj) /\ \E k, s, ok, start : Registered(n, obj, E, k, s, ok, start)
<1>1. EntriesOK(E, n, obj)
  BY EntriesAre
<1>2. PICK e \in Nat : e = Len(E) /\ e >= 1
  BY <1>1, EntriesShape
<1>3. PICK a : a = Allocated(e)
  OBVIOUS
<1>4. PICK k, s : AllocOK(a, e, k, s)
  <2>1. Calm
    BY DEF AtRest
  <2> QED
    BY <1>2, <1>3, <2>1, AllocIs
<1>5. /\ Stretched(k, s) /\ a.ok \in BOOLEAN /\ a.steps = Stretch(s) /\ (a.ok => FreeRun(a.start, e, (k + s) * PerSector))
  BY <1>4 DEF AllocOK
<1>6. Register(n, obj) = Stretch(s) \o (IF a.ok THEN PutFrom(a.start, E) ELSE <<>>)
  BY <1>2, <1>3, <1>5 DEF Register
<1>7. RegisteredAt(n, obj) = IF a.ok THEN HeadOf(a.start, E) ELSE 0
  BY <1>2, <1>3 DEF RegisteredAt, HeadOf
<1>8. Registered(n, obj, E, k, s, a.ok, a.start)
  BY <1>2, <1>5, <1>6, <1>7 DEF Registered
<1> QED
  BY <1>1, <1>8

\* A run of free entries, and what is in it.
LEMMA RunFree ==
    ASSUME Calm, NEW N \in Nat, table.len <= N, NEW start, NEW E, IsSeq(E), Len(E) \in Nat, FreeRun(start, Len(E), N),
           \A j \in 1 .. Len(E) : E[j].kind \notin {"zero", "junk"}
    PROVE  /\ SegOK(table, N, start, E) /\ start \in Nat /\ start >= 1 /\ start + Len(E) - 1 <= N
           /\ \A i \in start .. start + Len(E) - 1 : Base(table, i).kind \in {"zero", "gone"}
<1>1. PICK n \in Nat : n = table.len
  BY PartsOf DEF Calm, TablesOK
<1>2. /\ start \in Nat /\ start >= 1 /\ start + Len(E) - 1 <= N
      /\ \A i \in 1 .. start - 1 : ~Blank(table, i)
      /\ \A i \in start .. start + Len(E) - 1 : i > n \/ Free(table.slot[i])
  BY <1>1 DEF FreeRun
<1>3. ASSUME NEW i \in start .. start + Len(E) - 1 PROVE Base(table, i).kind \in {"zero", "gone"}
  <2>1. i \in Nat /\ i >= 1
    BY <1>2
  <2>2. CASE i > n
    BY <1>1, <2>1, <2>2, BaseIs, EntryConst
  <2>3. CASE ~(i > n)
    <3>1. i \in 1 .. n /\ Free(table.slot[i])
      BY <1>2, <2>1, <2>3
    <3> QED
      BY <1>1, <3>1, BaseIs DEF Free
  <2> QED
    BY <2>2, <2>3
<1>4. SegOK(table, N, start, E)
  BY <1>2 DEF SegOK
<1> QED
  BY <1>2, <1>3, <1>4

LEMMA PutsShape ==
    ASSUME NEW E, IsSeq(E), NEW start \in Nat, NEW P, P = PutFrom(start, E), NEW obj, obj \in Objs', fs_type' = fs_type,
           \A k \in 1 .. Len(E) : EntryShape(E[k], obj) \/ E[k] = Gone
    PROVE  \A j \in 1 .. Len(P) : EntryOK(P[j].entry)'
<1>1. IsSeq(P) /\ Len(P) = Len(E) /\ Len(E) \in Nat /\ \A k \in 1 .. Len(E) : P[k] = Put(start + k - 1, E[k])
  BY PutFromIs
<1> TAKE j \in 1 .. Len(P)
<1>2. P[j].entry = E[j]
  BY <1>1, StepConst
<1>3. CASE EntryShape(E[j], obj)
  <2>1. PICK e : e = E[j]
    OBVIOUS
  <2>2. EntryOK(e)'
    BY <1>3, <2>1, ShapeOK
  <2> QED
    BY <1>2, <2>1, <2>2
<1>4. CASE E[j] = Gone
  <2>1. EntryOK(Gone)'
    BY DEF EntryOK, Gone
  <2> QED
    BY <1>2, <1>4, <2>1
<1> QED
  BY <1>1, <1>3, <1>4

(***************************************************************************)
(* f_open of a new file, f_mkdir                                           *)
(***************************************************************************)
\* There was no room: the table is longer, that is all.
LEMMA NoRoomInv ==
    ASSUME AtRest, NEW c, NEW q, Begin(c, q), objects' \in Nat, objects <= objects', NEW k, NEW s, Stretched(k, s),
           q = Steps(s, <<>>, <<>>), c.at = 0, c.old = 0, c.id \in 0 .. objects'
    PROVE  IInv'
<1>1. PICK N : N = (k + s) * PerSector
  OBVIOUS
<1>2. N \in Nat /\ table.len \in Nat /\ table.len <= N /\ Calm
  BY <1>1, RoomIs DEF AtRest
<1>3. PICK F : F = [i \in 1 .. N |-> Base(table, i)]
  OBVIOUS
<1>4. (\A i \in 1 .. N : F[i] = Base(table, i)) /\ \A i \in 1 .. table.len : F[i] = table.slot[i]
  BY <1>2, <1>3, BaseIs
<1>5. PutsOK(table, N, <<>>) /\ Finally(table, N, <<>>, F) /\ \A j \in 1 .. Len(<<>>) : EntryOK(<<>>[j].entry)'
  BY <1>2, <1>4, NoPuts, NoneFinal
<1>6. KeepsHeads(F, c.old)
  BY <1>4 DEF KeepsHeads
<1>7. ASSUME pulls = 0 PROVE Good(N, F) /\ KeepsBlocks(F, c.old) /\ Enters(N, F, c)
  <2>1. GoodNow
    BY <1>7 DEF AtRest, GoodNow
  <2>2. Good(N, F) /\ \A g \in 1 .. table.len : \A m \in Names : Block(table.slot, m, g) => Block(F, m, g)
    BY <1>2, <1>4, <2>1, GoodBase
  <2>3. KeepsBlocks(F, c.old)
    <3> SUFFICES ASSUME NEW g \in 1 .. table.len, NEW m \in Names, Block(table.slot, m, g)
                 PROVE  Block(F, m, g) /\ F[g].sfn = table.slot[g].sfn /\ IdAt(F, g) = IdAt(table.slot, g)
      BY DEF KeepsBlocks
    <3>1. PICK f : f = table.slot
      OBVIOUS
    <3>2. Block(F, m, g) /\ F[g] = f[g]
      BY <1>4, <2>2, <3>1
    <3>3. IdAt(F, g) = IdAt(f, g)
      BY <3>1, <3>2, SameId
    <3> QED
      BY <3>1, <3>2, <3>3
  <2>4. NewHeads(N, F, c.old, c.at)
    <3> SUFFICES ASSUME NEW g \in 1 .. N, F[g].kind = HeadKind PROVE g \in 1 .. table.len /\ table.slot[g].kind = HeadKind /\ g # 0
      BY DEF NewHeads
    <3>1. g \in 1 .. table.len
      <4> SUFFICES ASSUME g > table.len PROVE FALSE
        BY <1>2
      <4>1. F[g] = Zero
        BY <1>2, <1>4, BaseIs
      <4> QED
        BY <4>1, EntryConst, KindsAre
    <3> QED
      BY <1>4, <3>1
  <2> QED
    BY <2>2, <2>3, <2>4 DEF Enters
<1>8. c.at \in 0 .. N
  BY <1>2
<1> QED
  BY <1>1, <1>2, <1>5, <1>6, <1>7, <1>8, BeginInv

LEMMA LeadsSelf == ASSUME GoodNow, NEW n, NEW h, BlockNow(n, h) PROVE Leads(n, n, h)
<1>1. CASE ExFat
  BY <1>1 DEF Leads
<1>2. CASE ~ExFat
  <2>1. n \in Names /\ (~n.lossy => table.slot[h].sfn = n.sfn)
    BY <1>2, FatReads DEF BlockNow
  <2>2. n.lfn \in BOOLEAN /\ n.lossy \in BOOLEAN /\ (n.lossy => n.lfn)
    BY <2>1, NameIs
  <2> QED
    BY <1>2, <2>1, <2>2 DEF Leads
<1> QED
  BY <1>1, <1>2

LEMMA Overwrite ==
    ASSUME NEW N \in Nat, NEW B, NEW start \in Nat, start >= 1, NEW E, Len(E) \in Nat, start + Len(E) - 1 <= N
    PROVE  \E F : Written(F, start, E) /\ \A i \in 1 .. N : i \notin start .. start + Len(E) - 1 => F[i] = B[i]
<1>1. PICK F : F = [i \in 1 .. N |-> IF i \in start .. start + Len(E) - 1 THEN E[i - start + 1] ELSE B[i]]
  OBVIOUS
<1>2. \A i \in start .. start + Len(E) - 1 : i \in 1 .. N
  OBVIOUS
<1>3. Written(F, start, E)
  BY <1>1, <1>2 DEF Written
<1>4. \A i \in 1 .. N : i \notin start .. start + Len(E) - 1 => F[i] = B[i]
  BY <1>1
<1> QED
  BY <1>3, <1>4

\* The table as it is, and stretched.
LEMMA NowFrom ==
    ASSUME GoodNow, NEW N \in Nat, table.len <= N, NEW B, \A i \in 1 .. N : B[i] = Base(table, i) PROVE FromNow(N, B, 0)
<1>1. PICK n \in Nat : n = table.len /\ Calm
  BY NowIs DEF GoodNow
<1> SUFFICES ASSUME NEW i \in 1 .. N
             PROVE  /\ B[i].kind = "lfn" => ~ExFat
                    /\ B[i].kind = HeadKind => /\ i \in 1 .. table.len /\ i # 0 /\ B[i] = table.slot[i]
                                               /\ \E m : BlockNow(m, i) /\ Block(B, m, i)
  BY DEF FromNow
<1>2. CASE i \notin 1 .. n
  <2>1. B[i] = Zero
    BY <1>1, <1>2, BaseIs
  <2> QED
    BY <2>1, EntryConst, KindsAre
<1>3. CASE i \in 1 .. n
  <2>1. B[i] = table.slot[i]
    BY <1>1, <1>3, BaseIs
  <2>2. B[i].kind = "lfn" => ~ExFat
    <3>1. EntryOK(table.slot[i])
      BY <1>1, <1>3, Pos DEF Calm, TablesOK, Typed
    <3> QED
      BY <2>1, <3>1 DEF EntryOK, HeadKind, PartKinds
  <2>3. ASSUME B[i].kind = HeadKind PROVE \E m : BlockNow(m, i) /\ Block(B, m, i)
    <3>1. i \in Heads(table)
      BY <1>1, <1>3, <2>1, <2>3, NowIs
    <3>2. PICK m : BlockNow(m, i)
      BY <3>1, NowIs
    <3> QED
      BY <3>2, GoodBase DEF BlockNow
  <2> QED
    BY <1>1, <1>3, <2>1, <2>2, <2>3
<1> QED
  BY <1>2, <1>3

LEMMA CreateInv == ASSUME AtRest, NEW n \in Names, NEW sync \in BOOLEAN, Create(n, sync) PROVE IInv'
<1>1. PICK obj : obj = [id |-> objects + 1, ver |-> 0]
  OBVIOUS
<1>2. PICK at, c, q, S : /\ at = RegisteredAt(n, obj) /\ c = [Idle EXCEPT !.op = "create", !.name = n, !.at = at, !.id = obj.id]
                         /\ S = (IF sync /\ at # 0 THEN <<Sync>> ELSE <<>>) /\ q = Register(n, obj) \o S
  OBVIOUS
<1>3. Begin(c, q) /\ Find(table, n) = 0 /\ NumberLeft(n) /\ objects' = objects + 1
  BY <1>1, <1>2 DEF Create
<1>4. objects \in Nat /\ objects' \in Nat /\ objects <= objects' /\ objects + 1 \in 0 .. objects' /\ fs_type' = fs_type
  BY <1>3 DEF AtRest, Calm, TablesOK, Begin
<1>5. c.old = 0 /\ c.at = at /\ c.id \in 0 .. objects' /\ obj \in Objs'
  BY <1>1, <1>2, <1>4 DEF Idle, Objs
<1>6. PICK E : E = Entries(n, obj) /\ EntriesOK(E, n, obj)
  BY EntriesAre
<1>7. PICK k, s, ok, start : Registered(n, obj, E, k, s, ok, start)
  BY <1>6, RegisterIs
<1>8. /\ Stretched(k, s) /\ ok \in BOOLEAN
      /\ Register(n, obj) = Stretch(s) \o (IF ok THEN PutFrom(start, E) ELSE <<>>)
      /\ at = IF ok THEN HeadOf(start, E) ELSE 0
      /\ ok => FreeRun(start, Len(E), (k + s) * PerSector)
  BY <1>2, <1>7 DEF Registered
<1>9. CASE ~ok
  <2>1. at = 0 /\ S = <<>> /\ q = Steps(s, <<>>, <<>>)
    BY <1>2, <1>8, <1>9 DEF Steps
  <2> QED
    BY <1>3, <1>4, <1>5, <1>8, <2>1, NoRoomInv
<1>10. CASE ok
  <2>1. PICK N : N = (k + s) * PerSector
    OBVIOUS
  <2>2. N \in Nat /\ table.len \in Nat /\ table.len <= N /\ Calm
    BY <1>8, <2>1, RoomIs DEF AtRest
  <2>3. IsSeq(E) /\ Len(E) \in Nat /\ Len(E) >= 1 /\ \A j \in 1 .. Len(E) : EntryShape(E[j], obj)
    BY <1>6, EntriesShape DEF EntriesOK
  <2>4. \A j \in 1 .. Len(E) : E[j].kind \notin {"zero", "junk"}
    BY <2>3, KindsAre DEF EntryShape
  <2>5. /\ SegOK(table, N, start, E) /\ start \in Nat /\ start >= 1 /\ start + Len(E) - 1 <= N
        /\ \A i \in start .. start + Len(E) - 1 : Base(table, i).kind \in {"zero", "gone"}
    BY <1>8, <1>10, <2>1, <2>2, <2>3, <2>4, RunFree
  <2>6. PICK B : \A i \in 1 .. N : B[i] = Base(table, i)
    <3>1. PICK B : B = [i \in 1 .. N |-> Base(table, i)]
      OBVIOUS
    <3>2. \A i \in 1 .. N : B[i] = Base(table, i)
      BY <3>1
    <3> QED
      BY <3>2
  <2>7. PICK F : Written(F, start, E) /\ \A i \in 1 .. N : i \notin start .. start + Len(E) - 1 => F[i] = B[i]
    BY <2>2, <2>3, <2>5, Overwrite
  <2>8. /\ \A i \in 1 .. N : i \notin start .. start + Len(E) - 1 => F[i] = Base(table, i)
        /\ \A i \in start .. start + Len(E) - 1 : i \in 1 .. N
    BY <2>2, <2>3, <2>5, <2>6, <2>7
  <2>9. PICK P : P = PutFrom(start, E)
    OBVIOUS
  <2>10. PutsOK(table, N, P) /\ Finally(table, N, P, F) /\ \A j \in 1 .. Len(P) : EntryOK(P[j].entry)'
    <3>1. PutsOK(table, N, P)
      BY <2>2, <2>5, <2>9, SegPuts
    <3>2. Finally(table, N, P, F)
      <4>1. \A i \in 1 .. N : i \notin Cells(start, E) => F[i] = Base(table, i)
        BY <2>8 DEF Cells
      <4> QED
        BY <2>2, <2>3, <2>5, <2>7, <2>9, <4>1, OneFinal
    <3>3. \A j \in 1 .. Len(P) : EntryOK(P[j].entry)'
      BY <1>4, <1>5, <2>3, <2>5, <2>9, PutsShape
    <3> QED
      BY <3>1, <3>2, <3>3
  <2>11. PICK h : h = HeadOf(start, E) /\ h \in start .. start + Len(E) - 1 /\ h = at
    BY <1>8, <1>10, <2>3, <2>5 DEF HeadOf
  <2>12. c.at \in 0 .. N /\ h \in 1 .. N
    BY <1>5, <2>8, <2>11
  <2>13. ASSUME NEW i \in 1 .. table.len, table.slot[i].kind = HeadKind PROVE i \in 1 .. N /\ i # h /\ F[i] = table.slot[i]
    <3>1. i \in 1 .. N /\ Base(table, i) = table.slot[i]
      BY <2>2, BaseIs
    <3>2. i \notin start .. start + Len(E) - 1
      BY <2>5, <2>13, <3>1, KindsAre
    <3> QED
      BY <2>8, <2>11, <3>1, <3>2
  <2>14. KeepsHeads(F, c.old)
    BY <2>13 DEF KeepsHeads
  <2>15. ASSUME pulls = 0 PROVE Good(N, F) /\ KeepsBlocks(F, c.old) /\ Enters(N, F, c)
    <3>1. GoodNow
      BY <2>15 DEF AtRest, GoodNow
    <3>2. Good(N, B) /\ \A g \in 1 .. table.len : \A m \in Names : Block(table.slot, m, g) => Block(B, m, g)
      BY <2>2, <2>6, <3>1, GoodBase
    <3>3. FromNow(N, B, 0)
      BY <2>2, <2>6, <3>1, NowFrom
    <3>4. NoOther(n, 0)
      BY <1>3, <3>1, FindGood DEF NoOther
    <3>5. AddsTo(N, B, F, start, E)
      BY <2>5, <2>6, <2>8, <2>7 DEF AddsTo
    <3>6. Good(N, F) /\ OthersKept(N, B, F, h) /\ Block(F, n, h) /\ IdAt(F, h) = obj.id /\ NewHeads(N, F, 0, h)
      <4>1. NumberLeft(n) /\ EntriesOK(E, n, obj) /\ N \in Nat /\ h = HeadOf(start, E) /\ Good(N, B)
        BY <1>3, <1>6, <2>2, <2>11, <3>2
      <4>2. NumberLeft(n) /\ EntriesOK(E, n, obj) /\ N \in Nat /\ h = HeadOf(start, E) /\ Good(N, B)
            /\ FromNow(N, B, 0) /\ NoOther(n, 0) /\ AddsTo(N, B, F, start, E)
        BY <3>3, <3>4, <3>5, <4>1
      <4> QED
        BY <3>1, <4>2, NewBlock
    <3>7. KeepsBlocks(F, c.old)
      <4> SUFFICES ASSUME NEW g \in 1 .. table.len, NEW m \in Names, Block(table.slot, m, g)
                   PROVE  Block(F, m, g) /\ F[g].sfn = table.slot[g].sfn /\ IdAt(F, g) = IdAt(table.slot, g)
        BY DEF KeepsBlocks
      <4>1. table.slot[g].kind = HeadKind
        <5>1. g \in Nat
          BY <2>2
        <5> QED
          BY <5>1, BlockKinds
      <4>2. g \in 1 .. N /\ g # h /\ F[g] = table.slot[g]
        BY <2>13, <4>1
      <4>3. Block(F, m, g)
        BY <3>2, <3>6, <4>2 DEF OthersKept
      <4>4. PICK f : f = table.slot
        OBVIOUS
      <4>5. IdAt(F, g) = IdAt(f, g)
        BY <4>2, <4>3, <4>4, SameId
      <4> QED
        BY <4>2, <4>3, <4>4, <4>5
    <3>8. ASSUME NEW g \in 1 .. table.len, Block(table.slot, n, g) PROVE g = 0
      <4>1. BlockNow(n, g)
        BY <3>8 DEF BlockNow
      <4>2. Leads(n, n, g)
        BY <3>1, <4>1, LeadsSelf
      <4> QED
        BY <3>4, <4>1, <4>2 DEF NoOther
    <3>9. c.op = "create" /\ NameOf(c) = n /\ c.at = h /\ c.id = obj.id /\ c.old = 0
      BY <1>2, <1>5, <2>11 DEF Idle, NameOf
    <3>10. Enters(N, F, c)
      BY <3>6, <3>8, <3>9 DEF Enters
    <3> QED
      BY <3>6, <3>7, <3>10
  <2>16. q = Steps(s, P, S) /\ S \in {<<>>, <<Sync>>}
    BY <1>2, <1>8, <1>10, <2>9 DEF Steps
  <2> QED
    BY <1>3, <1>4, <1>5, <1>8, <2>1, <2>2, <2>10, <2>12, <2>14, <2>15, <2>16, BeginInv
<1> QED
  BY <1>8, <1>9, <1>10

(***************************************************************************)
(* f_unlink, f_rmdir                                                       *)
(***************************************************************************)
\* The block at i is a run of entries, and what dir_remove makes of it.
RemoveOK(i, b, G) ==
    /\ IsSeq(G) /\ Len(G) \in Nat /\ Len(G) >= 1 /\ b \in Nat /\ b >= 1 /\ b + Len(G) - 1 <= table.len
    /\ i \in b .. b + Len(G) - 1 /\ BlockEnd(table, i) = b + Len(G) - 1 /\ BlockStart(table, i) = b
    /\ Remove(i) = PutFrom(b, G)
    /\ \A j \in 1 .. Len(G) : G[j] = Gone
    /\ \A j \in b .. b + Len(G) - 1 : j # i => table.slot[j].kind \in PartKinds
    /\ table.slot[i].kind = HeadKind
LEMMA RemoveIs ==
    ASSUME Calm, NEW n, NEW i, i = Find(table, n), i > 0 PROVE \E b, G : RemoveOK(i, b, G)
<1>1. /\ i \in 1 .. table.len /\ table.slot[i].kind = HeadKind
      /\ RunAt(BlockStart(table, i), BlockEnd(table, i), i)
  BY BlockRun
<1>2. PICK b \in Nat, e \in Nat : /\ b = BlockStart(table, i) /\ e = BlockEnd(table, i)
                                  /\ 1 <= b /\ b <= i /\ i <= e /\ e <= table.len
                                  /\ \A j \in b .. e : j # i => table.slot[j].kind \in PartKinds
  BY <1>1 DEF RunAt
<1>3. PICK m \in Nat : m = e - b + 1 /\ m >= 1 /\ b + m - 1 = e
  <2>1. i \in Nat /\ b <= e
    BY <1>1, <1>2
  <2> QED
    BY <1>2, <2>1
<1>4. PICK G : G = [k \in 1 .. m |-> Gone]
  OBVIOUS
<1>5. IsSeq(G) /\ Len(G) = m /\ \A j \in 1 .. m : G[j] = Gone
  <2>1. G = [k \in 1 .. m |-> G[k]]
    BY <1>4
  <2> QED
    BY <1>4, <2>1, SeqOf
<1>6. Remove(i) = PutFrom(b, G)
  <2>1. Remove(i) = [k \in 1 .. m |-> Put(b + k - 1, Gone)]
    BY <1>2, <1>3 DEF Remove
  <2>2. PutFrom(b, G) = [k \in 1 .. m |-> Put(b + k - 1, G[k])]
    BY <1>5 DEF PutFrom
  <2> QED
    BY <1>5, <2>1, <2>2
<1>7. i \in b .. b + m - 1 /\ b + m - 1 <= table.len /\ \A j \in b .. b + m - 1 : j # i => table.slot[j].kind \in PartKinds
  BY <1>1, <1>2, <1>3
<1>8. RemoveOK(i, b, G)
  BY <1>1, <1>2, <1>3, <1>5, <1>6, <1>7 DEF RemoveOK
<1> QED
  BY <1>8
LEMMA RemovePuts ==
    ASSUME Calm, NEW i, NEW b, NEW G, RemoveOK(i, b, G), NEW N \in Nat, table.len <= N PROVE SegOK(table, N, b, G)
<1>1. PICK n \in Nat : n = table.len /\ ZeroLast(table)
  BY PartsOf DEF Calm, TablesOK
<1>2. ASSUME NEW j \in 1 .. b - 1 PROVE ~Blank(table, j)
  <2>1. j \in 1 .. n /\ i \in 1 .. n /\ j < i
    BY <1>1 DEF RemoveOK
  <2>2. table.slot[i].kind \notin {"zero", "junk"}
    BY KindsAre DEF RemoveOK
  <2>3. table.slot[j].kind # "zero"
    BY <1>1, <2>1, <2>2 DEF ZeroLast
  <2>4. table.slot[j].kind # "junk"
    BY <1>1, <2>1 DEF Calm
  <2> QED
    BY <1>1, <2>1, <2>3, <2>4 DEF Blank
<1>3. b + Len(G) - 1 <= N /\ b \in Nat /\ b >= 1 /\ IsSeq(G)
  BY <1>1 DEF RemoveOK
<1>4. \A j \in 1 .. Len(G) : G[j].kind \notin {"zero", "junk"}
  BY EntryConst DEF RemoveOK
<1> QED
  BY <1>2, <1>3, <1>4 DEF SegOK

\* The block of a name, in a sound table, is the block that is removed.
LEMMA RemovedBlock ==
    ASSUME GoodNow, NEW n, NEW i, i = Find(table, n), i > 0, NEW b, NEW G, RemoveOK(i, b, G)
    PROVE  \E m : BlockNow(m, i) /\ Leads(n, m, i) /\ Span(m, i) = b .. b + Len(G) - 1
<1>1. PICK m : BlockNow(m, i) /\ Leads(n, m, i)
  BY FindGood
<1>2. Span(m, i) = BlockStart(table, i) .. BlockEnd(table, i)
  <2>1. ExFat => Span(m, i) = BlockStart(table, i) .. BlockEnd(table, i)
    BY <1>1, ExReads
  <2>2. ~ExFat => Span(m, i) = BlockStart(table, i) .. BlockEnd(table, i)
    BY <1>1, FatReads
  <2> QED
    BY <2>1, <2>2
<1>3. Span(m, i) = b .. b + Len(G) - 1
  BY <1>2 DEF RemoveOK
<1> QED
  BY <1>1, <1>3
LEMMA Dropped ==
    ASSUME GoodNow, NEW n, NEW i, i = Find(table, n), i > 0, NEW b, NEW G, RemoveOK(i, b, G),
           NEW N \in Nat, table.len <= N, NEW B, \A j \in 1 .. N : B[j] = Base(table, j),
           NEW D, Written(D, b, G), \A j \in 1 .. N : j \notin b .. b + Len(G) - 1 => D[j] = B[j]
    PROVE  /\ Good(N, D) /\ FromNow(N, D, i)
           /\ \A g \in 1 .. table.len : \A m \in Names : g # i /\ Block(table.slot, m, g) => Block(D, m, g)
<1>1. PICK m : BlockNow(m, i) /\ Span(m, i) = b .. b + Len(G) - 1
  BY RemovedBlock
<1>2. m \in Names /\ i \in 1 .. table.len /\ Block(table.slot, m, i)
  BY <1>1 DEF BlockNow
<1>3. PICK l \in Nat : l = table.len
  BY NowIs
<1>4. Good(N, B) /\ \A g \in 1 .. table.len : \A k \in Names : Block(table.slot, k, g) => Block(B, k, g)
  BY GoodBase
<1>5. FromNow(N, B, 0)
  BY NowFrom
<1>6. \A j \in b .. b + Len(G) - 1 : D[j] = Gone
  <2> TAKE j \in b .. b + Len(G) - 1
  <2>1. b \in Nat /\ Len(G) \in Nat
    BY DEF RemoveOK
  <2>2. j - b + 1 \in 1 .. Len(G)
    BY <2>1
  <2> QED
    BY <2>2 DEF Written, RemoveOK
<1>7. i \in 1 .. N /\ Block(B, m, i)
  BY <1>2, <1>3, <1>4
<1>8. Untouched(N, B, D, Span(m, i)) /\ \A j \in Span(m, i) : D[j] = Gone
  BY <1>1, <1>6 DEF Untouched
<1>9. Good(N, D) /\ OthersKept(N, B, D, i)
  BY <1>2, <1>4, <1>7, <1>8, GoodDrop
<1>10. ASSUME NEW g \in 1 .. table.len, NEW k \in Names, g # i, Block(table.slot, k, g) PROVE Block(D, k, g)
  <2>1. g \in 1 .. N
    BY <1>3
  <2> QED
    BY <1>4, <1>9, <1>10, <2>1 DEF OthersKept
<1>11. FromNow(N, D, i)
  <2> SUFFICES ASSUME NEW j \in 1 .. N
               PROVE  /\ D[j].kind = "lfn" => ~ExFat
                      /\ D[j].kind = HeadKind => /\ j \in 1 .. table.len /\ j # i /\ D[j] = table.slot[j]
                                                 /\ \E k : BlockNow(k, j) /\ Block(D, k, j)
    BY DEF FromNow
  <2>1. CASE j \in b .. b + Len(G) - 1
    BY <1>6, <2>1, EntryConst, KindsAre
  <2>2. CASE j \notin b .. b + Len(G) - 1
    <3>1. D[j] = B[j] /\ j # i
      BY <2>2 DEF RemoveOK
    <3>2. B[j].kind = "lfn" => ~ExFat
      BY <1>5 DEF FromNow
    <3>3. ASSUME B[j].kind = HeadKind PROVE j \in 1 .. table.len /\ B[j] = table.slot[j] /\ \E k : BlockNow(k, j) /\ Block(D, k, j)
      <4>1. j \in 1 .. table.len /\ B[j] = table.slot[j]
        BY <1>5, <3>3 DEF FromNow
      <4>2. PICK k : BlockNow(k, j)
        BY <1>5, <3>3 DEF FromNow
      <4> QED
        BY <1>10, <3>1, <4>1, <4>2 DEF BlockNow
    <3> QED
      BY <3>1, <3>2, <3>3
  <2> QED
    BY <2>1, <2>2
<1> QED
  BY <1>9, <1>10, <1>11

LEMMA DeleteInv == ASSUME AtRest, NEW n \in Names, Delete(n) PROVE IInv'
<1>1. PICK i : i = Find(table, n)
  OBVIOUS
<1>2. PICK c, q : c = [Idle EXCEPT !.op = "delete", !.name = n, !.old = i] /\ q = Remove(i) \o <<Sync>>
  OBVIOUS
<1>3. i > 0 /\ Begin(c, q) /\ objects' = objects /\ Calm
  BY <1>1, <1>2 DEF Delete, AtRest
<1>4. objects \in Nat /\ objects' \in Nat /\ objects <= objects' /\ fs_type' = fs_type
  BY <1>3 DEF Calm, TablesOK, Begin
<1>5. c.old = i /\ c.at = 0 /\ c.id = 0
  BY <1>2 DEF Idle
<1>6. PICK b, G : RemoveOK(i, b, G)
  BY <1>1, <1>3, RemoveIs
<1>7. /\ IsSeq(G) /\ Len(G) \in Nat /\ Len(G) >= 1 /\ b \in Nat /\ b >= 1 /\ b + Len(G) - 1 <= table.len
      /\ i \in b .. b + Len(G) - 1 /\ Remove(i) = PutFrom(b, G) /\ (\A j \in 1 .. Len(G) : G[j] = Gone)
      /\ \A j \in b .. b + Len(G) - 1 : j # i => table.slot[j].kind \in PartKinds
  BY <1>6 DEF RemoveOK
<1>8. PICK k : Stretched(k, 0)
  BY <1>3, Nums DEF Calm, TablesOK, Shaped, Lens, Stretched
<1>9. PICK N : N = (k + 0) * PerSector
  OBVIOUS
<1>10. N \in Nat /\ N = table.len
  <2>1. k \in Nat /\ k + 0 = k /\ table.len = k * PerSector
    BY <1>8 DEF Stretched
  <2>2. table.len \in Nat
    BY <1>3, PartsOf DEF Calm, TablesOK
  <2> QED
    BY <1>9, <2>1, <2>2
<1>11. PICK F : Written(F, b, G) /\ \A j \in 1 .. N : j \notin b .. b + Len(G) - 1 => F[j] = table.slot[j]
  <2>1. PICK f : f = table.slot
    OBVIOUS
  <2>2. b \in Nat /\ b >= 1 /\ Len(G) \in Nat /\ N \in Nat /\ b + Len(G) - 1 <= N
    BY <1>7, <1>10
  <2>3. \E F : Written(F, b, G) /\ \A j \in 1 .. N : j \notin b .. b + Len(G) - 1 => F[j] = f[j]
    BY <2>2, Overwrite
  <2> QED
    BY <2>1, <2>3
<1>12. PICK P : P = PutFrom(b, G)
  OBVIOUS
<1>13. PutsOK(table, N, P) /\ \A j \in 1 .. Len(P) : EntryOK(P[j].entry)'
  <2>1. table.len <= N
    BY <1>10
  <2>2. PutsOK(table, N, P)
    BY <1>3, <1>6, <1>10, <1>12, <2>1, RemovePuts, SegPuts
  <2>3. PICK obj : obj \in Objs'
    <3>1. PICK obj : obj = [id |-> 0, ver |-> 0]
      OBVIOUS
    <3>2. 0 \in 0 .. objects' /\ 0 \in {0, 1}
      BY <1>4
    <3>3. obj \in Objs'
      BY <3>1, <3>2 DEF Objs
    <3> QED
      BY <3>3
  <2> QED
    BY <1>4, <1>7, <1>12, <2>2, <2>3, PutsShape
<1>14. \A j \in 1 .. N : Base(table, j) = table.slot[j]
  BY <1>3, <1>10, BaseIs
<1>15. Finally(table, N, P, F)
  <2>1. \A j \in 1 .. N : j \notin Cells(b, G) => F[j] = Base(table, j)
    BY <1>11, <1>14 DEF Cells
  <2> QED
    BY <1>7, <1>10, <1>11, <1>12, <2>1, OneFinal
<1>16. ASSUME NEW j \in 1 .. table.len, table.slot[j].kind = HeadKind, j # i PROVE F[j] = table.slot[j]
  <2>1. j \notin b .. b + Len(G) - 1
    BY <1>7, <1>16, KindsAre
  <2> QED
    BY <1>10, <1>11, <2>1
<1>17. KeepsHeads(F, c.old)
  BY <1>5, <1>16 DEF KeepsHeads
<1>18. ASSUME pulls = 0 PROVE Good(N, F) /\ KeepsBlocks(F, c.old) /\ Enters(N, F, c)
  <2>1. GoodNow
    BY <1>18 DEF AtRest, GoodNow
  <2>2. table.len <= N /\ \A j \in 1 .. N : table.slot[j] = Base(table, j)
    BY <1>10, <1>14
  <2>3. /\ Good(N, F) /\ FromNow(N, F, i)
        /\ \A g \in 1 .. table.len : \A m \in Names : g # i /\ Block(table.slot, m, g) => Block(F, m, g)
    BY <1>1, <1>3, <1>6, <1>10, <1>11, <2>1, <2>2, Dropped
  <2>4. ASSUME NEW g \in 1 .. table.len, NEW m \in Names, g # i, Block(table.slot, m, g)
        PROVE  Block(F, m, g) /\ F[g].sfn = table.slot[g].sfn /\ IdAt(F, g) = IdAt(table.slot, g)
    <3>1. g \in Nat
      BY <1>10
    <3>2. table.slot[g].kind = HeadKind
      BY <2>4, <3>1, BlockKinds
    <3>3. PICK f : f = table.slot
      OBVIOUS
    <3>4. Block(F, m, g) /\ F[g] = f[g]
      BY <1>16, <2>3, <2>4, <3>2, <3>3
    <3>5. IdAt(F, g) = IdAt(f, g)
      BY <2>4, <3>3, <3>4, SameId
    <3> QED
      BY <3>3, <3>4, <3>5
  <2>5. NewHeads(N, F, i, 0)
    <3> SUFFICES ASSUME NEW g \in 1 .. N, F[g].kind = HeadKind
                 PROVE  g \in 1 .. table.len /\ table.slot[g].kind = HeadKind /\ g # i
      BY DEF NewHeads
    <3> QED
      BY <2>3 DEF FromNow
  <2>6. KeepsBlocks(F, c.old)
    BY <1>5, <2>4 DEF KeepsBlocks
  <2>7. Enters(N, F, c)
    BY <1>5, <2>5 DEF Enters
  <2> QED
    BY <2>3, <2>6, <2>7
<1>19. q = Steps(0, P, <<Sync>>)
  <2>1. IsSeq(P)
    BY <1>7, <1>12, PutFromIs
  <2> QED
    BY <1>2, <1>7, <1>12, <2>1, StepsBe
<1>20. c.at \in 0 .. N /\ c.id \in 0 .. objects' /\ <<Sync>> \in {<<>>, <<Sync>>}
  BY <1>4, <1>5, <1>10
<1> QED
  BY <1>3, <1>4, <1>8, <1>9, <1>10, <1>13, <1>15, <1>17, <1>18, <1>19, <1>20, BeginInv

(***************************************************************************)
(* f_rename                                                                *)
(***************************************************************************)
\* The table B, without the block at b (D), and then with the entries E at start (F).
Swapped(N, B, D, F, b, G, start, E) ==
    /\ \A j \in Cells(b, G) : j \notin Cells(start, E)
    /\ Written(D, b, G) /\ \A j \in 1 .. N : j \notin Cells(b, G) => D[j] = B[j]
    /\ Written(F, start, E) /\ \A j \in 1 .. N : j \notin Cells(start, E) => F[j] = D[j]
    /\ Written(F, b, G)
FreeAt(N, start, E) ==
    /\ SegOK(table, N, start, E) /\ Len(E) \in Nat /\ start \in Nat /\ start >= 1 /\ start + Len(E) - 1 <= N
    /\ \A j \in start .. start + Len(E) - 1 : Base(table, j).kind \in {"zero", "gone"}
LEMMA BlockFull ==
    ASSUME Calm, NEW i, NEW b, NEW G, RemoveOK(i, b, G), NEW j \in Cells(b, G)
    PROVE  j \in 1 .. table.len /\ Base(table, j) = table.slot[j] /\ table.slot[j].kind \in {HeadKind} \union PartKinds
           /\ (table.slot[j].kind = HeadKind => j = i)
<1>1. PICK n \in Nat : n = table.len
  BY PartsOf DEF Calm, TablesOK
<1>2. j \in 1 .. n
  BY <1>1 DEF RemoveOK, Cells
<1>3. table.slot[j].kind \in {HeadKind} \union PartKinds /\ (j # i => table.slot[j].kind \in PartKinds)
  BY DEF RemoveOK, Cells
<1> QED
  BY <1>1, <1>2, <1>3, BaseIs, KindsAre
LEMMA SwapIs ==
    ASSUME Calm, NEW i, NEW b, NEW G, RemoveOK(i, b, G), NEW N \in Nat, table.len <= N, NEW start, NEW E, FreeAt(N, start, E), NEW B
    PROVE  \E D, F : Swapped(N, B, D, F, b, G, start, E)
<1>1. \A j \in Cells(b, G) : j \notin Cells(start, E)
  <2> SUFFICES ASSUME NEW j \in Cells(b, G), j \in Cells(start, E) PROVE FALSE
    OBVIOUS
  <2>1. Base(table, j).kind \in {HeadKind} \union PartKinds
    BY BlockFull
  <2>2. Base(table, j).kind \in {"zero", "gone"}
    BY DEF FreeAt, Cells
  <2> QED
    BY <2>1, <2>2, KindsAre
<1>2. b \in Nat /\ b >= 1 /\ Len(G) \in Nat /\ b + Len(G) - 1 <= N
  <2>1. table.len \in Nat /\ b \in Nat /\ b >= 1 /\ Len(G) \in Nat /\ b + Len(G) - 1 <= table.len
    BY PartsOf DEF Calm, TablesOK, RemoveOK
  <2> QED
    BY <2>1
<1>3. PICK D : Written(D, b, G) /\ \A j \in 1 .. N : j \notin b .. b + Len(G) - 1 => D[j] = B[j]
  BY <1>2, Overwrite
<1>4. start \in Nat /\ start >= 1 /\ Len(E) \in Nat /\ start + Len(E) - 1 <= N
  BY DEF FreeAt
<1>5. PICK F : Written(F, start, E) /\ \A j \in 1 .. N : j \notin start .. start + Len(E) - 1 => F[j] = D[j]
  BY <1>4, Overwrite
<1>6. Written(F, b, G)
  <2> SUFFICES ASSUME NEW j \in b .. b + Len(G) - 1 PROVE F[j] = G[j - b + 1]
    BY DEF Written
  <2>1. j \in 1 .. N
    BY <1>2
  <2>2. j \notin start .. start + Len(E) - 1
    BY <1>1 DEF Cells
  <2>3. F[j] = D[j]
    BY <1>5, <2>1, <2>2
  <2> QED
    BY <1>3, <2>3 DEF Written
<1>7. Swapped(N, B, D, F, b, G, start, E)
  BY <1>1, <1>3, <1>5, <1>6 DEF Swapped, Cells
<1> QED
  BY <1>7

LEMMA SwapPuts ==
    ASSUME Calm, NEW i, NEW b, NEW G, RemoveOK(i, b, G), NEW N \in Nat, table.len <= N, NEW start, NEW E, FreeAt(N, start, E),
           NEW B, \A j \in 1 .. N : B[j] = Base(table, j), NEW D, NEW F, Swapped(N, B, D, F, b, G, start, E),
           NEW obj, obj \in Objs', fs_type' = fs_type, \A k \in 1 .. Len(E) : EntryShape(E[k], obj),
           NEW P, P = PutFrom(start, E) \o PutFrom(b, G)
    PROVE  PutsOK(table, N, P) /\ Finally(table, N, P, F) /\ \A j \in 1 .. Len(P) : EntryOK(P[j].entry)'
<1>1. PICK X, Y : X = PutFrom(start, E) /\ Y = PutFrom(b, G)
  OBVIOUS
<1>2. IsSeq(E) /\ start \in Nat /\ SegOK(table, N, start, E) /\ IsSeq(G) /\ b \in Nat
  BY DEF FreeAt, SegOK, RemoveOK
<1>3. PutsOK(table, N, X) /\ PutsOK(table, N, Y)
  <2>1. SegOK(table, N, b, G)
    BY RemovePuts
  <2> QED
    BY <1>1, <1>2, <2>1, SegPuts
<1>4. /\ Len(X) = Len(E) /\ Len(E) \in Nat /\ \A k \in 1 .. Len(E) : X[k] = Put(start + k - 1, E[k])
      /\ Len(Y) = Len(G) /\ Len(G) \in Nat /\ \A k \in 1 .. Len(G) : Y[k] = Put(b + k - 1, G[k])
  <2>1. Len(X) = Len(E) /\ Len(E) \in Nat /\ \A k \in 1 .. Len(E) : X[k] = Put(start + k - 1, E[k])
    BY <1>1, <1>2, PutFromIs
  <2>2. Len(Y) = Len(G) /\ Len(G) \in Nat /\ \A k \in 1 .. Len(G) : Y[k] = Put(b + k - 1, G[k])
    BY <1>1, <1>2, PutFromIs
  <2> QED
    BY <2>1, <2>2
<1>5. ASSUME NEW k \in 1 .. Len(X), NEW m \in 1 .. Len(Y) PROVE X[k].at # Y[m].at
  <2>1. X[k].at = start + k - 1 /\ Y[m].at = b + m - 1
    BY <1>4, StepConst
  <2>2. start + k - 1 \in Cells(start, E) /\ b + m - 1 \in Cells(b, G)
    BY <1>2, <1>4 DEF Cells
  <2> QED
    BY <2>1, <2>2 DEF Swapped
<1>6. PutsOK(table, N, P) /\ Joins(P, X, Y)
  <2>1. P = X \o Y
    BY <1>1
  <2> QED
    BY <1>3, <1>5, <2>1, TwoPuts
<1>7. Finally(table, N, P, F)
  <2>1. \A j \in 1 .. N : j \notin Cells(start, E) /\ j \notin Cells(b, G) => F[j] = Base(table, j)
    BY DEF Swapped
  <2>2. Written(F, start, E) /\ Written(F, b, G)
    BY DEF Swapped
  <2>3. Finally(table, N, PutFrom(start, E) \o PutFrom(b, G), F)
    BY <1>2, <2>1, <2>2, TwoFinal
  <2> QED
    BY <2>3
<1>8. \A j \in 1 .. Len(X) : EntryOK(X[j].entry)'
  BY <1>1, <1>2, PutsShape
<1>9. \A j \in 1 .. Len(Y) : EntryOK(Y[j].entry)'
  <2>1. \A k \in 1 .. Len(G) : G[k] = Gone
    BY DEF RemoveOK
  <2> QED
    BY <1>1, <1>2, <2>1, PutsShape
<1>10. ASSUME NEW j \in 1 .. Len(P) PROVE EntryOK(P[j].entry)'
  <2>1. Len(X) \in Nat /\ Len(Y) \in Nat /\ Len(P) = Len(X) + Len(Y)
    BY <1>6 DEF Joins
  <2>2. CASE j <= Len(X)
    <3>1. j \in 1 .. Len(X)
      BY <2>1, <2>2
    <3>2. P[j] = X[j]
      BY <1>6, <3>1 DEF Joins
    <3>3. EntryOK(X[j].entry)'
      BY <1>8, <3>1
    <3> QED
      BY <3>2, <3>3
  <2>3. CASE j > Len(X)
    <3>1. PICK k \in Nat : k = j - Len(X) /\ j = Len(X) + k /\ k \in 1 .. Len(Y)
      <4>1. j \in Nat /\ j <= Len(X) + Len(Y)
        BY <2>1
      <4>2. j - Len(X) \in Nat /\ j - Len(X) \in 1 .. Len(Y) /\ j = Len(X) + (j - Len(X))
        BY <2>1, <2>3, <4>1
      <4> QED
        BY <4>2
    <3>2. P[j] = Y[k]
      BY <1>6, <3>1 DEF Joins
    <3>3. EntryOK(Y[k].entry)'
      BY <1>9, <3>1
    <3> QED
      BY <3>2, <3>3
  <2> QED
    BY <2>1, <2>2, <2>3
<1> QED
  BY <1>6, <1>7, <1>10

\* The block of n that a rename makes, for the object, in the place of the one at i.
NewIn(N, F, n, obj, i, h) ==
    /\ Block(F, n, h) /\ IdAt(F, h) = obj.id /\ NewHeads(N, F, i, h)
    /\ \A g \in 1 .. table.len : Block(table.slot, n, g) => g = i
LEMMA SwapGood ==
    ASSUME GoodNow, NEW o, NEW n \in Names, NEW i, i = Find(table, o), i > 0, Find(table, n) \in {0, i}, NumberLeft(n),
           NEW b, NEW G, RemoveOK(i, b, G), NEW N \in Nat, table.len <= N, NEW obj, NEW E, EntriesOK(E, n, obj), NEW start, FreeAt(N, start, E),
           NEW B, \A j \in 1 .. N : B[j] = Base(table, j), NEW D, NEW F, Swapped(N, B, D, F, b, G, start, E)
    PROVE  Good(N, F) /\ KeepsBlocks(F, i) /\ NewIn(N, F, n, obj, i, HeadOf(start, E))
<1>1. Len(E) \in Nat /\ Len(E) >= 1 /\ start \in Nat /\ start >= 1 /\ start + Len(E) - 1 <= N
  BY EntriesShape DEF FreeAt
<1>2. /\ Good(N, D) /\ FromNow(N, D, i)
      /\ \A g \in 1 .. table.len : \A m \in Names : g # i /\ Block(table.slot, m, g) => Block(D, m, g)
  <2>1. Written(D, b, G) /\ \A j \in 1 .. N : j \notin b .. b + Len(G) - 1 => D[j] = B[j]
    BY DEF Swapped, Cells
  <2> QED
    BY <2>1, Dropped
<1>3. AddsTo(N, D, F, start, E)
  <2>1. ASSUME NEW j \in start .. start + Len(E) - 1 PROVE D[j].kind \in {"zero", "gone"}
    <3>1. j \in 1 .. N
      BY <1>1
    <3>2. j \notin Cells(b, G)
      BY DEF Swapped, Cells
    <3>3. D[j] = Base(table, j)
      BY <3>1, <3>2 DEF Swapped
    <3> QED
      BY <3>3 DEF FreeAt
  <2>2. Written(F, start, E) /\ \A j \in 1 .. N : j \notin start .. start + Len(E) - 1 => F[j] = D[j]
    BY DEF Swapped, Cells
  <2> QED
    BY <1>1, <2>1, <2>2 DEF AddsTo
<1>4. NoOther(n, i)
  <2> SUFFICES ASSUME NEW m, NEW g, BlockNow(m, g), Leads(n, m, g) PROVE g = i
    BY DEF NoOther
  <2>1. Find(table, n) = i
    BY FindGood
  <2>2. PICK k : BlockNow(k, i) /\ Leads(n, k, i)
    BY <2>1, FindGood
  <2> QED
    BY <2>2, HitOne
<1>5. PICK h : h = HeadOf(start, E) /\ h \in start .. start + Len(E) - 1
  BY <1>1 DEF HeadOf
<1>6. Good(N, F) /\ OthersKept(N, D, F, h) /\ Block(F, n, h) /\ IdAt(F, h) = obj.id /\ NewHeads(N, F, i, h)
  BY <1>2, <1>3, <1>4, <1>5, NewBlock
<1>7. ASSUME NEW g \in 1 .. table.len, NEW m \in Names, g # i, Block(table.slot, m, g)
      PROVE  Block(F, m, g) /\ F[g].sfn = table.slot[g].sfn /\ IdAt(F, g) = IdAt(table.slot, g)
  <2>1. table.len \in Nat
    BY NowIs
  <2>2. g \in Nat /\ g \in 1 .. N
    BY <2>1
  <2>3. table.slot[g].kind = HeadKind
    BY <1>7, <2>2, BlockKinds
  <2>4. Base(table, g) = table.slot[g]
    BY BaseIs DEF GoodNow
  <2>5. g \notin Cells(start, E)
    BY <2>3, <2>4, KindsAre DEF FreeAt, Cells
  <2>6. g \notin Cells(b, G)
    BY <1>7, <2>3, BlockFull DEF GoodNow
  <2>7. g # h
    BY <1>5, <2>5 DEF Cells
  <2>8. Block(F, m, g)
    BY <1>2, <1>6, <1>7, <2>2, <2>7 DEF OthersKept
  <2>9. F[g] = table.slot[g]
    BY <2>2, <2>4, <2>5, <2>6 DEF Swapped
  <2>10. PICK f : f = table.slot
    OBVIOUS
  <2>11. IdAt(F, g) = IdAt(f, g)
    BY <1>7, <2>8, <2>9, <2>10, SameId
  <2> QED
    BY <2>8, <2>9, <2>10, <2>11
<1>8. ASSUME NEW g \in 1 .. table.len, Block(table.slot, n, g) PROVE g = i
  <2>1. BlockNow(n, g)
    BY <1>8 DEF BlockNow
  <2>2. Leads(n, n, g)
    BY <2>1, LeadsSelf
  <2> QED
    BY <1>4, <2>1, <2>2 DEF NoOther
<1>9. KeepsBlocks(F, i)
  BY <1>7 DEF KeepsBlocks
<1> QED
  BY <1>5, <1>6, <1>8, <1>9 DEF NewIn

LEMMA RenameInv == ASSUME AtRest, NEW o \in Names, NEW n \in Names, Rename(o, n) PROVE IInv'
<1>1. PICK i, obj, at : i = Find(table, o) /\ obj = ObjAt(table, i) /\ at = RegisteredAt(n, obj)
  OBVIOUS
<1>2. PICK c, q : /\ c = [Idle EXCEPT !.op = "rename", !.name = o, !.new = n, !.at = at, !.id = obj.id, !.old = IF at = 0 THEN 0 ELSE i]
                  /\ q = IF at = 0 THEN Register(n, obj) ELSE Moved(n, obj, i) \o <<Sync>>
  OBVIOUS
<1>3. i > 0 /\ Find(table, n) \in {0, i} /\ NumberLeft(n) /\ Begin(c, q) /\ objects' = objects /\ Calm
  BY <1>1, <1>2 DEF Rename, AtRest
<1>4. /\ objects \in Nat /\ objects' \in Nat /\ objects <= objects' /\ fs_type' = fs_type
      /\ Shaped(table) /\ Typed(table) /\ ZeroLast(table)
  BY <1>3 DEF Calm, TablesOK, Begin
<1>5. i \in 1 .. table.len /\ obj \in Objs
  BY <1>1, <1>3, <1>4, ObjIn
<1>6. obj.id \in 0 .. objects' /\ obj \in Objs'
  BY <1>3, <1>5 DEF Objs
<1>7. c.at = at /\ c.id \in 0 .. objects' /\ c.old = IF at = 0 THEN 0 ELSE i
  BY <1>2, <1>6 DEF Idle
<1>8. PICK E : E = Entries(n, obj) /\ EntriesOK(E, n, obj)
  BY EntriesAre
<1>9. PICK k, s, ok, start : Registered(n, obj, E, k, s, ok, start)
  BY <1>8, RegisterIs
<1>10. /\ Stretched(k, s) /\ ok \in BOOLEAN
       /\ Register(n, obj) = Stretch(s) \o (IF ok THEN PutFrom(start, E) ELSE <<>>)
       /\ at = IF ok THEN HeadOf(start, E) ELSE 0
       /\ ok => FreeRun(start, Len(E), (k + s) * PerSector)
  BY <1>1, <1>9 DEF Registered
<1>11. s \in Nat
  BY <1>10 DEF Stretched
<1>12. CASE ~ok
  <2>1. at = 0 /\ Register(n, obj) = Stretch(s) \o <<>>
    BY <1>10, <1>12
  <2>2. PICK A : Stretch(s) \in Seq(A)
    BY <1>11, StretchIs DEF IsSeq
  <2>3. Stretch(s) \o <<>> = Stretch(s)
    BY <2>2, ConcatEmptySeq
  <2>4. q = Steps(s, <<>>, <<>>)
    BY <1>2, <1>11, <2>1, <2>3, StepsBe
  <2> QED
    <3>1. c.at = 0 /\ c.old = 0
      BY <1>7, <2>1
    <3> QED
      BY <1>3, <1>4, <1>7, <1>10, <2>4, <3>1, NoRoomInv
<1>13. CASE ok
  <2>1. PICK N : N = (k + s) * PerSector
    OBVIOUS
  <2>2. N \in Nat /\ table.len \in Nat /\ table.len <= N
    BY <1>3, <1>10, <2>1, RoomIs
  <2>3. IsSeq(E) /\ Len(E) \in Nat /\ Len(E) >= 1 /\ \A j \in 1 .. Len(E) : EntryShape(E[j], obj)
    BY <1>8, EntriesShape DEF EntriesOK
  <2>4. \A j \in 1 .. Len(E) : E[j].kind \notin {"zero", "junk"}
    BY <2>3, KindsAre DEF EntryShape
  <2>5. FreeAt(N, start, E)
    <3>1. FreeRun(start, Len(E), N)
      BY <1>10, <1>13, <2>1
    <3>2. /\ SegOK(table, N, start, E) /\ start \in Nat /\ start >= 1 /\ start + Len(E) - 1 <= N
          /\ \A j \in start .. start + Len(E) - 1 : Base(table, j).kind \in {"zero", "gone"}
      BY <1>3, <2>2, <2>3, <2>4, <3>1, RunFree
    <3> QED
      BY <2>3, <3>2 DEF FreeAt
  <2>6. PICK b, G : RemoveOK(i, b, G)
    BY <1>1, <1>3, RemoveIs
  <2>7. PICK B : \A j \in 1 .. N : B[j] = Base(table, j)
    <3>1. PICK B : B = [j \in 1 .. N |-> Base(table, j)]
      OBVIOUS
    <3>2. \A j \in 1 .. N : B[j] = Base(table, j)
      BY <3>1
    <3> QED
      BY <3>2
  <2>8. PICK D, F : Swapped(N, B, D, F, b, G, start, E)
    BY <1>3, <2>2, <2>5, <2>6, SwapIs
  <2>9. PICK P : P = PutFrom(start, E) \o PutFrom(b, G)
    OBVIOUS
  <2>10. PutsOK(table, N, P) /\ Finally(table, N, P, F) /\ \A j \in 1 .. Len(P) : EntryOK(P[j].entry)'
    BY <1>3, <1>4, <1>6, <2>2, <2>3, <2>5, <2>6, <2>7, <2>8, <2>9, SwapPuts
  <2>11. start \in Nat /\ start >= 1 /\ start + Len(E) - 1 <= N
    BY <2>5 DEF FreeAt
  <2>12. at \in 1 .. N
    BY <1>10, <1>13, <2>2, <2>3, <2>11 DEF HeadOf
  <2>13. at # 0 /\ c.at \in 0 .. N /\ c.old = i
    BY <1>7, <2>2, <2>12
  <2>14. ASSUME NEW g \in 1 .. table.len, table.slot[g].kind = HeadKind, g # i PROVE F[g].kind = HeadKind
    <3>1. g \in 1 .. N /\ Base(table, g) = table.slot[g]
      BY <1>3, <2>2, BaseIs
    <3>2. g \notin Cells(start, E)
      BY <2>5, <2>14, <3>1, KindsAre DEF FreeAt, Cells
    <3>3. g \notin Cells(b, G)
      BY <1>3, <2>6, <2>14, BlockFull
    <3>4. F[g] = B[g]
      BY <2>8, <3>1, <3>2, <3>3 DEF Swapped
    <3> QED
      BY <2>7, <2>14, <3>1, <3>4
  <2>15. KeepsHeads(F, c.old)
    BY <2>13, <2>14 DEF KeepsHeads
  <2>16. ASSUME pulls = 0 PROVE Good(N, F) /\ KeepsBlocks(F, c.old) /\ Enters(N, F, c)
    <3>1. GoodNow
      BY <2>16 DEF AtRest, GoodNow
    <3>2. Good(N, F) /\ KeepsBlocks(F, i) /\ NewIn(N, F, n, obj, i, at)
      <4>1. at = HeadOf(start, E)
        BY <1>10, <1>13
      <4> QED
        BY <1>1, <1>3, <1>8, <2>2, <2>5, <2>6, <2>7, <2>8, <3>1, <4>1, SwapGood
    <3>3. c.op = "rename" /\ NameOf(c) = n /\ c.at = at /\ c.id = obj.id /\ c.old = i
      BY <1>2, <1>7, <2>13 DEF Idle, NameOf
    <3>4. Enters(N, F, c)
      BY <3>2, <3>3 DEF Enters, NewIn
    <3> QED
      BY <3>2, <3>3, <3>4
  <2>17. q = Steps(s, P, <<Sync>>)
    <3>1. q = ((Stretch(s) \o PutFrom(start, E)) \o PutFrom(b, G)) \o <<Sync>>
      <4>1. Remove(i) = PutFrom(b, G)
        BY <2>6 DEF RemoveOK
      <4> QED
        BY <1>2, <1>10, <1>13, <2>13, <4>1 DEF Moved
    <3>2. IsSeq(PutFrom(start, E)) /\ IsSeq(PutFrom(b, G))
      <4>1. IsSeq(G) /\ b \in Nat
        BY <2>6 DEF RemoveOK
      <4> QED
        BY <2>3, <2>11, <4>1, PutFromIs
    <3>3. (Stretch(s) \o PutFrom(start, E)) \o PutFrom(b, G) = Stretch(s) \o P
      BY <1>11, <2>9, <3>2, StepsBe
    <3> QED
      BY <3>1, <3>3 DEF Steps
  <2> QED
    BY <1>3, <1>4, <1>7, <1>10, <2>1, <2>2, <2>10, <2>13, <2>15, <2>16, <2>17, BeginInv
<1> QED
  BY <1>10, <1>12, <1>13

(***************************************************************************)
(* f_sync                                                                  *)
(***************************************************************************)
\* What is written again at i: the entry, or the set.
TouchOK(i, obj, E) ==
    /\ IsSeq(E) /\ Len(E) \in Nat /\ Len(E) >= 1 /\ i + Len(E) - 1 <= table.len
    /\ Touched(i, obj) = PutFrom(i, E)
    /\ \A j \in 1 .. Len(E) : EntryShape(E[j], obj)
    /\ E[1].kind = HeadKind /\ \A j \in i + 1 .. i + Len(E) - 1 : table.slot[j].kind \in PartKinds
    /\ ~ExFat => E = <<Sfn(table.slot[i].sfn, obj)>>
    /\ ExFat => \A m : m.text = SetText(table, i) => EntriesEx(E, m, obj)
LEMMA TouchFat ==
    ASSUME ~ExFat, NEW i \in 1 .. table.len, table.len \in Nat, NEW obj, NEW E, E = <<Sfn(table.slot[i].sfn, obj)>> PROVE TouchOK(i, obj, E)
<1>1. IsSeq(E) /\ Len(E) = 1 /\ E[1] = Sfn(table.slot[i].sfn, obj)
  BY OneSeq
<1>2. i \in Nat
  OBVIOUS
<1>3. Touched(i, obj) = PutFrom(i, E)
  <2>1. PICK P : P = PutFrom(i, E)
    OBVIOUS
  <2>2. IsSeq(P) /\ Len(P) = 1 /\ P[1] = Put(i + 1 - 1, E[1])
    BY <1>1, <1>2, <2>1, PutFromIs
  <2>3. P = [k \in 1 .. 1 |-> P[k]]
    BY <2>2, SeqFun
  <2>4. PICK p : p = Put(i, E[1])
    OBVIOUS
  <2>5. <<p>> = [k \in 1 .. 1 |-> <<p>>[k]] /\ <<p>>[1] = p
    BY OneSeq, SeqFun
  <2>6. P[1] = p
    <3>1. i + 1 - 1 = i
      BY <1>2
    <3> QED
      BY <2>2, <2>4, <3>1
  <2>7. P = <<p>>
    BY <2>3, <2>5, <2>6
  <2>8. Touched(i, obj) = <<p>>
    BY <1>1, <2>4 DEF Touched
  <2> QED
    BY <2>1, <2>7, <2>8
<1>4. \A j \in 1 .. Len(E) : EntryShape(E[j], obj)
  <2>1. EntryShape(E[1], obj)
    BY <1>1, EntryKinds, KindsAre DEF EntryShape
  <2> QED
    BY <1>1, <2>1
<1>5. E[1].kind = HeadKind
  BY <1>1, EntryKinds, KindsAre
<1>6. i + Len(E) - 1 = i /\ i <= table.len
  BY <1>1, <1>2
<1>7. \A j : j \notin i + 1 .. i + Len(E) - 1
  BY <1>1, <1>2
<1> QED
  BY <1>1, <1>3, <1>4, <1>5, <1>6, <1>7 DEF TouchOK

LEMMA TouchEx ==
    ASSUME ExFat, table.len \in Nat, NEW i \in 1 .. table.len, Whole(table, i), table.slot[i].num \in Nat, table.slot[i].num >= 2, NEW obj
    PROVE  \E E : TouchOK(i, obj, E)
<1>1. i \in Nat /\ i >= 1
  OBVIOUS
<1>2. PICK b \in Nat, n \in Nat : b = table.slot[i].num /\ n = b - 1 /\ n >= 1
  OBVIOUS
<1>3. PICK t : t = SetText(table, i)
  OBVIOUS
<1>4. t = [k \in 1 .. n |-> table.slot[i + 1 + k].text]
  BY <1>2, <1>3 DEF SetText
<1>5. Len(t) = n
  <2>1. t = [k \in 1 .. n |-> t[k]]
    BY <1>4
  <2> QED
    BY <2>1, SeqOf
<1>6. PICK m, c : m = [text |-> t] /\ c = [k \in 1 .. n |-> FileName(t[k])]
  OBVIOUS
<1>7. m.text = t /\ Pieces(m) = n
  BY <1>5, <1>6 DEF Pieces
<1>8. PICK E : E = <<FileDir(t, obj), Stream(t, obj)>> \o c
  OBVIOUS
<1>9. IsSeq(E) /\ EntriesEx(E, m, obj)
  <2>1. Pieces(m) \in Nat /\ Pieces(m) >= 1
    BY <1>2, <1>7
  <2>2. c = [k \in 1 .. Pieces(m) |-> FileName(m.text[k])]
    BY <1>6, <1>7
  <2>3. E = <<FileDir(m.text, obj), Stream(m.text, obj)>> \o c
    BY <1>7, <1>8
  <2> QED
    BY <2>1, <2>2, <2>3, SetIs
<1>10. /\ Len(E) = n + 2 /\ E[1] = FileDir(t, obj) /\ E[2] = Stream(t, obj)
      /\ \A k \in 1 .. n : E[2 + k] = FileName(t[k])
  BY <1>7, <1>9 DEF EntriesEx
<1>11. Touched(i, obj) = PutFrom(i, E)
  <2>1. Touched(i, obj) = PutFrom(i, <<FileDir(t, obj), Stream(t, obj)>> \o [k \in 1 .. Len(t) |-> FileName(t[k])])
    BY <1>3 DEF Touched
  <2> QED
    BY <1>5, <1>6, <1>8, <2>1
<1>12. ASSUME NEW j \in 1 .. Len(E) PROVE EntryShape(E[j], obj)
  <2>1. EntryShape(E[1], obj)
    <3>1. E[1].kind = "85" /\ E[1].num = n + 1
      BY <1>5, <1>10, EntryKinds
    <3>2. n >= 1
      BY <1>2
    <3>3. n + 1 \in Nat /\ n + 1 >= 2
      BY <3>2
    <3> QED
      BY <3>1, <3>3, KindsAre DEF EntryShape
  <2>2. EntryShape(E[2], obj)
    <3>1. E[2].kind = "c0" /\ E[2].obj = obj
      BY <1>10, EntryKinds
    <3> QED
      BY <3>1, KindsAre DEF EntryShape
  <2>3. ASSUME NEW k \in 1 .. n PROVE EntryShape(E[2 + k], obj)
    <3>1. E[2 + k] = FileName(t[k])
      BY <1>10
    <3>2. E[2 + k].kind = "c1"
      BY <3>1, EntryKinds
    <3> QED
      BY <3>2, KindsAre DEF EntryShape
  <2>4. \A k \in 1 .. n + 2 : EntryShape(E[k], obj)
    <3> TAKE k \in 1 .. n + 2
    <3>1. k > 2 => k - 2 \in 1 .. n /\ 2 + (k - 2) = k
      OBVIOUS
    <3>2. k = 1 \/ k = 2 \/ k > 2
      OBVIOUS
    <3> QED
      BY <2>1, <2>2, <2>3, <3>1, <3>2
  <2> QED
    BY <1>10, <2>4
<1>13. E[1].kind = HeadKind
  BY <1>10, EntryKinds, KindsAre
<1>14. i + b <= table.len /\ table.slot[i + 1].kind = "c0" /\ \A k \in 2 .. b : table.slot[i + k].kind = "c1"
  BY <1>2 DEF Whole
<1>15. i + Len(E) - 1 = i + b /\ Len(E) \in Nat /\ Len(E) >= 1
  <2>1. Len(E) = n + 2 /\ n + 2 = b + 1
    BY <1>2, <1>10
  <2>2. i + (b + 1) - 1 = i + b
    BY <1>1
  <2> QED
    BY <2>1, <2>2
<1>16. ASSUME NEW j \in i + 1 .. i + Len(E) - 1 PROVE table.slot[j].kind \in PartKinds
  <2>1. j \in i + 1 .. i + b
    BY <1>15
  <2>2. PICK k \in 1 .. b : k = j - i /\ j = i + k
    BY <1>1, <2>1
  <2>3. CASE k = 1
    BY <1>14, <2>2, <2>3, KindsAre
  <2>4. CASE k # 1
    <3>1. k \in 2 .. b
      BY <1>2, <2>4
    <3> QED
      BY <1>14, <2>2, <3>1, KindsAre
  <2> QED
    BY <2>3, <2>4
<1>17. \A x : x.text = SetText(table, i) => EntriesEx(E, x, obj)
  BY <1>3, <1>5, <1>10 DEF EntriesEx, Pieces
<1>18. TouchOK(i, obj, E)
  <2>1. Len(E) \in Nat /\ Len(E) >= 1 /\ i + Len(E) - 1 <= table.len
    BY <1>14, <1>15
  <2> QED
    BY <1>9, <1>11, <1>12, <1>13, <1>16, <1>17, <2>1 DEF TouchOK
<1> QED
  BY <1>18

LEMMA TouchIs ==
    ASSUME Calm, NEW n, NEW i, i = Find(table, n), i > 0, NEW obj PROVE i \in 1 .. table.len /\ \E E : TouchOK(i, obj, E)
<1>1. i \in 1 .. table.len /\ table.slot[i].kind = HeadKind /\ (ExFat => Whole(table, i))
  BY BlockRun
<1>2. table.len \in Nat
  BY PartsOf DEF Calm, TablesOK
<1>3. ASSUME ~ExFat PROVE \E E : TouchOK(i, obj, E)
  <2>1. PICK E : E = <<Sfn(table.slot[i].sfn, obj)>>
    OBVIOUS
  <2>2. TouchOK(i, obj, E)
    BY <1>1, <1>2, <1>3, <2>1, TouchFat
  <2> QED
    BY <2>2
<1>4. ASSUME ExFat PROVE \E E : TouchOK(i, obj, E)
  <2>1. EntryOK(table.slot[i]) /\ table.slot[i].kind = "85"
    BY <1>1, <1>4, Pos, KindsAre DEF Calm, TablesOK, Typed
  <2>2. table.slot[i].num \in Nat /\ table.slot[i].num >= 2
    BY <2>1 DEF EntryOK
  <2> QED
    BY <1>1, <1>2, <1>4, <2>2, TouchEx
<1> QED
  BY <1>1, <1>3, <1>4

\* The block at i is still one of each name that it was one of.
LEMMA TouchBlock ==
    ASSUME GoodNow, NEW i, NEW obj, NEW E, TouchOK(i, obj, E), NEW m, BlockNow(m, i),
           NEW N, N = table.len, NEW F, Written(F, i, E), \A j \in 1 .. N : j \notin i .. i + Len(E) - 1 => F[j] = table.slot[j]
    PROVE  /\ Block(F, m, i) /\ IdAt(F, i) = obj.id
           /\ Span(m, i) = i - (IF ExFat \/ ~m.lfn THEN 0 ELSE Pieces(m)) .. i + Len(E) - 1
<1>1. PICK f : f = table.slot
  OBVIOUS
<1>2. N \in Nat /\ i \in Nat /\ i >= 1 /\ i <= N /\ m \in Names /\ Block(f, m, i)
  <2>1. table.len \in Nat /\ i \in 1 .. table.len /\ m \in Names /\ Block(f, m, i)
    BY <1>1, NowIs DEF BlockNow
  <2> QED
    BY <2>1
<1>3. PICK p \in Nat : p = Pieces(m) /\ p >= 1
  BY <1>2, NameIs
<1>4. CASE ExFat
  <2>1. m.text = SetText(table, i)
    BY <1>4, ExReads
  <2>2. EntriesEx(E, m, obj) /\ IsSeq(E)
    BY <1>4, <2>1 DEF TouchOK
  <2>3. EntriesOK(E, m, obj) /\ NumberLeft(m) /\ HeadOf(i, E) = i
    BY <1>4, <2>2 DEF EntriesOK, NumberLeft, HeadOf
  <2>4. i = 1 \/ F[i - 1].kind # "lfn"
    <3> SUFFICES ASSUME i # 1 PROVE F[i - 1].kind # "lfn"
      OBVIOUS
    <3>1. PICK j \in 1 .. N : j = i - 1 /\ j < i
      BY <1>2
    <3>2. F[j] = table.slot[j]
      BY <1>2, <3>1
    <3>3. EntryOK(table.slot[j])
      BY <3>1, Pos DEF GoodNow, Calm, TablesOK, Typed
    <3> QED
      BY <1>4, <3>1, <3>2, <3>3 DEF EntryOK, HeadKind, PartKinds
  <2>5. Block(F, m, HeadOf(i, E)) /\ Span(m, HeadOf(i, E)) = i .. i + Len(E) - 1
    BY <1>2, <2>3, <2>4, EntriesBlock
  <2>6. i - 0 = i
    BY <1>2
  <2>7. IdAt(F, i) = obj.id
    BY <1>2, <2>3, EntriesId
  <2> QED
    BY <1>4, <2>3, <2>5, <2>6, <2>7
<1>5. CASE ~ExFat
  <2>1. E = <<Sfn(f[i].sfn, obj)>>
    BY <1>1, <1>5 DEF TouchOK
  <2>2. Len(E) = 1 /\ E[1] = Sfn(f[i].sfn, obj)
    BY <2>1, OneSeq
  <2>3. F[i].kind = "sfn" /\ F[i].sfn = f[i].sfn /\ F[i].obj = obj
    <3>1. i \in i .. i + Len(E) - 1 /\ i - i + 1 = 1
      BY <1>2, <2>2
    <3>2. F[i] = E[1]
      BY <3>1 DEF Written
    <3> QED
      BY <2>2, <3>2, EntryKinds
  <2>4. \A j \in 1 .. N : j # i => F[j] = f[j]
    <3> TAKE j \in 1 .. N
    <3>1. i + Len(E) - 1 = i
      BY <1>2, <2>2
    <3> QED
      BY <1>1, <1>2, <3>1
  <2>5. FatBlock(f, m, i)
    BY <1>2, <1>5 DEF Block
  <2>6. LongOf(f, m, i) => LongOf(F, m, i)
    <3> SUFFICES ASSUME LongOf(f, m, i), NEW k \in 1 .. p PROVE F[i - k] = f[i - k]
      BY <1>3, <2>3 DEF LongOf
    <3>1. p < i
      BY <1>3 DEF LongOf
    <3>2. i - k \in 1 .. N /\ i - k # i
      BY <1>2, <3>1
    <3> QED
      BY <2>4, <3>2
  <2>7. ShortOf(f, m, i) => ShortOf(F, m, i)
    <3> SUFFICES ASSUME ShortOf(f, m, i), i # 1 PROVE F[i - 1] = f[i - 1]
      BY DEF ShortOf
    <3>1. i - 1 \in 1 .. N /\ i - 1 # i
      BY <1>2
    <3> QED
      BY <2>4, <3>1
  <2>8. Block(F, m, i)
    BY <1>5, <2>3, <2>5, <2>6, <2>7 DEF Block, FatBlock
  <2>9. Span(m, i) = i - (IF ~m.lfn THEN 0 ELSE p) .. i + Len(E) - 1
    <3>1. i + Len(E) - 1 = i
      BY <1>2, <2>2
    <3>2. m.lfn => Span(m, i) = (i - p .. i - 1) \union {i}
      BY <1>3, <1>5 DEF Span, PartsAt
    <3>3. ~m.lfn => Span(m, i) = {i}
      BY <1>5 DEF Span, PartsAt
    <3>4. (i - p .. i - 1) \union {i} = i - p .. i
      BY <1>2
    <3>5. {i} = i - 0 .. i
      BY <1>2
    <3> QED
      BY <3>1, <3>2, <3>3, <3>4, <3>5
  <2>10. IdAt(F, i) = obj.id
    BY <1>5, <2>3 DEF IdAt
  <2> QED
    BY <1>3, <1>5, <2>8, <2>9, <2>10
<1> QED
  BY <1>4, <1>5

LEMMA TouchGood ==
    ASSUME GoodNow, NEW n, NEW i, i = Find(table, n), i > 0, NEW obj, NEW E, TouchOK(i, obj, E), NEW N, N = table.len,
           NEW F, Written(F, i, E), \A j \in 1 .. N : j \notin i .. i + Len(E) - 1 => F[j] = table.slot[j],
           obj.id = IdAt(table.slot, i)
    PROVE  Good(N, F) /\ KeepsBlocks(F, 0) /\ NewHeads(N, F, 0, 0)
<1>1. PICK f : f = table.slot
  OBVIOUS
<1>2. PICK m : BlockNow(m, i)
  BY FindGood
<1>3. N \in Nat /\ i \in 1 .. N /\ i \in Nat /\ m \in Names /\ Block(f, m, i) /\ Good(N, f)
  <2>1. table.len \in Nat /\ i \in 1 .. table.len /\ m \in Names /\ Block(f, m, i)
    BY <1>1, <1>2, NowIs DEF BlockNow
  <2> QED
    BY <1>1, <2>1 DEF GoodNow
<1>4. Block(F, m, i) /\ Span(m, i) = i - (IF ExFat \/ ~m.lfn THEN 0 ELSE Pieces(m)) .. i + Len(E) - 1
  BY <1>2, TouchBlock
<1>5. i .. i + Len(E) - 1 \subseteq Span(m, i)
  <2>1. PICK p \in Nat : p = IF ExFat \/ ~m.lfn THEN 0 ELSE Pieces(m)
    BY <1>3, NameIs
  <2>2. i - p <= i
    BY <1>3, <2>1
  <2>3. Len(E) \in Nat
    BY DEF TouchOK
  <2>4. i .. i + Len(E) - 1 \subseteq i - p .. i + Len(E) - 1
    BY <1>3, <2>1, <2>2, <2>3
  <2> QED
    BY <1>4, <2>1, <2>4
<1>6. Untouched(N, f, F, Span(m, i))
  BY <1>1, <1>5 DEF Untouched
<1>7. ~ExFat => F[i].sfn = f[i].sfn /\ Len(E) = 1
  <2> SUFFICES ASSUME ~ExFat PROVE F[i].sfn = f[i].sfn /\ Len(E) = 1
    OBVIOUS
  <2>1. Len(E) = 1 /\ E[1] = Sfn(f[i].sfn, obj)
    BY <1>1, OneSeq DEF TouchOK
  <2>2. i \in i .. i + Len(E) - 1 /\ i - i + 1 = 1
    BY <1>3, <2>1
  <2>3. F[i] = E[1]
    BY <2>2 DEF Written
  <2> QED
    BY <2>1, <2>3, EntryKinds
<1>8. Good(N, F) /\ OthersKept(N, f, F, i)
  <2>1. ~ExFat => F[i].sfn = f[i].sfn
    BY <1>7
  <2> QED
    BY <1>3, <1>4, <1>6, <2>1, GoodAgain
<1>9. ASSUME NEW g \in i .. i + Len(E) - 1, g # i PROVE f[g].kind \in PartKinds /\ F[g].kind \in PartKinds
  <2>1. g \in PartsAt(m, i)
    BY <1>5, <1>9 DEF Span
  <2> QED
    BY <1>3, <1>4, <2>1, BlockKinds
<1>10. f[i].kind = HeadKind
  BY <1>3, BlockKinds
<1>11. ASSUME NEW g \in 1 .. N, NEW k \in Names, Block(f, k, g)
      PROVE  Block(F, k, g) /\ (~ExFat => F[g].sfn = f[g].sfn) /\ IdAt(F, g) = IdAt(f, g)
  <2>1. CASE g = i
    <3>1. BlockNow(k, i)
      BY <1>1, <1>11, <2>1 DEF BlockNow
    <3>2. Block(F, k, i)
      BY <3>1, TouchBlock
    <3>3. IdAt(F, i) = obj.id
      BY <3>1, TouchBlock
    <3> QED
      BY <1>1, <1>7, <2>1, <3>2, <3>3
  <2>2. CASE g # i
    <3>1. Block(F, k, g)
      BY <1>8, <1>11, <2>2 DEF OthersKept
    <3>2. F[g] = f[g]
      <4>1. f[g].kind = HeadKind
        <5>1. g \in Nat
          BY <1>3
        <5> QED
          BY <1>11, <5>1, BlockKinds
      <4>2. g \notin i .. i + Len(E) - 1
        BY <1>9, <2>2, <4>1, KindsAre
      <4> QED
        BY <1>1, <4>2
    <3>3. IdAt(F, g) = IdAt(f, g)
      BY <1>11, <3>1, <3>2, SameId
    <3> QED
      BY <3>1, <3>2, <3>3
  <2> QED
    BY <2>1, <2>2
<1>12. NewHeads(N, F, 0, 0)
  <2> SUFFICES ASSUME NEW g \in 1 .. N, F[g].kind = HeadKind PROVE f[g].kind = HeadKind /\ g # 0
    BY <1>1 DEF NewHeads
  <2>1. g # i => g \notin i .. i + Len(E) - 1
    BY <1>9, KindsAre
  <2>2. g # i => F[g] = f[g]
    BY <1>1, <2>1
  <2>3. g # 0
    OBVIOUS
  <2> QED
    BY <1>10, <2>2, <2>3
<1>13. KeepsBlocks(F, 0)
  BY <1>1, <1>11 DEF KeepsBlocks
<1> QED
  BY <1>8, <1>13, <1>12

LEMMA TouchInv == ASSUME AtRest, NEW n \in Names, Touch(n) PROVE IInv'
<1>1. PICK i, obj : i = Find(table, n) /\ obj = [ObjAt(table, i) EXCEPT !.ver = 1]
  OBVIOUS
<1>2. PICK c, q : c = [Idle EXCEPT !.op = "touch", !.name = n] /\ q = Touched(i, obj) \o <<Sync>>
  OBVIOUS
<1>3. i > 0 /\ Begin(c, q) /\ objects' = objects /\ Calm
  BY <1>1, <1>2 DEF Touch, AtRest
<1>4. /\ objects \in Nat /\ objects' \in Nat /\ objects <= objects' /\ fs_type' = fs_type
      /\ Shaped(table) /\ Typed(table) /\ ZeroLast(table)
  BY <1>3 DEF Calm, TablesOK, Begin
<1>5. obj \in Objs' /\ obj.id = ObjAt(table, i).id
  <2>1. PICK x : x = ObjAt(table, i) /\ x \in Objs
    BY <1>1, <1>3, <1>4, ObjIn
  <2>2. obj = [x EXCEPT !.ver = 1]
    BY <1>1, <2>1
  <2>3. obj \in Objs
    BY <2>1, <2>2 DEF Objs
  <2>4. obj.id = x.id
    BY <2>1, <2>2 DEF Objs
  <2> QED
    BY <1>3, <2>1, <2>3, <2>4 DEF Objs
<1>6. c.old = 0 /\ c.at = 0 /\ c.id = 0
  BY <1>2 DEF Idle
<1>7. i \in 1 .. table.len /\ \E E : TouchOK(i, obj, E)
  BY <1>1, <1>3, TouchIs
<1>8. PICK E : TouchOK(i, obj, E)
  BY <1>7
<1>9. PICK k : Stretched(k, 0)
  BY <1>3, Nums DEF Calm, TablesOK, Shaped, Lens, Stretched
<1>10. PICK N : N = (k + 0) * PerSector
  OBVIOUS
<1>11. N \in Nat /\ N = table.len
  <2>1. k \in Nat /\ k + 0 = k /\ table.len = k * PerSector
    BY <1>9 DEF Stretched
  <2>2. table.len \in Nat
    BY <1>3, PartsOf DEF Calm, TablesOK
  <2> QED
    BY <1>10, <2>1, <2>2
<1>12. /\ IsSeq(E) /\ Len(E) \in Nat /\ Len(E) >= 1 /\ i \in Nat /\ i >= 1 /\ i <= N /\ i + Len(E) - 1 <= N
       /\ Touched(i, obj) = PutFrom(i, E) /\ \A j \in 1 .. Len(E) : EntryShape(E[j], obj)
       /\ E[1].kind = HeadKind /\ \A j \in i + 1 .. i + Len(E) - 1 : table.slot[j].kind \in PartKinds
  <2>1. i \in Nat /\ i >= 1 /\ i <= N
    BY <1>7, <1>11
  <2>2. /\ IsSeq(E) /\ Len(E) \in Nat /\ Len(E) >= 1 /\ i + Len(E) - 1 <= table.len
        /\ Touched(i, obj) = PutFrom(i, E) /\ \A j \in 1 .. Len(E) : EntryShape(E[j], obj)
        /\ E[1].kind = HeadKind /\ \A j \in i + 1 .. i + Len(E) - 1 : table.slot[j].kind \in PartKinds
    BY <1>8 DEF TouchOK
  <2> QED
    BY <1>11, <2>1, <2>2
<1>13. PICK F : Written(F, i, E) /\ \A j \in 1 .. N : j \notin i .. i + Len(E) - 1 => F[j] = table.slot[j]
  <2>1. PICK f : f = table.slot
    OBVIOUS
  <2>2. N \in Nat /\ i \in Nat /\ i >= 1 /\ Len(E) \in Nat /\ i + Len(E) - 1 <= N
    BY <1>11, <1>12
  <2>3. \E F : Written(F, i, E) /\ \A j \in 1 .. N : j \notin i .. i + Len(E) - 1 => F[j] = f[j]
    BY <2>2, Overwrite, SMTT(40)
  <2> QED
    BY <2>1, <2>3
<1>14. PICK P : P = PutFrom(i, E)
  OBVIOUS
<1>15. SegOK(table, N, i, E)
  <2>1. ASSUME NEW j \in 1 .. i - 1 PROVE ~Blank(table, j)
    <3>1. j \in 1 .. N /\ j < i /\ i \in 1 .. N
      BY <1>11, <1>12
    <3>2. table.slot[i].kind = HeadKind
      BY <1>1, <1>3, BlockRun
    <3>3. table.slot[j].kind # "zero"
      BY <1>4, <1>11, <3>1, <3>2, KindsAre DEF ZeroLast
    <3>4. table.slot[j].kind # "junk"
      BY <1>3, <1>11, <3>1 DEF Calm
    <3> QED
      BY <1>11, <3>1, <3>3, <3>4 DEF Blank
  <2>2. \A j \in 1 .. Len(E) : E[j].kind \notin {"zero", "junk"}
    BY <1>12, KindsAre DEF EntryShape
  <2> QED
    BY <1>12, <2>1, <2>2 DEF SegOK
<1>16. PutsOK(table, N, P) /\ \A j \in 1 .. Len(P) : EntryOK(P[j].entry)'
  <2>1. PutsOK(table, N, P)
    BY <1>11, <1>14, <1>15, SegPuts
  <2> QED
    BY <1>4, <1>5, <1>12, <1>14, <2>1, PutsShape
<1>17. Finally(table, N, P, F)
  <2>1. \A j \in 1 .. N : j \notin Cells(i, E) => F[j] = Base(table, j)
    BY <1>3, <1>11, <1>13, BaseIs DEF Cells
  <2> QED
    BY <1>11, <1>12, <1>13, <1>14, <2>1, OneFinal
<1>18. ASSUME NEW g \in 1 .. table.len, table.slot[g].kind = HeadKind PROVE F[g].kind = HeadKind
  <2>1. CASE g = i
    <3>1. i \in i .. i + Len(E) - 1 /\ i - i + 1 = 1
      BY <1>12
    <3>2. F[i] = E[1]
      BY <1>13, <3>1 DEF Written
    <3> QED
      BY <1>12, <2>1, <3>2
  <2>2. CASE g # i
    <3>1. g \notin i + 1 .. i + Len(E) - 1
      BY <1>12, <1>18, KindsAre
    <3>2. g \in 1 .. N /\ g \notin i .. i + Len(E) - 1
      BY <1>11, <1>12, <2>2, <3>1
    <3>3. F[g] = table.slot[g]
      BY <1>13, <3>2
    <3> QED
      BY <1>18, <3>3
  <2> QED
    BY <2>1, <2>2
<1>19. KeepsHeads(F, c.old)
  BY <1>18 DEF KeepsHeads
<1>20. ASSUME pulls = 0 PROVE Good(N, F) /\ KeepsBlocks(F, c.old) /\ Enters(N, F, c)
  <2>1. GoodNow
    BY <1>20 DEF AtRest, GoodNow
  <2>2. obj.id = IdAt(table.slot, i)
    BY <1>5 DEF ObjAt, IdAt
  <2>3. Good(N, F) /\ KeepsBlocks(F, 0) /\ NewHeads(N, F, 0, 0)
    BY <1>1, <1>3, <1>8, <1>11, <1>13, <2>1, <2>2, TouchGood
  <2>4. Enters(N, F, c)
    BY <1>6, <2>3 DEF Enters
  <2> QED
    BY <1>6, <2>3, <2>4
<1>21. q = Steps(0, P, <<Sync>>)
  <2>1. IsSeq(P)
    BY <1>12, <1>14, PutFromIs
  <2> QED
    BY <1>2, <1>12, <1>14, <2>1, StepsBe
<1>22. c.at \in 0 .. N /\ c.id \in 0 .. objects' /\ <<Sync>> \in {<<>>, <<Sync>>}
  BY <1>4, <1>6, <1>11
<1> QED
  BY <1>3, <1>4, <1>9, <1>10, <1>11, <1>16, <1>17, <1>19, <1>20, <1>21, <1>22, BeginInv

(***************************************************************************)
(* Every step keeps the invariant                                          *)
(***************************************************************************)
LEMMA StutterInv == ASSUME IInv, UNCHANGED vars PROVE IInv'
<1>1. /\ fs_type' = fs_type /\ table' = table /\ disk' = disk /\ dirty' = dirty /\ todo' = todo /\ call' = call
      /\ made' = made /\ rd' = rd /\ objects' = objects /\ pulls' = pulls
  BY DEF vars
<1>2. PICK ln, f : Plan(table, todo, ln, f) /\ FinalOK(Ends(todo, ln), f)
  BY DEF IInv
<1>3. TablesOK /\ MadeOK /\ pulls \in Nat /\ Reader(rd, table.len) /\ call.id \in 0 .. objects /\ objects \in Nat
  BY DEF IInv, TablesOK
<1>4. TablesOK'
  BY <1>1, <1>3, StillOK DEF DiskMoves
<1>5. PICK q, N : q = todo /\ N = Ends(todo, ln)
  OBVIOUS
<1>6. PutsTyped(q)'
  <2>1. PutsTyped(q)
    BY <1>2, <1>5 DEF Plan
  <2> QED
    BY <1>1, <1>3, <2>1, PutsStay
<1>7. NewCluster(table, q)'
  <2>1. NewCluster(table, q)
    BY <1>2, <1>5 DEF Plan
  <2> QED
    BY <1>1, <2>1 DEF NewCluster
<1>8. Plan(table, todo, ln, f)'
  <2>1. StepsOK(table', q, ln) /\ Makes(table', q, Ends(q, ln), f)
    BY <1>1, <1>2, <1>5 DEF Plan
  <2> QED
    BY <1>1, <1>5, <1>6, <1>7, <2>1 DEF Plan
<1>9. FinalOK(N, f)'
  <2>1. Held(f)'
    BY <1>1, <1>2, SameHeld DEF FinalOK
  <2>2. pulls' = 0 => Good(N, f)'
    BY <1>1, <1>2, <1>5, SameGood DEF FinalOK
  <2>3. call'.at \in 0 .. N
    BY <1>1, <1>2, <1>5 DEF FinalOK
  <2>4. ASSUME pulls = 0 PROVE Settled(N, f, Done(call))'
    <3>1. PICK M : M = Done(call) /\ Settled(N, f, M)
      BY <1>2, <1>5, <2>4 DEF FinalOK
    <3>2. Settled(N, f, M)'
      BY <1>1, <3>1, SameSettled
    <3>3. Done(call)' = M
      BY <1>1, <3>1 DEF Done
    <3> QED
      BY <3>2, <3>3
  <2> QED
    BY <1>1, <2>1, <2>2, <2>3, <2>4 DEF FinalOK
<1>10. Ends(todo', ln) = N
  BY <1>1, <1>5
<1>11. MadeOK'
  BY <1>1, <1>3 DEF MadeOK
<1>12. Plan(table, todo, ln, f)' /\ FinalOK(Ends(todo, ln), f)'
  BY <1>8, <1>9, <1>10
<1>13. todo' = <<>> => call' = Idle'
  BY <1>1 DEF IInv, Idle, NoName
<1> QED
  BY <1>1, <1>3, <1>4, <1>11, <1>12, <1>13 DEF IInv

LEMMA NextKeeps == ASSUME IInv, [Next]_vars PROVE IInv' \/ AtRest'
<1>1. todo = <<>> => AtRest
  BY RestIs
<1>2. CASE \E n \in Names : \E sync \in BOOLEAN : Create(n, sync)
  <2>1. PICK n \in Names, sync \in BOOLEAN : Create(n, sync)
    BY <1>2
  <2>2. AtRest
    BY <1>1, <2>1 DEF Create, Ready
  <2> QED
    BY <2>1, <2>2, CreateInv
<1>3. CASE \E n \in Names : Delete(n)
  <2>1. PICK n \in Names : Delete(n)
    BY <1>3
  <2>2. AtRest
    BY <1>1, <2>1 DEF Delete, Ready
  <2> QED
    BY <2>1, <2>2, DeleteInv
<1>4. CASE \E o \in Names : \E n \in Names : Rename(o, n)
  <2>1. PICK o \in Names, n \in Names : Rename(o, n)
    BY <1>4
  <2>2. AtRest
    BY <1>1, <2>1 DEF Rename, Ready
  <2> QED
    BY <2>1, <2>2, RenameInv
<1>5. CASE \E n \in Names : Touch(n)
  <2>1. PICK n \in Names : Touch(n)
    BY <1>5
  <2>2. AtRest
    BY <1>1, <2>1 DEF Touch, Ready
  <2> QED
    BY <2>1, <2>2, TouchInv
<1>6. CASE Step
  BY <1>6, StepInv
<1>7. CASE Elsewhere
  BY <1>1, <1>7, ElsewhereRest DEF Elsewhere
<1>8. CASE OpenDir
  BY <1>1, <1>8, OpenRest DEF OpenDir
<1>9. CASE ReadDir
  BY <1>1, <1>9, ReadRest DEF ReadDir
<1>10. CASE GetEntryCount
  BY <1>1, <1>10, CountRest DEF GetEntryCount
<1>11. CASE CloseDir
  BY <1>1, <1>11, CloseRest DEF CloseDir
<1>12. CASE Pull
  BY <1>12, PullRest
<1>13. CASE UNCHANGED vars
  BY <1>13, StutterInv
<1> QED
  BY <1>2, <1>3, <1>4, <1>5, <1>6, <1>7, <1>8, <1>9, <1>10, <1>11, <1>12, <1>13 DEF Next

\* The tables are shaped as FatFs leaves them, and what is left of a call makes a table in
\* which every block belongs to a name and the open directory has given what it passed.
THEOREM DirectoryInvariant == Spec => []IInv
<1>1. Init => AtRest
  BY InitRest
<1>2. IInv /\ [Next]_vars => IInv' \/ AtRest'
  BY NextKeeps
<1>3. AtRest => IInv
  BY RestInv
<1> QED
  BY <1>1, <1>2, <1>3, PTL DEF Spec

(***************************************************************************)
(* What the invariant says                                                 *)
(***************************************************************************)
LEMMA TypesHold == IInv => TypeOK
<1> SUFFICES ASSUME IInv PROVE TypeOK
  OBVIOUS
<1>1. TablesOK /\ MadeOK /\ Reader(rd, table.len)
  BY DEF IInv
<1>2. fs_type \in FsTypes /\ table.len \in Lens /\ disk.len = table.len /\ dirty \in 0 .. MaxClusters
  BY <1>1 DEF TablesOK, Shaped, Lagging
<1>3. PICK ln, f : Plan(table, todo, ln, f)
  BY DEF IInv
<1>4. StepsOK(table, todo, ln)
  BY <1>3 DEF Plan
<1>5. ASSUME NEW i \in 1 .. Len(todo), todo[i].do = "put" PROVE todo[i].at \in 1 .. MaxSlots
  <2>1. PICK m : m = Len(todo) /\ m \in Nat
    <3>1. PICK S : todo \in Seq(S)
      BY <1>4 DEF StepsOK, IsSeq
    <3> QED
      BY <3>1
  <2>2. StepOK(table, todo, ln, i) /\ ln \in [1 .. m + 1 -> Lens]
    BY <1>4, <2>1 DEF StepsOK
  <2>3. todo[i].at \in 1 .. ln[i]
    BY <1>5, <2>2, StepConst DEF StepOK
  <2>4. i \in 1 .. m + 1
    BY <2>1
  <2>5. ln[i] \in Lens
    BY <2>2, <2>4
  <2>6. PICK l \in Nat : l = ln[i] /\ l <= MaxSlots
    BY <2>5, LenIs
  <2> QED
    BY <2>3, <2>6, Nums
<1>6. rd.pos \in 0 .. table.len /\ rd.stay \subseteq 1 .. table.len
  BY <1>1 DEF Reader
<1>7. table.len \in 1 .. MaxSlots
  BY <1>2, LenIs
<1> QED
  BY <1>1, <1>2, <1>5, <1>6, <1>7 DEF TypeOK, MadeOK

LEMMA EndHolds == IInv => NothingBehindEnd
<1> SUFFICES ASSUME IInv PROVE NothingBehindEnd
  OBVIOUS
<1>1. ZeroLast(table) /\ ZeroLast(disk)
  BY DEF IInv, TablesOK
<1> QED
  BY <1>1 DEF NothingBehindEnd, ZeroLast

LEMMA BlocksHold == IInv => NothingLeftBehind
<1> SUFFICES ASSUME IInv, todo = <<>>, pulls = 0
             PROVE  /\ ~JunkIn(table)
                    /\ ExFat => /\ ~Torn(table)
                                /\ \A i \in 1 .. table.len : table.slot[i].kind \in {"c0", "c1"} =>
                                       \E h \in Heads(table) : i \in h .. BlockEnd(table, h)
                    /\ ~ExFat => /\ \A i \in 1 .. table.len : table.slot[i].kind = "lfn" =>
                                        \E h \in Heads(table) : \E m \in Run(table, h, 1) : i \in h - m .. h
                                 /\ \A i, j \in Heads(table) : table.slot[i].sfn = table.slot[j].sfn => i = j
  BY DEF NothingLeftBehind
<1>1. AtRest /\ GoodNow
  BY RestIs DEF AtRest, GoodNow
<1>2. ~JunkIn(table)
  BY <1>1 DEF GoodNow, Calm, JunkIn
<1>3. PICK f, N : f = table.slot /\ N = table.len
  OBVIOUS
<1>4. N \in Nat /\ Owned(N, f)
  BY <1>1, <1>3, NowIs DEF GoodNow, Good
<1>5. ASSUME NEW i \in 1 .. N, f[i].kind \in PartKinds PROVE \E h, n : BlockNow(n, h) /\ h \in Heads(table) /\ i \in PartsAt(n, h)
  <2>1. PICK h \in 1 .. N, n \in Names : Block(f, n, h) /\ i \in PartsAt(n, h)
    BY <1>4, <1>5 DEF Owned
  <2>2. BlockNow(n, h)
    BY <1>3, <2>1 DEF BlockNow
  <2>3. h \in Heads(table)
    BY <1>1, <2>2, NowIs
  <2> QED
    BY <2>1, <2>2, <2>3
<1>6. ASSUME ExFat PROVE ~Torn(table)
  <2>1. ASSUME NEW i \in Heads(table) PROVE Whole(table, i)
    <3>1. PICK m : BlockNow(m, i)
      BY <1>1, NowIs
    <3> QED
      BY <1>1, <1>6, <3>1, ExReads
  <2> QED
    BY <2>1 DEF Torn
<1>7. ASSUME ExFat, NEW i \in 1 .. N, f[i].kind \in {"c0", "c1"} PROVE \E h \in Heads(table) : i \in h .. BlockEnd(table, h)
  <2>1. PICK h, n : BlockNow(n, h) /\ h \in Heads(table) /\ i \in PartsAt(n, h)
    BY <1>5, <1>7, KindsAre
  <2>2. Span(n, h) = h .. BlockEnd(table, h)
    BY <1>1, <1>7, <2>1, ExReads
  <2> QED
    BY <2>1, <2>2 DEF Span
<1>8. ASSUME ~ExFat, NEW i \in 1 .. N, f[i].kind = "lfn" PROVE \E h \in Heads(table) : \E m \in Run(table, h, 1) : i \in h - m .. h
  <2>1. PICK h, n : BlockNow(n, h) /\ h \in Heads(table) /\ i \in PartsAt(n, h)
    BY <1>5, <1>8, KindsAre
  <2>2. PICK p \in Nat, g \in Nat : p = Pieces(n) /\ g = h
    BY <1>3, <1>4, <2>1, NameIs DEF BlockNow
  <2>3. n.lfn /\ i \in g - p .. g - 1
    BY <1>8, <2>1, <2>2 DEF PartsAt
  <2>4. Run(table, g, 1) = {p}
    BY <1>1, <1>8, <2>1, <2>2, <2>3, FatReads
  <2>5. i \in g - p .. g
    BY <2>2, <2>3
  <2> QED
    BY <2>1, <2>2, <2>4, <2>5
<1>9. ASSUME ~ExFat, NEW i \in Heads(table), NEW j \in Heads(table), table.slot[i].sfn = table.slot[j].sfn PROVE i = j
  <2>1. PICK m, k : BlockNow(m, i) /\ BlockNow(k, j)
    BY <1>1, NowIs
  <2>2. Clash(table.slot, m, i, k, j)
    BY <1>9 DEF Clash
  <2> QED
    BY <1>1, <2>1, <2>2, NowIs
<1> QED
  BY <1>2, <1>3, <1>6, <1>7, <1>8, <1>9

LEMMA ReaderHolds == IInv => StayersOnce
<1> SUFFICES ASSUME IInv, rd.open, NEW i \in rd.stay PROVE rd.seen[i] <= 1 /\ (rd.pos = 0 /\ ~rd.failed => rd.seen[i] = 1)
  BY DEF StayersOnce
<1>1. Reader(rd, table.len)
  BY DEF IInv
<1>2. IF rd.pos # 0 THEN rd.seen[i] = IF i < rd.pos THEN 1 ELSE 0
      ELSE rd.seen[i] <= 1 /\ (~rd.failed => rd.seen[i] = 1)
  BY <1>1 DEF Reader
<1>3. CASE rd.pos # 0
  <2>1. rd.seen[i] = 0 \/ rd.seen[i] = 1
    BY <1>2, <1>3
  <2> QED
    BY <1>3, <2>1
<1>4. CASE rd.pos = 0
  BY <1>2, <1>4
<1> QED
  BY <1>3, <1>4

LEMMA NameTold ==
    ASSUME GoodNow, NEW h, NEW name, h \in 1 .. table.len, Told(table.slot, h, name) PROVE Find(table, name) = h
<1>1. PICK n \in Names : Block(table.slot, n, h) /\ \E t : ReadText(table.slot, n, h, t) /\ name = NameOfText(t)
  BY DEF Told
<1>2. PICK t : Block(table.slot, n, h) /\ ReadText(table.slot, n, h, t) /\ name = NameOfText(t)
  BY <1>1
<1>3. BlockNow(n, h)
  BY <1>2 DEF BlockNow
<1>4. ASSUME name \in Names, Leads(name, n, h) PROVE Find(table, name) = h
  <2>1. \A k, g : BlockNow(k, g) /\ Leads(name, k, g) => g = h
    BY <1>3, <1>4, HitOne
  <2> QED
    BY <1>3, <1>4, <2>1, FindGood
<1>5. ASSUME \E m \in Names : m.text = t PROVE name \in Names /\ name.text = t
  <2>1. NameOfText(t) = CHOOSE m \in Names : m.text = t
    BY <1>5 DEF NameOfText
  <2> QED
    BY <1>2, <1>5, <2>1
<1>6. CASE t = n.text /\ (ExFat \/ n.lfn)
  <2>1. name \in Names /\ name.text = n.text
    BY <1>5, <1>6
  <2>2. Leads(name, n, h)
    BY <1>6, <2>1 DEF Leads
  <2> QED
    BY <1>4, <2>1, <2>2
<1>7. CASE ~ExFat /\ t = <<table.slot[h].sfn>>
  <2>1. PICK sfn : sfn = table.slot[h].sfn /\ sfn \in ShortNames
    BY <1>3, <1>7, FatReads
  <2>2. CASE \E m \in Names : m.text = t
    <3>1. name \in Names /\ name.text = <<sfn>>
      BY <1>5, <1>7, <2>1, <2>2
    <3>2. name.sfn = sfn /\ ~name.lossy
      BY <2>1, <3>1, NameIs
    <3>3. Leads(name, n, h)
      BY <1>7, <2>1, <3>2 DEF Leads
    <3> QED
      BY <1>4, <3>1, <3>3
  <2>3. CASE ~\E m \in Names : m.text = t
    <3>1. name = [text |-> t, sfn |-> t[1], lfn |-> FALSE, lossy |-> FALSE]
      BY <1>2, <2>3 DEF NameOfText
    <3>2. name.text = t /\ name.sfn = sfn /\ ~name.lossy
      <4>1. t[1] = sfn
        BY <1>7, <2>1, OneSeq
      <4> QED
        BY <3>1, <4>1
    <3>3. Leads(name, n, h)
      BY <1>7, <2>1, <3>2 DEF Leads
    <3>4. ASSUME NEW k, NEW g, BlockNow(k, g), Leads(name, k, g) PROVE g = h
      <4>1. k.text # t
        BY <2>3, <3>4 DEF BlockNow
      <4>2. table.slot[g].sfn = sfn
        BY <1>7, <3>2, <3>4, <4>1 DEF Leads
      <4>3. Clash(table.slot, n, h, k, g)
        BY <1>7, <2>1, <4>2 DEF Clash
      <4> QED
        BY <1>3, <3>4, <4>3, NowIs
    <3> QED
      BY <1>3, <3>3, <3>4, FindGood
  <2> QED
    BY <2>2, <2>3
<1> QED
  BY <1>2, <1>6, <1>7 DEF ReadText

LEMMA ReportHolds == IInv => ReportedNameLeads
<1> SUFFICES ASSUME IInv, todo = <<>>, rd.at # 0, pulls = 0 PROVE Find(table, rd.name) = rd.at
  BY DEF ReportedNameLeads
<1>1. AtRest /\ GoodNow
  BY RestIs DEF AtRest, GoodNow
<1>2. PICK h, name : h = rd.at /\ name = rd.name
  OBVIOUS
<1>3. h \in 1 .. table.len
  <2>1. table.len \in Nat
    BY <1>1, NowIs
  <2> QED
    BY <1>1, <1>2, <2>1 DEF AtRest, Reader
<1>4. Told(table.slot, h, name)
  BY <1>1, <1>2 DEF AtRest, Held
<1> QED
  BY <1>1, <1>2, <1>3, <1>4, NameTold

\* Of the names used, no two are the same text in another spelling.
OneSpelling == \A n, m \in Names : n.text = m.text => n = m
LEMMA FindTorn ==
    ASSUME NEW n, Find(table, n) # 0, ~(Find(table, n) > 0), table.len \in Nat, ZeroLast(table) PROVE Find(table, n) = -1 /\ Torn(table)
<1>1. PICK S : S = {i \in Heads(table) : Hit(table, n, i) \/ (ExFat /\ ~Whole(table, i))}
  OBVIOUS
<1>2. Find(table, n) = (CASE S = {} -> 0 [] S # {} /\ Hit(table, n, First(S)) -> First(S) [] OTHER -> -1)
  BY <1>1 DEF Find
<1>3. S # {} /\ S \subseteq Heads(table)
  BY <1>1, <1>2
<1>4. Heads(table) = {i \in 1 .. table.len : table.slot[i].kind = HeadKind}
  BY HeadsAre
<1>5. First(S) \in S /\ First(S) > 0
  <2>1. S \subseteq 1 .. table.len
    BY <1>3, <1>4
  <2>2. S \in SUBSET (1 .. table.len) /\ S # {}
    BY <1>3, <2>1
  <2>3. First(S) \in S
    BY <2>2, FirstIs
  <2>4. First(S) \in 1 .. table.len
    BY <2>1, <2>3
  <2>5. \A x : x \in 1 .. table.len => x > 0
    OBVIOUS
  <2> QED
    BY <2>3, <2>4, <2>5
<1>6. ~Hit(table, n, First(S)) /\ Find(table, n) = -1
  <2>1. ~Hit(table, n, First(S))
    BY <1>2, <1>3, <1>5
  <2> QED
    BY <1>2, <1>3, <2>1
<1> QED
  BY <1>1, <1>3, <1>5, <1>6 DEF Torn

LEMMA NamesHold == IInv => (OneSpelling /\ pulls = 0 => NamesLead)
<1> SUFFICES ASSUME IInv, OneSpelling, pulls = 0, todo = <<>>, NEW n \in Names, NEW i, i = Find(table, n)
             PROVE  \/ i = made[n].at /\ (i # 0 => ObjAt(table, i).id = made[n].id)
                    \/ i = -1 /\ Torn(table)
                    \/ made[n].at = 0 /\ i > 0 /\ ~n.lossy /\ ~ExFat /\ table.slot[i].sfn = n.sfn
  BY DEF NamesLead
<1>1. AtRest /\ GoodNow
  BY RestIs DEF AtRest, GoodNow
<1>2. PICK N, f : N \in Nat /\ N = table.len /\ f = table.slot /\ Settled(N, f, made)
  <2>1. table.len \in Nat
    BY <1>1, NowIs
  <2> QED
    BY <1>1, <2>1 DEF AtRest
<1>3. CASE made[n].at # 0
  <2>1. PICK h \in 1 .. N : h = made[n].at /\ Block(f, n, h) /\ IdAt(f, h) = made[n].id
    BY <1>2, <1>3 DEF Settled
  <2>2. BlockNow(n, h)
    BY <1>2, <2>1 DEF BlockNow
  <2>3. Leads(n, n, h)
    BY <1>1, <2>2, LeadsSelf
  <2>4. \A k, g : BlockNow(k, g) /\ Leads(n, k, g) => g = h
    BY <1>1, <2>2, <2>3, HitOne
  <2>5. i = h
    BY <1>1, <2>2, <2>3, <2>4, FindGood
  <2>6. ObjAt(table, h).id = IdAt(f, h)
    BY <1>2 DEF ObjAt, IdAt
  <2> QED
    BY <2>1, <2>5, <2>6
<1>4. CASE made[n].at = 0 /\ i > 0
  <2>1. PICK m : BlockNow(m, i) /\ Leads(n, m, i)
    BY <1>1, <1>4, FindGood
  <2>2. i \in 1 .. N /\ m \in Names /\ Block(f, m, i)
    BY <1>2, <2>1 DEF BlockNow
  <2>3. f[i].kind = HeadKind
    <3>1. i \in Nat
      BY <2>2
    <3> QED
      BY <2>2, <3>1, BlockKinds
  <2>4. PICK p \in Names : made[p].at = i
    BY <1>2, <2>2, <2>3 DEF Settled
  <2>5. Block(f, p, i) /\ i \in Nat /\ i > 0
    <3>1. i # 0
      BY <2>2
    <3>2. Block(f, p, i)
      BY <1>2, <2>4, <3>1 DEF Settled
    <3> QED
      BY <2>2, <3>2
  <2>6. SameName(p, m)
    BY <2>2, <2>5, BlockName
  <2>7. p.text # n.text
    <3>1. p # n
      BY <1>4, <2>4
    <3> QED
      BY <3>1 DEF OneSpelling
  <2>8. ~ExFat /\ ~n.lossy /\ table.slot[i].sfn = n.sfn
    BY <2>1, <2>6, <2>7 DEF SameName, Leads
  <2> QED
    BY <1>4, <2>8
<1>5. CASE made[n].at = 0 /\ i = 0
  BY <1>5
<1>6. CASE made[n].at = 0 /\ i # 0 /\ ~(i > 0)
  <2>1. table.len \in Nat /\ ZeroLast(table)
    BY <1>1, NowIs
  <2>2. i = -1 /\ Torn(table)
    BY <1>6, <2>1, FindTorn
  <2> QED
    BY <2>2
<1> QED
  BY <1>3, <1>4, <1>5, <1>6

\* TableSound: the table always holds its fields' values; nothing lies behind the mark that
\* ends it, on the drive either; and between calls, while the drive stays in, dir_register and
\* dir_remove have left no piece, no half of a set and no cluster's old contents behind.
THEOREM TablesStaySound == Spec => []TableSound
<1>1. IInv => TableSound
  BY TypesHold, EndHolds, BlocksHold DEF TableSound
<1> QED
  BY <1>1, DirectoryInvariant, PTL

\* ReadersRight: an open directory gives each entry that stays exactly once, and the name it
\* gave leads dir_find to that entry, whatever is made, renamed, written and removed between.
THEOREM ReadersStayRight == Spec => []ReadersRight
<1>1. IInv => ReadersRight
  BY ReaderHolds, ReportHolds DEF ReadersRight
<1> QED
  BY <1>1, DirectoryInvariant, PTL

\* NamesLead, while the drive stays in: whatever was made, renamed, written and removed, a
\* name that was made leads dir_find to the entry and the object it was made for, and a name
\* that was not leads nowhere, or is the short name of another.
THEOREM NamesKeepLeading == Spec => [](OneSpelling /\ pulls = 0 => NamesLead)
<1>1. IInv => (OneSpelling /\ pulls = 0 => NamesLead)
  BY NamesHold
<1> QED
  BY <1>1, DirectoryInvariant, PTL
=============================================================================
