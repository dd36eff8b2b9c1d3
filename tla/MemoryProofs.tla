------------------------------ MODULE MemoryProofs ------------------------------
(***************************************************************************)
(* Theorems about the memory side of the boot: Pmm, for every set of       *)
(* memory maps, every kernel size and every sequence of calls; Multiboot,  *)
(* for every sequence of tags; and Memory, which uses both, and in which   *)
(* any number of callers, kept to the rules of Orderly, map and unmap      *)
(* pages and create address spaces.                                        *)
(***************************************************************************)
EXTENDS Memory, FiniteSetTheorems, WellFoundedInduction, TLAPS

-------------------------------------------------------------------------------

(* Every non-empty set of naturals has a least element: what the search in *)
(* pmm_alloc_page finds is well defined.                                   *)
LEMMA NatMin ==
  ASSUME NEW T \in SUBSET Nat, T # {}
  PROVE  \E x \in T : \A y \in T : x <= y
  <1> DEFINE R == OpToRel(<, Nat)
  <1>1. IsWellFoundedOn(R, Nat)
    BY NatLessThanWellFounded
  <1>2. \A x, y \in Nat : (y < x) => <<y, x>> \in R
    BY DEF OpToRel
  <1> HIDE DEF R
  <1>3. PICK x \in T : \A y \in T : ~(<<y, x>> \in R)
    BY <1>1, WFMin
  <1>4. \A y \in T : ~(y < x)
    BY <1>2, <1>3, Zenon
  <1> QED BY <1>4

(* A bounded non-empty set of naturals has a greatest element: so has the  *)
(* set of the ends of the regions.                                         *)
LEMMA NatMax ==
  ASSUME NEW T \in SUBSET Nat, T # {}, NEW limit \in Nat, \A y \in T : y <= limit
  PROVE  Max(T) \in T /\ \A y \in T : y <= Max(T)
  <1> DEFINE Bounds == {n \in Nat : \A y \in T : y <= n}
  <1>1. limit \in Bounds /\ Bounds \in SUBSET Nat
    OBVIOUS
  <1>2. PICK b \in Bounds : \A n \in Bounds : b <= n
    <2>1. Bounds \in SUBSET Nat /\ Bounds # {}
      BY <1>1
    <2> HIDE DEF Bounds
    <2> QED BY <2>1, NatMin
  <1>3. b \in T
    <2> SUFFICES ASSUME b \notin T PROVE FALSE
      OBVIOUS
    <2>1. \A y \in T : y < b
      BY <1>2
    <2>2. b # 0
      <3>1. PICK y \in T : TRUE
        OBVIOUS
      <3>2. y \in Nat /\ b \in Nat /\ y < b
        BY <2>1, <3>1
      <3> QED BY <3>2
    <2>3. b - 1 \in Bounds
      BY <2>1, <2>2
    <2> QED BY <1>2, <2>3
  <1>4. \E x \in T : \A y \in T : x >= y
    BY <1>2, <1>3
  <1> QED BY <1>4 DEF Max

-------------------------------------------------------------------------------

(* Pages of a region that ends below a are pages below a. *)
LEMMA RegionBelow ==
  ASSUME NEW e \in Entry, NEW a \in Nat, e.addr + e.len <= a
  PROVE  PagesOf(e) \subseteq 0 .. (a \div PAGE_SIZE - 1)
  <1> DEFINE x == e.addr
             y == e.len
  <1>1. x \in Nat /\ y \in Nat /\ x + y <= a
    BY DEF Entry
  <1>2. PagesOf(e) = (x \div 4096) .. (x \div 4096 + y \div 4096 - 1)
    BY DEF PagesOf, PAGE_SIZE
  <1> HIDE DEF x, y
  <1>3. /\ x \div 4096 \in Nat /\ y \div 4096 \in Nat
        /\ x \div 4096 + y \div 4096 <= a \div 4096
    BY <1>1
  <1> QED BY <1>2, <1>3 DEF PAGE_SIZE

(* pmm_init looks only at pages below total_pages. *)
LEMMA TotalPagesBound ==
  ASSUME NEW map, NEW limit \in Nat, IsMap(map, limit)
  PROVE  /\ TotalPages(map) \in Nat
         /\ \A e \in AvailableEntries(map) :
              PagesOf(e) \subseteq 0 .. (TotalPages(map) - 1)
  <1> DEFINE Ends == {e.addr + e.len : e \in AvailableEntries(map)}
             All == {0} \union Ends
  <1>1. \A e \in AvailableEntries(map) : e \in Entry /\ e.addr + e.len <= limit
    BY DEF IsMap, AvailableEntries
  <1>2. All \in SUBSET Nat
    BY <1>1 DEF Entry
  <1>3. \A y \in All : y <= limit
    BY <1>1
  <1>4. Max(All) \in All /\ \A y \in All : y <= Max(All)
    BY <1>2, <1>3, NatMax
  <1>5. Max(All) \in Nat
    BY <1>2, <1>4
  <1>6. TotalPages(map) = Max(All) \div PAGE_SIZE
    BY DEF TotalPages
  <1> HIDE DEF All
  <1>7. TotalPages(map) \in Nat
    BY <1>5, <1>6 DEF PAGE_SIZE
  <1>8. ASSUME NEW e \in AvailableEntries(map)
        PROVE  PagesOf(e) \subseteq 0 .. (TotalPages(map) - 1)
    <2>1. e.addr + e.len <= Max(All)
      BY <1>4 DEF All
    <2> QED BY <1>1, <1>5, <1>6, <2>1, RegionBelow
  <1> QED BY <1>7, <1>8

(* The bitmap's size is a number of bytes. *)
LEMMA BitmapSizeType ==
  ASSUME NEW total \in Nat
  PROVE  BitmapSize(total) \in Nat
  BY DEF BitmapSize

(* Rounding up: the pages counted cover the bytes. *)
LEMMA RoundUp ==
  ASSUME NEW n \in Nat
  PROVE  /\ (n + PAGE_SIZE - 1) \div PAGE_SIZE \in Nat
         /\ n <= ((n + PAGE_SIZE - 1) \div PAGE_SIZE) * PAGE_SIZE
  BY DEF PAGE_SIZE

(* A page that touches the kernel image or the bitmap is reserved, though  *)
(* the two are rounded to pages separately and share a page.               *)
LEMMA ReservedCovers ==
  ASSUME NEW total \in Nat, NEW pfn \in 0 .. (total - 1),
         Touches(pfn, KernelStart, KernelEnd + BitmapSize(total) - 1)
  PROVE  pfn \in Reserved(total)
  <1> DEFINE first == KernelStart \div PAGE_SIZE
             k == (KernelEnd - KernelStart + PAGE_SIZE - 1) \div PAGE_SIZE
             b == (BitmapSize(total) + PAGE_SIZE - 1) \div PAGE_SIZE
             bytes == BitmapSize(total)
  <1>1. bytes \in Nat
    BY BitmapSizeType
  <1>2. KernelEnd - KernelStart \in Nat /\ KernelStart \in Nat /\ KernelEnd \in Nat
    BY KernelAssumption
  <1>3. k \in Nat /\ KernelEnd - KernelStart <= k * PAGE_SIZE
    BY <1>2, RoundUp
  <1>4. b \in Nat /\ bytes <= b * PAGE_SIZE
    BY <1>1, RoundUp
  <1>5. first \in Nat /\ KernelStart = first * PAGE_SIZE
    BY <1>2, KernelAssumption DEF PAGE_SIZE
  <1>6. pfn * PAGE_SIZE <= KernelEnd + bytes - 1 /\ (pfn + 1) * PAGE_SIZE > KernelStart
    BY DEF Touches
  <1>7. Reserved(total) = (first .. (first + k + b - 1)) \intersect (0 .. (total - 1))
    BY DEF Reserved
  <1> HIDE DEF first, k, b, bytes
  <1>8. pfn >= first /\ pfn <= first + k + b - 1
    BY <1>1, <1>2, <1>3, <1>4, <1>5, <1>6 DEF PAGE_SIZE
  <1> QED BY <1>7, <1>8

-------------------------------------------------------------------------------

(* A bitmap whose counter agrees with it and in which the kernel is set. *)
Sound(pm) ==
  /\ pm \in PmmState
  /\ pm.used \subseteq 0 .. (pm.total_pages - 1)
  /\ pm.used_pages = Cardinality(pm.used)
  /\ Reserved(pm.total_pages) \subseteq pm.used

(* pmm_init produces one, whatever the order and overlap of the regions. *)
LEMMA InitSound ==
  ASSUME NEW map, NEW limit \in Nat, IsMap(map, limit)
  PROVE  Sound(pmm_init(map)) /\ pmm_init(map).total_pages = TotalPages(map)
  <1> DEFINE total == TotalPages(map)
             pages == 0 .. (total - 1)
             freed == UNION {PagesOf(e) : e \in AvailableEntries(map)}
             again == Reserved(total) \intersect freed
             pm == pmm_init(map)
  <1>1. total \in Nat /\ freed \subseteq pages
    BY TotalPagesBound
  <1>2. /\ pm.total_pages = total
        /\ pm.used = (pages \ freed) \union again
        /\ pm.used_pages = total - Cardinality(freed) + Cardinality(again)
        /\ pm = [total_pages |-> pm.total_pages, used |-> pm.used,
                 used_pages |-> pm.used_pages]
    BY DEF pmm_init
  <1>3. Reserved(total) \subseteq pages
    BY DEF Reserved
  <1> HIDE DEF total, pages, freed, again, pm
  <1>4. IsFiniteSet(pages) /\ Cardinality(pages) = total
    BY <1>1, FS_Interval DEF pages
  <1>5. IsFiniteSet(freed) /\ Cardinality(freed) \in Nat
    BY <1>1, <1>4, FS_Subset, FS_CardinalityType
  <1>6. IsFiniteSet(again) /\ Cardinality(again) \in Nat /\ again \subseteq freed
    BY <1>5, FS_Subset, FS_CardinalityType DEF again
  <1>7. /\ IsFiniteSet(pages \ freed)
        /\ Cardinality(pages \ freed) = total - Cardinality(freed)
    <2>1. pages \intersect freed = freed
      BY <1>1
    <2> QED BY <1>4, <2>1, FS_Difference
  <1>8. Cardinality(pm.used) = total - Cardinality(freed) + Cardinality(again)
    <2>1. (pages \ freed) \intersect again = {}
      BY <1>6
    <2>2. Cardinality((pages \ freed) \union again)
            = Cardinality(pages \ freed) + Cardinality(again) - Cardinality({})
      BY <1>6, <1>7, <2>1, FS_Union
    <2> QED BY <1>2, <1>5, <1>6, <1>7, <2>2, FS_EmptySet
  <1>9. pm.used \subseteq pages
    BY <1>1, <1>2, <1>6
  <1>10. Cardinality(pm.used) \in Nat
    BY <1>4, <1>9, FS_Subset, FS_CardinalityType
  <1>11. Reserved(total) \subseteq pm.used
    BY <1>2, <1>3 DEF again
  <1>12. pm.used \in SUBSET Nat
    BY <1>9 DEF pages
  <1>13. pm \in PmmState
    BY <1>1, <1>2, <1>8, <1>10, <1>12 DEF PmmState
  <1>14. Sound(pm)
    BY <1>2, <1>8, <1>9, <1>11, <1>13 DEF Sound, pages
  <1> QED BY <1>2, <1>14 DEF pm, total

(* The used pages are finitely many.                                       *)
LEMMA SoundFinite ==
  ASSUME NEW pm, Sound(pm)
  PROVE  IsFiniteSet(pm.used)
  <1> DEFINE pages == 0 .. (pm.total_pages - 1)
  <1>1. 0 \in Int /\ pm.total_pages - 1 \in Int
    BY DEF Sound, PmmState
  <1>2. IsFiniteSet(pages)
    BY <1>1, FS_Interval
  <1>3. pm.used \in SUBSET pages
    BY DEF Sound
  <1> HIDE DEF pages
  <1> QED BY <1>2, <1>3, FS_Subset

(* A search that succeeds finds a free page. *)
LEMMA FirstFreeIsFree ==
  ASSUME NEW pm, Sound(pm), FreePages(pm) # {}
  PROVE  /\ FirstFree(pm) \in FreePages(pm)
         /\ FirstFree(pm) \in Nat
  <1>1. FreePages(pm) \in SUBSET Nat
    BY DEF FreePages, Sound, PmmState
  <1>2. \E i \in FreePages(pm) : \A j \in FreePages(pm) : i <= j
    BY <1>1, NatMin
  <1> QED BY <1>1, <1>2 DEF FirstFree

(* pmm_alloc_page and pmm_free_page keep a sound bitmap sound. *)
LEMMA AllocSound ==
  ASSUME NEW pm, Sound(pm)
  PROVE  /\ Sound(Alloc(pm)) /\ Alloc(pm).total_pages = pm.total_pages
         /\ FreePages(pm) # {} =>
              Alloc(pm).used = pm.used \union {FirstFree(pm)}
         /\ FreePages(pm) = {} => Alloc(pm) = pm
  <1>1. CASE FreePages(pm) = {}
    BY <1>1 DEF Alloc
  <1>2. CASE FreePages(pm) # {}
    <2> DEFINE i == FirstFree(pm)
    <2>1. i \in 0 .. (pm.total_pages - 1) /\ i \notin pm.used /\ i \in Nat
      BY <1>2, FirstFreeIsFree DEF FreePages
    <2>2. Alloc(pm) = [pm EXCEPT !.used = @ \union {i}, !.used_pages = @ + 1]
      BY <1>2 DEF Alloc
    <2> HIDE DEF i
    <2>3. IsFiniteSet(pm.used)
      BY SoundFinite
    <2>4. Cardinality(pm.used \union {i}) = Cardinality(pm.used) + 1
      BY <2>1, <2>3, FS_AddElement
    <2>5. /\ Alloc(pm).used = pm.used \union {i}
          /\ Alloc(pm).used_pages = pm.used_pages + 1
          /\ Alloc(pm).total_pages = pm.total_pages
      BY <2>1, <2>2 DEF Sound, PmmState
    <2>6. pm.used \union {i} \in SUBSET Nat /\ pm.used_pages + 1 \in Nat
      BY <2>1 DEF Sound, PmmState
    <2>7. Alloc(pm) \in PmmState
      BY <2>2, <2>6 DEF Sound, PmmState
    <2>8. Sound(Alloc(pm))
      BY <2>1, <2>4, <2>5, <2>7 DEF Sound
    <2> QED BY <1>2, <2>5, <2>8 DEF i
  <1> QED BY <1>1, <1>2

(* Freeing a page keeps the count in step with the bitmap.                 *)
LEMMA FreeSound ==
  ASSUME NEW pm, Sound(pm), NEW pfn \in Nat, pfn \notin Reserved(pm.total_pages)
  PROVE  /\ Sound(Free(pm, pfn)) /\ Free(pm, pfn).total_pages = pm.total_pages
         /\ Free(pm, pfn).used = pm.used \ {pfn}
  <1>1. CASE pfn >= pm.total_pages \/ pfn \notin pm.used
    <2>1. pfn \notin pm.used
      BY <1>1 DEF Sound, PmmState
    <2> QED BY <1>1, <2>1 DEF Free
  <1>2. CASE ~(pfn >= pm.total_pages \/ pfn \notin pm.used)
    <2>1. Free(pm, pfn) = [pm EXCEPT !.used = @ \ {pfn}, !.used_pages = @ - 1]
      BY <1>2 DEF Free
    <2>2. IsFiniteSet(pm.used)
      BY SoundFinite
    <2>3. /\ Cardinality(pm.used \ {pfn}) = Cardinality(pm.used) - 1
          /\ Cardinality(pm.used \ {pfn}) \in Nat
      BY <1>2, <2>2, FS_RemoveElement, FS_CardinalityType
    <2>4. /\ Free(pm, pfn).used = pm.used \ {pfn}
          /\ Free(pm, pfn).used_pages = pm.used_pages - 1
          /\ Free(pm, pfn).total_pages = pm.total_pages
      BY <2>1 DEF Sound, PmmState
    <2>5. Free(pm, pfn) \in PmmState
      BY <2>1, <2>3, <2>4 DEF Sound, PmmState
    <2>6. Reserved(pm.total_pages) \subseteq pm.used \ {pfn}
      BY DEF Sound
    <2> QED BY <2>3, <2>4, <2>5, <2>6 DEF Sound
  <1> QED BY <1>1, <1>2

-------------------------------------------------------------------------------

(* The inductive invariant: before pmm_init there are no pages; afterwards *)
(* the bitmap is sound, callers hold set bits outside the kernel, and      *)
(* every other set bit was set by pmm_init.                                *)
PmmInv ==
  /\ Sound(pmm)
  /\ mmap \in MemoryMaps
  /\ ret \in Nat
  /\ held \subseteq pmm.used \ Reserved(pmm.total_pages)
  /\ pmm = NoPages \/ pmm.total_pages = pmm_init(mmap).total_pages
  /\ pmm.used \subseteq pmm_init(mmap).used \union held \union {0}

(* Pmm's invariant holds at first ...                                      *)
LEMMA PmmInvInit == Init => PmmInv
  <1> SUFFICES ASSUME Init PROVE PmmInv
    OBVIOUS
  <1>1. /\ pmm.used = {} /\ pmm.total_pages = 0 /\ pmm.used_pages = 0
        /\ pmm \in PmmState
    BY DEF Init, NoPages, PmmState
  <1>2. Reserved(0) = {}
    BY DEF Reserved
  <1>3. Sound(pmm)
    BY <1>1, <1>2, FS_EmptySet DEF Sound
  <1> QED BY <1>1, <1>3 DEF Init, PmmInv

(* ... and after every call.                                               *)
LEMMA PmmInvNext == PmmInv /\ [Next]_vars => PmmInv'
  <1> SUFFICES ASSUME PmmInv, [Next]_vars PROVE PmmInv'
    OBVIOUS
  <1> USE DEF PmmInv
  <1>0. IsMap(mmap, AddressLimit) /\ AddressLimit \in Nat
    BY MapsAssumption
  <1>1. CASE Boot
    <2>1. Sound(pmm_init(mmap))
      BY <1>0, InitSound
    <2>2. pmm' = pmm_init(mmap) /\ mmap' = mmap /\ held' = held /\ ret' = ret
      BY <1>1 DEF Boot
    <2>3. held = {}
      BY <1>1 DEF Boot, NoPages
    <2> QED BY <2>1, <2>2, <2>3
  <1>2. CASE pmm_alloc_page
    <2>1. /\ pmm' = Alloc(pmm) /\ mmap' = mmap /\ ret' = AllocResult(pmm)
          /\ held' = IF ret' = 0 THEN held ELSE held \union {ret' \div PAGE_SIZE}
      BY <1>2 DEF pmm_alloc_page
    <2>2. CASE FreePages(pmm) = {}
      <3>1. pmm' = pmm /\ ret' = 0
        BY <2>1, <2>2, AllocSound DEF AllocResult
      <3> QED BY <2>1, <3>1
    <2>3. CASE FreePages(pmm) # {}
      <3> DEFINE i == FirstFree(pmm)
      <3>1. i \in Nat /\ i \notin pmm.used
        BY <2>3, FirstFreeIsFree DEF FreePages
      <3>2. ret' = i * PAGE_SIZE
        BY <2>1, <2>3 DEF AllocResult
      <3>3. /\ pmm'.used = pmm.used \union {i}
            /\ pmm'.total_pages = pmm.total_pages
            /\ Sound(pmm')
        BY <2>1, <2>3, AllocSound
      <3> HIDE DEF i
      <3>4. ret' \in Nat /\ (ret' = 0 <=> i = 0) /\ ret' \div PAGE_SIZE = i
        BY <3>1, <3>2 DEF PAGE_SIZE
      <3>5. held' \subseteq held \union {i} /\ (i # 0 => held' = held \union {i})
        BY <2>1, <3>4
      <3>6. held \subseteq held'
        BY <2>1
      <3>7. i \notin Reserved(pmm.total_pages)
        BY <3>1 DEF Sound
      <3>8. held' \subseteq pmm'.used \ Reserved(pmm'.total_pages)
        <4>1. CASE i = 0
          BY <4>1, <2>1, <3>3, <3>4
        <4>2. CASE i # 0
          BY <4>2, <3>3, <3>5, <3>7
        <4> QED BY <4>1, <4>2
      <3>9. pmm'.used \subseteq pmm_init(mmap).used \union held' \union {0}
        BY <3>3, <3>5, <3>6
      <3>10. pmm # NoPages
        BY <2>3 DEF NoPages, FreePages
      <3> QED BY <2>1, <3>3, <3>4, <3>8, <3>9, <3>10
    <2> QED BY <2>2, <2>3
  <1>3. ASSUME NEW pfn \in 0 .. pmm.total_pages, pmm_free_page(pfn)
        PROVE  PmmInv'
    <2>1. /\ pmm' = Free(pmm, pfn) /\ mmap' = mmap /\ ret' = ret
          /\ held' = held \ {pfn}
          /\ pfn \in held \union FreePages(pmm) \union {pmm.total_pages}
      BY <1>3 DEF pmm_free_page
    <2>2. pfn \in Nat
      BY DEF Sound, PmmState
    <2>3. pfn \notin Reserved(pmm.total_pages)
      BY <2>1 DEF Sound, FreePages, PmmState
    <2>4. /\ Sound(pmm') /\ pmm'.total_pages = pmm.total_pages
          /\ pmm'.used = pmm.used \ {pfn}
      BY <2>1, <2>2, <2>3, FreeSound
    <2>5. pmm = NoPages => pmm' = NoPages
      BY <2>1 DEF NoPages, Free
    <2> QED BY <2>1, <2>4, <2>5
  <1>4. CASE UNCHANGED vars
    BY <1>4 DEF vars
  <1> QED BY <1>1, <1>2, <1>3, <1>4 DEF Next

(* The invariant holds in every reachable state. *)
THEOREM PmmInvHolds == Spec => []PmmInv
  BY PmmInvInit, PmmInvNext, PTL DEF Spec

-------------------------------------------------------------------------------

(* Types. *)
THEOREM PmmTypeCorrect == Spec => []TypeOK
  <1>1. PmmInv => TypeOK
    BY DEF PmmInv, TypeOK, Sound
  <1> QED BY <1>1, PmmInvHolds, PTL

(* used_pages is the number of set bits, always: the three getters tell    *)
(* the truth about the bitmap.                                             *)
THEOREM CountersAlwaysAgree == Spec => []CountersAgree
  <1>1. PmmInv => CountersAgree
    BY DEF PmmInv, CountersAgree, Sound
  <1> QED BY <1>1, PmmInvHolds, PTL

(* No page is given to two callers, and no byte of the kernel or of the    *)
(* bitmap to any, for every memory map and every kernel size.              *)
THEOREM UseIsExclusive == Spec => []ExclusiveUse
  <1>1. ASSUME PmmInv PROVE ExclusiveUse
    <2> USE <1>1 DEF PmmInv
    <2>1. held \subseteq pmm.used
      OBVIOUS
    <2>2. ASSUME NEW pfn \in held,
                 Touches(pfn, KernelStart, KernelEnd + BitmapSize(pmm.total_pages) - 1)
          PROVE  FALSE
      <3>1. pmm.total_pages \in Nat /\ pfn \in 0 .. (pmm.total_pages - 1)
        BY DEF Sound, PmmState
      <3> QED BY <2>2, <3>1, ReservedCovers
    <2> QED BY <2>1, <2>2 DEF ExclusiveUse
  <1> QED BY <1>1, PmmInvHolds, PTL

(* No page but page 0 is ever lost. *)
THEOREM OnlyPageZeroLeaks == Spec => []NoPageLeaked
  <1>1. PmmInv => NoPageLeaked
    BY DEF PmmInv, NoPageLeaked
  <1> QED BY <1>1, PmmInvHolds, PTL

-------------------------------------------------------------------------------

(* The offsets of the tags, and the walk over them. *)

OffsetsIn(f, tags, n) ==
  f = [i \in 1 .. n |-> IF i = 1 THEN 8 ELSE f[i - 1] + Align8(tags[i - 1].size)]

(* The recursive function of the tags' offsets has a value for every       *)
(* number of tags.                                                         *)
LEMMA OffsetsExist ==
  ASSUME NEW tags, NEW n \in Nat
  PROVE  \E f : OffsetsIn(f, tags, n)
  <1> USE DEF OffsetsIn
  <1> DEFINE Has(m) == \E f : OffsetsIn(f, tags, m)
             Bad == {m \in Nat : ~Has(m)}
  <1>1. Has(0)
    <2> DEFINE f == [i \in 1 .. 0 |-> 8]
    <2>1. f = [i \in 1 .. 0 |-> IF i = 1 THEN 8 ELSE f[i - 1] + Align8(tags[i - 1].size)]
      OBVIOUS
    <2> HIDE DEF f
    <2> QED BY <2>1
  <1>2. ASSUME NEW m \in Nat, Has(m)
        PROVE  Has(m + 1)
    <2>1. PICK f : f = [i \in 1 .. m |-> IF i = 1 THEN 8
                                         ELSE f[i - 1] + Align8(tags[i - 1].size)]
      BY <1>2
    <2> DEFINE new == IF m = 0 THEN 8 ELSE f[m] + Align8(tags[m].size)
               g == [i \in 1 .. (m + 1) |-> IF i = m + 1 THEN new ELSE f[i]]
    <2>2. ASSUME NEW i \in 1 .. (m + 1)
          PROVE  g[i] = IF i = 1 THEN 8 ELSE g[i - 1] + Align8(tags[i - 1].size)
      <3>1. CASE i = m + 1
        <4>1. g[i] = new /\ i - 1 = m
          BY <3>1
        <4>2. CASE m = 0
          BY <3>1, <4>1, <4>2
        <4>3. CASE m # 0
          <5>1. g[m] = f[m] /\ i # 1
            BY <3>1, <4>3
          <5>2. new = f[m] + Align8(tags[m].size)
            BY <4>3
          <5> HIDE DEF g, new
          <5> QED BY <4>1, <5>1, <5>2
        <4> QED BY <4>2, <4>3
      <3>2. CASE i # m + 1
        <4>1. i \in 1 .. m
          BY <3>2
        <4>2. g[i] = f[i]
          BY <3>2
        <4>3. f[i] = IF i = 1 THEN 8 ELSE f[i - 1] + Align8(tags[i - 1].size)
          BY <2>1, <4>1
        <4>4. i # 1 => g[i - 1] = f[i - 1]
          BY <4>1
        <4> HIDE DEF g
        <4> QED BY <4>2, <4>3, <4>4
      <3> QED BY <3>1, <3>2
    <2>3. g = [i \in 1 .. (m + 1) |-> g[i]]
      OBVIOUS
    <2> HIDE DEF g
    <2>4. g = [i \in 1 .. (m + 1) |-> IF i = 1 THEN 8
                                      ELSE g[i - 1] + Align8(tags[i - 1].size)]
      BY <2>2, <2>3
    <2> QED BY <2>4
  <1> HIDE DEF Has
  <1>3. Bad = {}
    <2> SUFFICES ASSUME Bad # {} PROVE FALSE
      OBVIOUS
    <2>1. PICK m \in Bad : \A y \in Bad : m <= y
      <3>1. Bad \in SUBSET Nat
        OBVIOUS
      <3> HIDE DEF Bad
      <3> QED BY <3>1, NatMin
    <2>2. m \in Nat /\ ~Has(m) /\ m # 0
      BY <1>1
    <2>3. m - 1 \in Nat /\ m - 1 \notin Bad
      BY <2>1, <2>2
    <2>4. Has((m - 1) + 1)
      BY <1>2, <2>3
    <2>5. (m - 1) + 1 = m
      BY <2>2
    <2> QED BY <2>2, <2>4, <2>5
  <1> QED BY <1>3 DEF Has

(* GRUB's tags lie one behind the other from offset 8 on. *)
LEMMA OffsetsRise ==
  ASSUME NEW info \in Infos
  PROVE  LET at == OffsetOf(info.tags)
             n == Len(info.tags)
         IN  /\ n \in Nat \ {0} /\ at[1] = 8
             /\ \A i \in 1 .. n : at[i] \in Nat /\ at[i] >= 8
             /\ \A i \in 1 .. n : i # n => at[i + 1] = at[i] + Align8(info.tags[i].size)
             /\ \A i, j \in 1 .. n : at[i] = at[j] => i = j
  <1> DEFINE tags == info.tags
             n == Len(tags)
             at == OffsetOf(tags)
  <1>1. /\ n \in Nat \ {0}
        /\ \A i \in 1 .. n : tags[i].size \in Nat \ {0}
    BY InfosAssumption
  <1>2. at = CHOOSE f : OffsetsIn(f, tags, n)
    BY DEF OffsetOf, OffsetsIn
  <1>3. OffsetsIn(at, tags, n)
    BY <1>1, <1>2, OffsetsExist
  <1> HIDE DEF at, n, tags
  <1>4. \A i \in 1 .. n : at[i] = IF i = 1 THEN 8 ELSE at[i - 1] + Align8(tags[i - 1].size)
    BY <1>3 DEF OffsetsIn
  <1>5. \A i \in 1 .. n : Align8(tags[i].size) \in Nat /\ Align8(tags[i].size) >= 8
    <2> TAKE i \in 1 .. n
    <2>1. \A x \in Nat \ {0} : ((x + 7) \div 8) * 8 \in Nat /\ ((x + 7) \div 8) * 8 >= 8
      OBVIOUS
    <2> QED BY <1>1, <2>1 DEF Align8
  <1>6. \A i \in 1 .. n : i # n =>
          /\ i + 1 \in 1 .. n /\ i + 1 # 1 /\ (i + 1) - 1 = i
          /\ at[i + 1] = at[i] + Align8(tags[i].size)
    BY <1>1, <1>4
  <1> DEFINE Rises(m) == \A i \in 1 .. m : at[i] \in Nat /\ at[i] >= 8
                                           /\ \A j \in 1 .. m : i < j => at[i] < at[j]
             Bad == {m \in 1 .. n : ~Rises(m)}
  <1>7. Rises(1)
    BY <1>1, <1>4
  <1>8. ASSUME NEW m \in 1 .. n, m # n, Rises(m)
        PROVE  Rises(m + 1)
    <2>1. at[m] \in Nat /\ at[m] >= 8 /\ at[m + 1] = at[m] + Align8(tags[m].size)
      BY <1>1, <1>6, <1>8
    <2>2. at[m + 1] \in Nat /\ at[m + 1] > at[m]
      BY <1>5, <2>1
    <2>3. \A i \in 1 .. m : at[i] \in Nat /\ at[i] <= at[m]
      BY <1>1, <1>8
    <2>4. \A i \in 1 .. m : at[i] < at[m + 1]
      BY <2>1, <2>2, <2>3
    <2>5. \A i \in 1 .. (m + 1) : i \in 1 .. m \/ i = m + 1
      BY <1>1
    <2> QED BY <1>8, <2>1, <2>2, <2>4, <2>5
  <1> HIDE DEF Rises
  <1>9. Bad = {}
    <2> SUFFICES ASSUME Bad # {} PROVE FALSE
      OBVIOUS
    <2>1. PICK m \in Bad : \A y \in Bad : m <= y
      <3>1. Bad \in SUBSET Nat
        BY <1>1
      <3> HIDE DEF Bad
      <3> QED BY <3>1, NatMin
    <2>2. m \in 1 .. n /\ ~Rises(m) /\ m # 1
      BY <1>7
    <2>3. m - 1 \in 1 .. n /\ m - 1 \notin Bad /\ m - 1 # n /\ (m - 1) + 1 = m
      BY <1>1, <2>1, <2>2
    <2> QED BY <1>8, <2>2, <2>3
  <1>10. Rises(n)
    BY <1>1, <1>9
  <1>11. \A i \in 1 .. n : at[i] \in Nat /\ at[i] >= 8
    BY <1>10 DEF Rises
  <1>12. \A i, j \in 1 .. n : at[i] = at[j] => i = j
    <2> SUFFICES ASSUME NEW i \in 1 .. n, NEW j \in 1 .. n, i # j PROVE at[i] # at[j]
      OBVIOUS
    <2>1. i < j \/ j < i
      BY <1>1
    <2>2. (i < j => at[i] < at[j]) /\ (j < i => at[j] < at[i])
      BY <1>10 DEF Rises
    <2> QED BY <1>11, <2>1, <2>2
  <1>13. at[1] = 8
    BY <1>1, <1>4
  <1> QED BY <1>1, <1>6, <1>11, <1>12, <1>13 DEF at, n, tags

(* Where the walk is, and that it has not missed a tag on the way. *)
Finds(pointer, type) ==
  LET at == OffsetOf(mbi.tags)
      n == Len(mbi.tags)
  IN  /\ pointer # 0 => \E i \in 1 .. n : pointer = at[i] /\ mbi.tags[i].type = type
      /\ pointer = 0 =>
           /\ \A k \in 1 .. n : tag = at[k] =>
                \A i \in 1 .. (k - 1) : mbi.tags[i].type # type
           /\ tag = Parsed /\ mbi.magic => \A i \in 1 .. n : mbi.tags[i].type # type

WalkInv ==
  /\ mbi \in Infos
  /\ tag \in Offsets \union {0, Parsed}
  /\ tag = 0 \/ ~mbi.magic => mmap_tag = 0 /\ meminfo_tag = 0 /\ bootloader_tag = 0
  /\ tag \in Offsets => mbi.magic
  /\ Finds(mmap_tag, "mmap") /\ Finds(meminfo_tag, "meminfo") /\ Finds(bootloader_tag, "name")

(* The offsets that the parser goes through are those of the tags, and     *)
(* where a tag starts it is read.                                          *)
LEMMA TagFound ==
  ASSUME mbi \in Infos
  PROVE  LET at == OffsetOf(mbi.tags)
             n == Len(mbi.tags)
         IN  /\ Offsets = {at[i] : i \in 1 .. n}
             /\ \A i \in 1 .. n : TagAt(at[i]) = mbi.tags[i] /\ at[i] # 0 /\ at[i] # Parsed
  <1> DEFINE tags == mbi.tags
             at == OffsetOf(tags)
             n == Len(tags)
  <1>1. /\ DOMAIN tags = 1 .. n
        /\ \A i \in 1 .. n : at[i] \in Nat /\ at[i] >= 8
        /\ \A i, j \in 1 .. n : at[i] = at[j] => i = j
    BY OffsetsRise, InfosAssumption
  <1> HIDE DEF at, n
  <1>2. Offsets = {at[i] : i \in 1 .. n}
    BY <1>1 DEF Offsets, at
  <1>3. ASSUME NEW i \in 1 .. n
        PROVE  TagAt(at[i]) = tags[i] /\ at[i] # 0 /\ at[i] # Parsed
    <2>1. (CHOOSE j \in DOMAIN tags : at[j] = at[i]) = i
      BY <1>1
    <2>2. TagAt(at[i]) = tags[CHOOSE j \in DOMAIN tags : at[j] = at[i]]
      BY DEF TagAt, at
    <2>3. at[i] # 0 /\ at[i] # -1
      BY <1>1
    <2> QED BY <2>1, <2>2, <2>3 DEF Parsed
  <1> QED BY <1>2, <1>3 DEF at, n

(* One turn of the loop moves one tag on and notes it. *)
LEMMA FindsOn ==
  ASSUME mbi \in Infos, mbi' = mbi, mbi.magic, NEW k \in 1 .. Len(mbi.tags),
         tag = OffsetOf(mbi.tags)[k],
         tag' = IF mbi.tags[k].type = "end" THEN Parsed ELSE NextTag(tag),
         NEW type \in {"mmap", "meminfo", "name"}, NEW old, NEW new, Finds(old, type),
         new = IF mbi.tags[k].type = type THEN tag ELSE old
  PROVE  /\ Finds(new, type)'
         /\ tag' \in Offsets \union {Parsed} /\ Offsets' = Offsets
  <1> DEFINE tags == mbi.tags
             at == OffsetOf(tags)
             n == Len(tags)
  <1>1. /\ n \in Nat \ {0}
        /\ \A i \in 1 .. n : at[i] \in Nat /\ at[i] >= 8
        /\ \A i \in 1 .. n : i # n => at[i + 1] = at[i] + Align8(tags[i].size)
        /\ \A i, j \in 1 .. n : at[i] = at[j] => i = j
        /\ \A i \in 1 .. n : tags[i].type = "end" <=> i = n
    BY OffsetsRise, InfosAssumption
  <1>2. /\ Offsets = {at[i] : i \in 1 .. n}
        /\ \A i \in 1 .. n : TagAt(at[i]) = tags[i] /\ at[i] # 0 /\ at[i] # Parsed
    BY TagFound
  <1>3. Offsets' = Offsets
    BY DEF Offsets
  <1>4. tag = at[k] /\ k \in 1 .. n
    OBVIOUS
  <1> HIDE DEF at, n
  <1>5. IF k = n THEN tag' = Parsed ELSE tag' = at[k + 1] /\ k + 1 \in 1 .. n
    <2>1. TagAt(tag) = tags[k]
      BY <1>2, <1>4
    <2>2. k # n => at[k + 1] = at[k] + Align8(tags[k].size) /\ k + 1 \in 1 .. n
      BY <1>1, <1>4
    <2>3. k = n => tags[k].type = "end"
      BY <1>1, <1>4
    <2>4. k # n => tags[k].type # "end"
      BY <1>1, <1>4
    <2> QED BY <1>4, <2>1, <2>2, <2>3, <2>4 DEF NextTag
  <1>6. tag' \in Offsets \union {Parsed}
    BY <1>2, <1>5
  <1>7. /\ old # 0 => \E i \in 1 .. n : old = at[i] /\ tags[i].type = type
        /\ old = 0 => \A i \in 1 .. (k - 1) : tags[i].type # type
    BY <1>4 DEF Finds, at, n
  <1>8. new # 0 => \E i \in 1 .. n : new = at[i] /\ tags[i].type = type
    BY <1>4, <1>7
  <1>9. new = 0 => \A i \in 1 .. k : tags[i].type # type
    <2> SUFFICES ASSUME new = 0, NEW i \in 1 .. k PROVE tags[i].type # type
      OBVIOUS
    <2>1. at[k] # 0
      BY <1>2, <1>4
    <2>2. tags[k].type # type /\ old = 0
      BY <1>4, <2>1
    <2>3. i = k \/ i \in 1 .. (k - 1)
      BY <1>1, <1>4
    <2> QED BY <1>7, <2>2, <2>3
  <1>10. new = 0 => \A j \in 1 .. n : tag' = at[j] => \A i \in 1 .. (j - 1) : tags[i].type # type
    <2> SUFFICES ASSUME new = 0, NEW j \in 1 .. n, tag' = at[j], NEW i \in 1 .. (j - 1)
                 PROVE  tags[i].type # type
      OBVIOUS
    <2>1. k # n
      BY <1>2, <1>5
    <2>2. j = k + 1
      BY <1>1, <1>5, <2>1
    <2>3. i \in 1 .. k
      BY <1>1, <1>4, <2>2
    <2> QED BY <1>9, <2>3
  <1>11. new = 0 /\ tag' = Parsed => \A i \in 1 .. n : tags[i].type # type
    BY <1>2, <1>5, <1>9
  <1>12. Finds(new, type)'
    BY <1>8, <1>10, <1>11 DEF Finds, at, n
  <1> QED BY <1>3, <1>6, <1>12

(* The parser's invariant holds at first ...                               *)
LEMMA WalkInvInit == MbInit => WalkInv
  <1> SUFFICES ASSUME MbInit PROVE WalkInv
    OBVIOUS
  <1>1. mbi \in Infos /\ tag = 0 /\ mmap_tag = 0 /\ meminfo_tag = 0 /\ bootloader_tag = 0
    BY DEF MbInit
  <1>2. \A i \in 1 .. Len(mbi.tags) : OffsetOf(mbi.tags)[i] # 0
    BY <1>1, TagFound
  <1>3. 0 \notin Offsets
    BY <1>1, <1>2, TagFound
  <1>4. 0 # Parsed
    BY DEF Parsed
  <1>5. \A type : Finds(0, type)
    BY <1>1, <1>2, <1>4, Zenon DEF Finds
  <1> QED BY <1>1, <1>3, <1>5 DEF WalkInv

(* ... and after every step of multiboot2_parse.                           *)
LEMMA WalkInvStep == WalkInv /\ [multiboot2_parse]_mbVars => WalkInv'
  <1> SUFFICES ASSUME WalkInv, [multiboot2_parse]_mbVars PROVE WalkInv'
    OBVIOUS
  <1> USE DEF WalkInv
  <1>1. /\ \A i \in 1 .. Len(mbi.tags) : OffsetOf(mbi.tags)[i] # 0 /\ OffsetOf(mbi.tags)[i] # Parsed
        /\ Offsets = {OffsetOf(mbi.tags)[i] : i \in 1 .. Len(mbi.tags)}
        /\ Len(mbi.tags) \in Nat \ {0} /\ OffsetOf(mbi.tags)[1] = 8
    BY TagFound, OffsetsRise
  <1>2. CASE ParseBegin
    <2>1. /\ tag = 0 /\ mbi' = mbi /\ mmap_tag' = 0 /\ meminfo_tag' = 0 /\ bootloader_tag' = 0
          /\ tag' = IF mbi.magic THEN 8 ELSE Parsed
      BY <1>2 DEF ParseBegin
    <2>2. Offsets' = Offsets
      BY <2>1 DEF Offsets
    <2>3. 8 \in Offsets /\ 0 \notin Offsets /\ Parsed \notin Offsets /\ Parsed # 0 /\ Parsed # 8
      BY <1>1 DEF Parsed
    <2>4. \A k \in 1 .. Len(mbi.tags) : tag' = OffsetOf(mbi.tags)[k] => 1 .. (k - 1) = {}
      <3> SUFFICES ASSUME NEW k \in 1 .. Len(mbi.tags), tag' = OffsetOf(mbi.tags)[k]
                   PROVE  1 .. (k - 1) = {}
        OBVIOUS
      <3>a. tag' # Parsed
        BY <1>1
      <3>b. tag' = 8
        BY <2>1, <3>a
      <3>1. tag' = OffsetOf(mbi.tags)[1] /\ 1 \in 1 .. Len(mbi.tags)
        BY <1>1, <3>b
      <3>2. k = 1
        BY <3>1, OffsetsRise
      <3> QED BY <3>2
    <2>5. \A type : Finds(0, type)'
      <3>1. ~(tag' = Parsed /\ mbi.magic)
        BY <2>1, <2>3
      <3> QED BY <2>1, <2>4, <3>1 DEF Finds
    <2>6. Finds(mmap_tag, "mmap")' /\ Finds(meminfo_tag, "meminfo")' /\ Finds(bootloader_tag, "name")'
      BY <2>1, <2>5
    <2> QED BY <2>1, <2>2, <2>3, <2>6
  <1>3. CASE ParseTag
    <2>1. PICK k \in 1 .. Len(mbi.tags) : tag = OffsetOf(mbi.tags)[k]
      BY <1>1, <1>3 DEF ParseTag
    <2>2. TagAt(tag) = mbi.tags[k]
      BY <2>1, TagFound
    <2>3. /\ mbi' = mbi /\ mbi.magic /\ mbi \in Infos
          /\ tag' = IF mbi.tags[k].type = "end" THEN Parsed ELSE NextTag(tag)
          /\ mmap_tag' = IF mbi.tags[k].type = "mmap" THEN tag ELSE mmap_tag
          /\ meminfo_tag' = IF mbi.tags[k].type = "meminfo" THEN tag ELSE meminfo_tag
          /\ bootloader_tag' = IF mbi.tags[k].type = "name" THEN tag ELSE bootloader_tag
      BY <1>3, <2>2 DEF ParseTag
    <2>4. PICK a, b, d : a = mmap_tag' /\ b = meminfo_tag' /\ d = bootloader_tag'
      OBVIOUS
    <2>5. Finds(a, "mmap")' /\ tag' \in Offsets \union {Parsed} /\ Offsets' = Offsets
      BY <2>1, <2>3, <2>4, FindsOn
    <2>6. Finds(b, "meminfo")'
      BY <2>1, <2>3, <2>4, FindsOn
    <2>7. Finds(d, "name")'
      BY <2>1, <2>3, <2>4, FindsOn
    <2>8. tag' # 0
      BY <1>1, <2>5 DEF Parsed
    <2>9. Finds(mmap_tag, "mmap")' /\ Finds(meminfo_tag, "meminfo")' /\ Finds(bootloader_tag, "name")'
      BY <2>4, <2>5, <2>6, <2>7
    <2> QED BY <2>3, <2>5, <2>8, <2>9
  <1>4. CASE UNCHANGED mbVars
    BY <1>4 DEF mbVars, Offsets, Finds
  <1> QED BY <1>2, <1>3, <1>4 DEF multiboot2_parse

(* In Memory the parser takes its own steps or none.                       *)
LEMMA WalkStepOfMemory == [MemoryNext]_memoryVars => [multiboot2_parse]_mbVars
  BY DEF MemoryNext, Parse, InitPmm, Use, memoryVars

(* The parser is at a tag, or at the end, and has recorded tags of the     *)
(* types it looks for only.                                                *)
THEOREM WalkInvHolds == MemorySpec => []WalkInv
  <1>1. MemoryInit => WalkInv
    BY WalkInvInit DEF MemoryInit
  <1>2. WalkInv /\ [MemoryNext]_memoryVars => WalkInv'
    BY WalkInvStep, WalkStepOfMemory
  <1> QED BY <1>1, <1>2, PTL DEF MemorySpec

(* However many tags there are, and however long, the walk reads a tag     *)
(* only where one begins, and misses none that the kernel asks for.        *)
THEOREM WalkAlwaysFindsTags == MemorySpec => []WalkFindsTags
  <1>1. ASSUME WalkInv PROVE WalkFindsTags
    <2> USE <1>1 DEF WalkInv
    <2>1. /\ Offsets = {OffsetOf(mbi.tags)[i] : i \in 1 .. Len(mbi.tags)}
          /\ \A i \in 1 .. Len(mbi.tags) : TagAt(OffsetOf(mbi.tags)[i]) = mbi.tags[i]
          /\ DOMAIN mbi.tags = 1 .. Len(mbi.tags)
      BY TagFound, InfosAssumption
    <2>2. ASSUME NEW p, NEW type, Finds(p, type)
          PROVE  /\ p # 0 => p \in Offsets /\ TagAt(p).type = type
                 /\ p = 0 /\ tag = Parsed /\ mbi.magic =>
                      \A i \in DOMAIN mbi.tags : mbi.tags[i].type # type
      BY <2>1, <2>2 DEF Finds
    <2> QED BY <2>2 DEF WalkFindsTags
  <1> QED BY <1>1, WalkInvHolds, PTL

-------------------------------------------------------------------------------

(* pmm_init gets the memory map that GRUB passed, entry by entry, whatever *)
(* the size of an entry.                                                   *)

(* Division takes a multiple and a remainder apart.                        *)
LEMMA DivOf ==
  ASSUME NEW d \in Nat \ {0}, NEW p \in Nat, NEW r \in 0 .. (d - 1)
  PROVE  (p * d + r) \div d = p /\ (p * d + r) % d = r
  OBVIOUS

(* Entries read one entry_size after the other are the entries of the tag. *)
LEMMA EntriesFound ==
  ASSUME NEW t, IsMmapTag(t), t.entries = [k \in DOMAIN t.entries |-> t.entries[k]]
  PROVE  EntriesOf(t) = t.entries
  <1> DEFINE d == t.entry_size
             n == Len(t.entries)
  <1>1. d \in Nat \ {0} /\ n \in Nat /\ DOMAIN t.entries = 1 .. n /\ t.size = 16 + d * n
    BY DEF IsMmapTag
  <1> HIDE DEF d, n
  <1>2. (t.size - 16 + t.entry_size - 1) \div t.entry_size = n
    <2>1. d - 1 \in 0 .. (d - 1)
      BY <1>1
    <2>2. (n * d + (d - 1)) \div d = n
      BY <1>1, <2>1, DivOf
    <2>3. d * n = n * d /\ n * d \in Nat
      BY <1>1
    <2>4. t.size - 16 + t.entry_size - 1 = n * d + (d - 1)
      BY <1>1, <2>3 DEF d
    <2> QED BY <2>2, <2>4 DEF d
  <1>3. \A k \in 1 .. n : EntryAt(t, (k - 1) * t.entry_size) = t.entries[k]
    <2> TAKE k \in 1 .. n
    <2>1. k - 1 \in Nat /\ 0 \in 0 .. (d - 1)
      BY <1>1
    <2>2. ((k - 1) * d + 0) \div d = k - 1 /\ ((k - 1) * d + 0) % d = 0
      BY <1>1, <2>1, DivOf
    <2>3. (k - 1) * d + 0 = (k - 1) * d
      BY <1>1, <2>1
    <2>4. ((k - 1) * d) \div d + 1 = k /\ ((k - 1) * d) % d = 0
      BY <2>1, <2>2, <2>3
    <2> QED BY <2>4 DEF EntryAt, d
  <1>4. EntriesOf(t) = [k \in 1 .. n |-> t.entries[k]]
    BY <1>2, <1>3 DEF EntriesOf
  <1> QED BY <1>1, <1>4

(* After the parse, multiboot2_get_mmap returns the map that the boot      *)
(* information holds.                                                      *)
LEMMA MapIsPassed ==
  ASSUME WalkInv, tag = Parsed, MapPassed(mbi) \in Seq(Entry)
  PROVE  multiboot2_get_mmap = MapPassed(mbi)
  <1> USE DEF WalkInv
  <1> DEFINE at == OffsetOf(mbi.tags)
             n == Len(mbi.tags)
             maps == {i \in DOMAIN mbi.tags : mbi.tags[i].type = "mmap"}
  <1>1. /\ DOMAIN mbi.tags = 1 .. n /\ mbi.magic \in BOOLEAN
        /\ \A i \in maps : IsMmapTag(mbi.tags[i]) /\ \A j \in maps : i = j
    BY InfosAssumption
  <1>2. \A i \in 1 .. n : TagAt(at[i]) = mbi.tags[i] /\ at[i] # 0 /\ at[i] # Parsed
    BY TagFound
  <1>3. CASE mmap_tag = 0
    <2>1. ~mbi.magic \/ maps = {}
      BY <1>1, <1>3 DEF Finds
    <2> QED BY <1>3, <2>1 DEF multiboot2_get_mmap, MapPassed
  <1>4. CASE mmap_tag # 0
    <2>1. PICK i \in 1 .. n : mmap_tag = at[i] /\ mbi.tags[i].type = "mmap"
      BY <1>4 DEF Finds
    <2>2. i \in maps /\ (CHOOSE j \in maps : TRUE) = i
      BY <1>1, <2>1
    <2>3. mbi.magic
      BY <1>4
    <2>4. MapPassed(mbi) = mbi.tags[i].entries
      BY <2>2, <2>3 DEF MapPassed
    <2>5. multiboot2_get_mmap = EntriesOf(mbi.tags[i])
      BY <1>2, <1>4, <2>1 DEF multiboot2_get_mmap
    <2>6. IsMmapTag(mbi.tags[i])
      BY <1>1, <2>2
    <2>7. mbi.tags[i].entries = [k \in DOMAIN mbi.tags[i].entries |-> mbi.tags[i].entries[k]]
      BY <2>4
    <2> QED BY <2>4, <2>5, <2>6, <2>7, EntriesFound
  <1> QED BY <1>3, <1>4

-------------------------------------------------------------------------------

(* What paging.c and the others do to the page allocator, if nobody takes  *)
(* a page while paging.c is taking one, and pmm_init reads the memory map  *)
(* that GRUB wrote.                                                        *)

AllocatesWhole == Placements \subseteq {"clear"} /\ "take" \notin Switchable

(* A call that found a page still finds it free when it takes it. *)
FoundPage(c) ==
  /\ DOMAIN call[c] = DOMAIN NoCall
  /\ call[c].pc = "take" => FreePages(pmm) # {} /\ call[c].page = FirstFree(pmm)

UsesPmm ==
  /\ WalkInv
  /\ PmmInv
  /\ placement \in Placements
  /\ mmap = MapPassed(mbi)
  /\ DOMAIN call = Callers
  /\ \A c \in Callers : FoundPage(c)

(* The invariant about the use of the page allocator holds at first ...    *)
LEMMA UsesPmmInit == MemoryInit => UsesPmm
  <1> SUFFICES ASSUME MemoryInit PROVE UsesPmm
    OBVIOUS
  <1>1. WalkInv /\ PmmInv
    BY WalkInvInit, PmmInvInit DEF MemoryInit
  <1>2. call = [c \in Callers |-> NoCall]
    BY DEF MemoryInit, PagingInit
  <1>3. \A c \in Callers : call[c] = NoCall /\ NoCall.pc # "take"
    BY <1>2 DEF NoCall
  <1>4. \A c \in Callers : FoundPage(c)
    BY <1>3 DEF FoundPage
  <1> QED BY <1>1, <1>2, <1>4 DEF UsesPmm, MemoryInit

(* While one call is between finding a page and taking it, no other call   *)
(* and none of the others runs.                                            *)
LEMMA TakesAlone ==
  ASSUME AllocatesWhole, NEW c \in Callers, call[c].pc = "take"
  PROVE  /\ ~OthersMayRun
         /\ \A d \in Callers : MayRun(d) => d = c
  BY DEF AllocatesWhole, OthersMayRun, MayRun

(* A step that changes nothing of the allocator and lets no call begin to  *)
(* take a page.                                                            *)
LEMMA PmmUntouched ==
  ASSUME UsesPmm, UNCHANGED <<vars, mbVars, placement>>, NEW c \in Callers, NEW k,
         call' = [call EXCEPT ![c] = k], DOMAIN k = DOMAIN NoCall, k.pc # "take"
  PROVE  UsesPmm' /\ [Next]_vars
  <1>1. DOMAIN call' = Callers
    BY DEF UsesPmm
  <1>2. pmm' = pmm /\ mmap' = mmap /\ held' = held /\ ret' = ret
    BY DEF vars
  <1>3. \A d \in Callers : FoundPage(d)'
    <2> TAKE d \in Callers
    <2>1. CASE d = c
      <3>1. call'[d] = k
        BY <2>1 DEF UsesPmm
      <3> QED BY <3>1 DEF FoundPage
    <2>2. CASE d # c
      <3>1. call'[d] = call[d]
        BY <2>2 DEF UsesPmm
      <3> QED BY <1>2, <3>1 DEF FoundPage, UsesPmm
    <2> QED BY <2>1, <2>2
  <1>4. WalkInv'
    BY WalkInvStep DEF UsesPmm
  <1>5. PmmInv'
    BY PmmInvNext DEF UsesPmm
  <1>6. placement' \in Placements /\ mmap' = MapPassed(mbi)'
    BY <1>2 DEF UsesPmm, mbVars
  <1> QED BY <1>1, <1>3, <1>4, <1>5, <1>6 DEF UsesPmm

(* What pmm_alloc_page does is what Find and Take do together. *)
LEMMA FindFails ==
  ASSUME PmmInv, PageFound = NoPage, ret' = 0, UNCHANGED <<pmm, mmap, held>>
  PROVE  pmm_alloc_page
  <1>1. FreePages(pmm) = {}
    <2> SUFFICES ASSUME FreePages(pmm) # {} PROVE FALSE
      OBVIOUS
    <2>1. PageFound = FirstFree(pmm) /\ FirstFree(pmm) \in Nat
      BY FirstFreeIsFree DEF PageFound, PmmInv
    <2> QED BY <2>1 DEF NoPage
  <1> QED BY <1>1 DEF pmm_alloc_page, Alloc, AllocResult

(* Taking the page found is a call of pmm_alloc_page if nobody came in     *)
(* between.                                                                *)
LEMMA TakeAllocates ==
  ASSUME PmmInv, NEW c \in Callers, FoundPage(c), Take(c)
  PROVE  pmm_alloc_page
  <1> DEFINE i == FirstFree(pmm)
  <1>1. call[c].page = i /\ FreePages(pmm) # {}
    BY DEF FoundPage, Take
  <1>2. i \in Nat
    BY <1>1, FirstFreeIsFree DEF PmmInv
  <1>3. pmm' = Alloc(pmm)
    BY <1>1 DEF Take, Alloc
  <1>4. ret' = i * PAGE_SIZE /\ ret' = AllocResult(pmm)
    BY <1>1 DEF Take, AllocResult
  <1>5. held' = held \union ({i} \ {0}) /\ mmap' = mmap
    BY <1>1 DEF Take
  <1> HIDE DEF i
  <1>6. (ret' = 0 <=> i = 0) /\ ret' \div PAGE_SIZE = i
    BY <1>2, <1>4 DEF PAGE_SIZE
  <1>7. held' = IF ret' = 0 THEN held ELSE held \union {ret' \div PAGE_SIZE}
    BY <1>5, <1>6
  <1> QED BY <1>3, <1>4, <1>5, <1>7 DEF pmm_alloc_page

(* A step of the page allocator, with the map and the boot information as  *)
(* they were.                                                              *)
LEMMA AllocatorMoves ==
  ASSUME UsesPmm, Next, UNCHANGED <<mmap, mbVars, placement>>,
         DOMAIN call' = Callers, \A c \in Callers : FoundPage(c)'
  PROVE  UsesPmm'
  <1>1. WalkInv'
    BY WalkInvStep DEF UsesPmm
  <1>2. PmmInv'
    BY PmmInvNext DEF UsesPmm
  <1>3. placement' \in Placements /\ mmap' = MapPassed(mbi)'
    BY DEF UsesPmm, mbVars
  <1> QED BY <1>1, <1>2, <1>3 DEF UsesPmm

(* pmm_init does for the memory map that GRUB wrote what module Pmm's Boot *)
(* does for the one its callers know.                                      *)
LEMMA InitPmmBoots ==
  ASSUME AllocatesWhole, UsesPmm, InitPmm
  PROVE  UsesPmm' /\ Next
  <1>1. placement = "clear" /\ tag = Parsed /\ pmm = NoPages
    BY DEF AllocatesWhole, UsesPmm, InitPmm
  <1>2. mmap = MapPassed(mbi) /\ mmap \in Seq(Entry)
    BY MapsAssumption DEF UsesPmm, PmmInv, IsMap
  <1>3. multiboot2_get_mmap = mmap
    BY <1>1, <1>2, MapIsPassed DEF UsesPmm
  <1>4. Boot
    BY <1>1, <1>3 DEF InitPmm, Boot
  <1>5. FreePages(pmm) = {}
    BY <1>1 DEF FreePages, NoPages
  <1>6. \A c \in Callers : FoundPage(c)'
    BY <1>5 DEF UsesPmm, FoundPage, InitPmm
  <1>7. DOMAIN call' = Callers /\ UNCHANGED <<mmap, mbVars, placement>>
    BY DEF UsesPmm, InitPmm
  <1>8. Next
    BY <1>4 DEF Next
  <1> QED BY <1>6, <1>7, <1>8, AllocatorMoves

(* A step of a call. *)
LEMMA CallUsesPmm ==
  ASSUME AllocatesWhole, UsesPmm, NEW c \in Callers, PagingStep(c),
         UNCHANGED <<mbVars, placement>>
  PROVE  UsesPmm' /\ [Next]_vars
  <1> USE DEF UsesPmm
  <1>1. DOMAIN call[c] = DOMAIN NoCall /\ DOMAIN call = Callers
    BY DEF FoundPage
  <1>2. NoCall.pc = "idle" /\ DOMAIN NoCall = {"pc", "op", "virt", "frame", "flags",
                                               "level", "table", "page"}
    BY DEF NoCall
  <1>3. ASSUME NEW k, UNCHANGED vars, Continue(c, k), DOMAIN k = DOMAIN NoCall, k.pc # "take"
        PROVE  UsesPmm' /\ [Next]_vars
    BY <1>3, PmmUntouched DEF Continue
  <1>4. ASSUME UNCHANGED vars, Return(c)
        PROVE  UsesPmm' /\ [Next]_vars
    <2>1. Continue(c, NoCall)
      BY <1>4 DEF Return, Continue
    <2> QED BY <1>2, <1>3, <1>4, <2>1
  <1>5. ASSUME NEW page, UNCHANGED vars, Down(c, page)
        PROVE  UsesPmm' /\ [Next]_vars
    <2> DEFINE k == [call[c] EXCEPT !.pc = "walk", !.table = page, !.page = 0, !.level = @ + 1]
    <2>1. DOMAIN k = DOMAIN NoCall /\ k.pc = "walk" /\ Continue(c, k)
      BY <1>1, <1>2, <1>5 DEF Down
    <2> HIDE DEF k
    <2> QED BY <1>3, <1>5, <2>1
  <1>6. ASSUME NEW v \in Virts, NEW f \in Devices \union held, NEW flags \in Flags,
               paging_map_page(c, v, f, flags)
        PROVE  UsesPmm' /\ [Next]_vars
    <2> DEFINE k == [NoCall EXCEPT !.pc = "walk", !.op = "map", !.virt = v, !.frame = f,
                                   !.flags = flags, !.table = kernel_pml4]
    <2>1. DOMAIN k = DOMAIN NoCall /\ k.pc = "walk"
      BY <1>2
    <2>2. Continue(c, k) /\ UNCHANGED vars
      BY <1>6 DEF paging_map_page, Begin
    <2> HIDE DEF k
    <2> QED BY <1>3, <2>1, <2>2
  <1>7. ASSUME NEW v \in Virts, paging_unmap_page(c, v)
        PROVE  UsesPmm' /\ [Next]_vars
    <2> DEFINE k == [NoCall EXCEPT !.pc = "walk", !.op = "unmap", !.virt = v,
                                   !.table = kernel_pml4]
    <2>1. DOMAIN k = DOMAIN NoCall /\ k.pc = "walk"
      BY <1>2
    <2>2. Continue(c, k) /\ UNCHANGED vars
      BY <1>7 DEF paging_unmap_page, Begin
    <2> HIDE DEF k
    <2> QED BY <1>3, <2>1, <2>2
  <1>8. CASE paging_create_address_space(c)
    <2> DEFINE k == [NoCall EXCEPT !.pc = "walk", !.op = "create"]
    <2>1. DOMAIN k = DOMAIN NoCall /\ k.pc = "walk"
      BY <1>2
    <2>2. Continue(c, k) /\ UNCHANGED vars
      BY <1>8 DEF paging_create_address_space, Begin
    <2> HIDE DEF k
    <2> QED BY <1>3, <2>1, <2>2
  <1>9. CASE Descend(c)
    <2>1. UNCHANGED vars /\ Down(c, EntryOf(c).page)
      BY <1>9 DEF Descend
    <2> QED BY <1>5, <2>1
  <1>10. CASE NothingToUnmap(c)
    BY <1>4, <1>10 DEF NothingToUnmap
  <1>11. CASE Find(c)
    <2>1. CASE PageFound = NoPage
      <3>1. Return(c) /\ ret' = 0 /\ UNCHANGED <<pmm, mmap, held>>
        BY <1>11, <2>1 DEF Find
      <3>2. Next
        BY <2>1, <3>1, FindFails DEF Next
      <3>3. \A d \in Callers : FoundPage(d)'
        <4> TAKE d \in Callers
        <4>1. call'[d] = IF d = c THEN NoCall ELSE call[d]
          BY <3>1 DEF Return
        <4> QED BY <1>2, <3>1, <4>1 DEF FoundPage
      <3>4. DOMAIN call' = Callers
        BY <3>1 DEF Return
      <3> QED BY <3>1, <3>2, <3>3, <3>4, AllocatorMoves
    <2>2. CASE PageFound # NoPage
      <3> DEFINE k == [call[c] EXCEPT !.pc = "take", !.page = PageFound]
      <3>1. Continue(c, k) /\ UNCHANGED vars
        BY <1>11, <2>2 DEF Find, vars
      <3>2. FreePages(pmm) # {} /\ PageFound = FirstFree(pmm)
        BY <2>2 DEF PageFound
      <3>3. DOMAIN k = DOMAIN NoCall /\ k.page = FirstFree(pmm)
        BY <1>1, <1>2, <3>2
      <3> HIDE DEF k
      <3>4. \A d \in Callers : FoundPage(d)'
        <4> TAKE d \in Callers
        <4>1. call'[d] = IF d = c THEN k ELSE call[d]
          BY <3>1 DEF Continue
        <4>2. pmm' = pmm
          BY <3>1 DEF vars
        <4> QED BY <3>2, <3>3, <4>1, <4>2 DEF FoundPage
      <3>5. DOMAIN call' = Callers
        BY <3>1 DEF Continue
      <3>6. WalkInv'
        BY WalkInvStep
      <3>7. PmmInv'
        BY <3>1, PmmInvNext
      <3> QED BY <3>1, <3>4, <3>5, <3>6, <3>7 DEF vars, mbVars
    <2> QED BY <2>1, <2>2
  <1>12. CASE Take(c)
    <2>1. call[c].pc = "take" /\ mmap' = mmap /\ MayRun(c)
      BY <1>12 DEF Take
    <2>2. pmm_alloc_page
      BY <1>12, TakeAllocates
    <2>3. \A d \in Callers \ {c} : call[d].pc # "take"
      BY <2>1 DEF MayRun, AllocatesWhole
    <2>4. PICK k : Continue(c, k) /\ DOMAIN k = DOMAIN NoCall /\ k.pc # "take"
      <3>1. CASE call[c].page = 0
        <4>1. Continue(c, NoCall)
          BY <1>12, <3>1 DEF Take, Return, Continue
        <4> QED BY <1>2, <4>1
      <3>2. CASE call[c].page # 0
        <4> DEFINE k == [call[c] EXCEPT !.pc = IF call[c].op = "create"
                                                THEN "copy" ELSE "fill"]
        <4>1. Continue(c, k)
          BY <1>12, <3>2 DEF Take
        <4>2. DOMAIN k = DOMAIN NoCall /\ k.pc # "take"
          BY <1>1, <1>2
        <4> HIDE DEF k
        <4> QED BY <4>1, <4>2
      <3> QED BY <3>1, <3>2
    <2>5. \A d \in Callers : FoundPage(d)'
      <3> TAKE d \in Callers
      <3>1. call'[d] = IF d = c THEN k ELSE call[d]
        BY <2>4 DEF Continue
      <3>2. call'[d].pc # "take" /\ DOMAIN call'[d] = DOMAIN NoCall
        BY <2>3, <2>4, <3>1 DEF FoundPage
      <3> QED BY <3>2 DEF FoundPage
    <2>6. DOMAIN call' = Callers
      BY <2>4 DEF Continue
    <2>7. Next
      BY <2>2 DEF Next
    <2> QED BY <2>1, <2>5, <2>6, <2>7, AllocatorMoves
  <1>13. CASE Fill(c)
    <2>1. UNCHANGED vars /\ Down(c, call[c].page)
      BY <1>13 DEF Fill
    <2> QED BY <1>5, <2>1
  <1>14. CASE StoreMap(c)
    BY <1>4, <1>14 DEF StoreMap
  <1>15. CASE StoreUnmap(c)
    <2> DEFINE k == [call[c] EXCEPT !.pc = "flush"]
    <2>1. DOMAIN k = DOMAIN NoCall /\ k.pc = "flush"
      BY <1>1, <1>2
    <2>2. Continue(c, k) /\ UNCHANGED vars
      BY <1>15 DEF StoreUnmap
    <2> HIDE DEF k
    <2> QED BY <1>3, <2>1, <2>2
  <1>16. CASE Invlpg(c)
    BY <1>4, <1>16 DEF Invlpg
  <1>17. CASE CopyKernelHalf(c)
    BY <1>4, <1>17 DEF CopyKernelHalf
  <1> QED BY <1>6, <1>7, <1>8, <1>9, <1>10, <1>11, <1>12, <1>13, <1>14, <1>15, <1>16, <1>17
          DEF PagingStep

(* ... and after every step.                                               *)
LEMMA UsesPmmStep ==
  ASSUME AllocatesWhole, UsesPmm, [MemoryNext]_memoryVars
  PROVE  UsesPmm' /\ [Next]_vars
  <1> USE DEF UsesPmm
  <1>1. ASSUME UNCHANGED <<vars, call, placement>>, WalkInv', mbi' = mbi
        PROVE  UsesPmm' /\ [Next]_vars
    <2>1. PmmInv'
      BY <1>1, PmmInvNext
    <2>2. \A c \in Callers : FoundPage(c)'
      BY <1>1 DEF FoundPage, vars
    <2> QED BY <1>1, <2>1, <2>2 DEF vars
  <1>2. CASE Parse
    <2>1. UNCHANGED <<vars, call, placement>> /\ mbi' = mbi
      BY <1>2 DEF Parse, pagingVars, multiboot2_parse, ParseBegin, ParseTag
    <2>2. WalkInv'
      BY WalkInvStep, WalkStepOfMemory
    <2> QED BY <1>1, <2>1, <2>2
  <1>3. CASE InitPmm
    BY <1>3, InitPmmBoots
  <1>4. CASE Use
    <2>1. PagingNext /\ UNCHANGED <<mbVars, placement>> /\ mbi' = mbi
      BY <1>4 DEF Use, mbVars
    <2>2. WalkInv'
      BY <2>1, WalkInvStep
    <2>3. CASE paging_init
      BY <1>1, <2>1, <2>2, <2>3 DEF paging_init
    <2>4. ASSUME NEW c \in Callers, PagingStep(c)
          PROVE  UsesPmm' /\ [Next]_vars
      BY <2>1, <2>4, CallUsesPmm
    <2>5. ASSUME NEW pml4 \in TablePages, paging_switch_directory(pml4)
          PROVE  UsesPmm' /\ [Next]_vars
      BY <1>1, <2>1, <2>2, <2>5 DEF paging_switch_directory
    <2>6. ASSUME OthersMayRun, Next, UNCHANGED <<mmap, call>>
          PROVE  UsesPmm' /\ [Next]_vars
      <3>1. \A c \in Callers : call[c].pc # "take"
        BY <2>6 DEF OthersMayRun, AllocatesWhole
      <3>2. \A c \in Callers : FoundPage(c)'
        BY <2>6, <3>1 DEF FoundPage
      <3> QED BY <2>1, <2>6, <3>2, AllocatorMoves
    <2>7. CASE TakeData
      BY <2>6, <2>7 DEF TakeData, Next, pmm_alloc_page
    <2>8. ASSUME NEW pfn \in 0 .. pmm.total_pages, FreeData(pfn)
          PROVE  UsesPmm' /\ [Next]_vars
      BY <2>6, <2>8 DEF FreeData, Next, pmm_free_page
    <2> QED BY <2>1, <2>3, <2>4, <2>5, <2>7, <2>8 DEF PagingNext
  <1>5. CASE UNCHANGED memoryVars
    <2>1. WalkInv'
      BY <1>5, WalkInvStep DEF memoryVars
    <2> QED BY <1>1, <1>5, <2>1 DEF memoryVars, pagingVars, mbVars
  <1> QED BY <1>2, <1>3, <1>4, <1>5 DEF MemoryNext

(* Whatever the memory map, and however many processes map and unmap pages *)
(* and create address spaces at once, the page allocator sees a sequence   *)
(* of calls it is made for, if no two searches for a page overlap.         *)
THEOREM MemoryImplementsPmm ==
  ASSUME AllocatesWhole
  PROVE  MemorySpec => ImplementsPmm
  <1>1. MemoryInit => UsesPmm /\ Init
    BY UsesPmmInit DEF MemoryInit
  <1>2. UsesPmm /\ [MemoryNext]_memoryVars => UsesPmm' /\ [Next]_vars
    BY UsesPmmStep
  <1> QED BY <1>1, <1>2, PTL DEF MemorySpec, ImplementsPmm, Spec

(* So what holds of every sequence of such calls holds here: the counter,  *)
(* the owners and the bitmap agree.                                        *)
THEOREM MemoryIsSound ==
  ASSUME AllocatesWhole
  PROVE  MemorySpec => [](TypeOK /\ CountersAgree /\ ExclusiveUse /\ NoPageLeaked)
  <1>1. MemorySpec => Spec
    BY MemoryImplementsPmm DEF ImplementsPmm
  <1>2. Spec => []TypeOK
    BY PmmTypeCorrect
  <1>3. Spec => []CountersAgree
    BY CountersAlwaysAgree
  <1>4. Spec => []ExclusiveUse
    BY UseIsExclusive
  <1>5. Spec => []NoPageLeaked
    BY OnlyPageZeroLeaks
  <1> QED BY <1>1, <1>2, <1>3, <1>4, <1>5, PTL

-------------------------------------------------------------------------------

(* The tables. *)

(* Trees of tables, and what walks find in them. *)

Addresses == [1 .. 4 -> Indices]

(* Addresses u and v come to the same table on level l. *)
Agree(u, v, l) == \A k \in 1 .. (l - 1) : u[k] = v[k]

(* Large pages are used for what boot.asm maps only. *)
OutsideBoot(v) == ~(v[1] = 0 /\ v[2] = 0 /\ v[3] = 0)

(* Entry i of table p leads to a table, on levels 1 to 3. *)
Link(T, p, i) == Present(T[p][i]) /\ "huge" \notin T[p][i].flags

(* The entries a walk does not read wrongly: no NX, and one large page. *)
Plain(T, p) ==
  \A i \in Indices :
    /\ "nx" \notin T[p][i].flags
    /\ "huge" \in T[p][i].flags => p = BootTables[3] /\ i = 0

(* T holds a tree of the tables in S: each is on a level, and made for a   *)
(* virtual address, of which the indices above that level count.           *)
Tree(T, S, lev, own) ==
  /\ BootRoot \in S /\ lev[BootRoot] = 1
  /\ BootTables[3] \in S /\ lev[BootTables[3]] = 3
  /\ own[BootTables[3]][1] = 0 /\ own[BootTables[3]][2] = 0
  /\ \A p \in S : lev[p] \in 1 .. 4 /\ own[p] \in Addresses /\ Plain(T, p)
  /\ \A p, q \in S : lev[p] = lev[q] /\ Agree(own[p], own[q], lev[p]) => p = q
  /\ \A p \in S, i \in Indices : lev[p] < 4 /\ Link(T, p, i) =>
       /\ T[p][i].page \in S
       /\ lev[T[p][i].page] = lev[p] + 1
       /\ Agree(own[p], own[T[p][i].page], lev[p]) /\ own[T[p][i].page][lev[p]] = i
  /\ \A q \in S \ {BootRoot} :
       \E p \in S, i \in Indices : lev[p] < 4 /\ Link(T, p, i) /\ T[p][i].page = q

(* Table p is the one that a walk for v comes to on level l. *)
On(S, lev, own, p, v, l) == p \in S /\ lev[p] = l /\ Agree(own[p], v, l)

(* On each level there is one table for an address at most.                *)
LEMMA OneTable ==
  ASSUME NEW T, NEW S, NEW lev, NEW own, Tree(T, S, lev, own), NEW l \in 1 .. 4,
         NEW v \in Addresses, NEW p, NEW q, On(S, lev, own, p, v, l), On(S, lev, own, q, v, l)
  PROVE  p = q
  <1>1. Agree(own[p], own[q], l)
    BY DEF On, Agree
  <1> QED BY <1>1 DEF On, Tree

(* The root is on level 1 for every address.                               *)
LEMMA RootOn ==
  ASSUME NEW T, NEW S, NEW lev, NEW own, Tree(T, S, lev, own), NEW v \in Addresses
  PROVE  On(S, lev, own, BootRoot, v, 1)
  BY DEF On, Tree, Agree

(* A table below the root is linked to by the one that is on the level     *)
(* above it for the same address.                                          *)
LEMMA ParentOn ==
  ASSUME NEW T, NEW S, NEW lev, NEW own, Tree(T, S, lev, own), NEW l \in 1 .. 3,
         NEW v \in Addresses, NEW q, On(S, lev, own, q, v, l + 1)
  PROVE  \E p : On(S, lev, own, p, v, l) /\ Link(T, p, v[l]) /\ T[p][v[l]].page = q
  <1>1. q \in S /\ lev[q] = l + 1 /\ Agree(own[q], v, l + 1) /\ q # BootRoot
    BY DEF On, Tree
  <1>2. PICK p \in S, i \in Indices : lev[p] < 4 /\ Link(T, p, i) /\ T[p][i].page = q
    BY <1>1 DEF Tree
  <1>3. /\ lev[q] = lev[p] + 1 /\ lev[p] \in 1 .. 4
        /\ Agree(own[p], own[q], lev[p]) /\ own[q][lev[p]] = i
    BY <1>2 DEF Tree
  <1>4. lev[p] = l
    BY <1>1, <1>3
  <1>5. \A k \in 1 .. l : own[q][k] = v[k]
    BY <1>1 DEF Agree
  <1>6. i = v[l]
    BY <1>3, <1>4, <1>5
  <1>7. \A k \in 1 .. (l - 1) : own[p][k] = v[k]
    BY <1>3, <1>4, <1>5 DEF Agree
  <1>8. On(S, lev, own, p, v, l)
    BY <1>2, <1>4, <1>7 DEF On, Agree
  <1> QED BY <1>2, <1>6, <1>8

(* The table an entry leads to is the next one for the address.            *)
LEMMA ChildOn ==
  ASSUME NEW T, NEW S, NEW lev, NEW own, Tree(T, S, lev, own), NEW l \in 1 .. 3,
         NEW v \in Addresses, NEW p, On(S, lev, own, p, v, l), Link(T, p, v[l])
  PROVE  On(S, lev, own, T[p][v[l]].page, v, l + 1)
  <1> DEFINE q == T[p][v[l]].page
  <1>1. p \in S /\ lev[p] = l /\ Agree(own[p], v, l) /\ v[l] \in Indices
    BY DEF On, Addresses
  <1>2. q \in S /\ lev[q] = l + 1 /\ Agree(own[p], own[q], l) /\ own[q][l] = v[l]
    BY <1>1 DEF Tree
  <1> HIDE DEF q
  <1>3. \A k \in 1 .. l : own[q][k] = v[k]
    BY <1>1, <1>2 DEF Agree
  <1> QED BY <1>2, <1>3 DEF On, Agree, q

(* Outside boot's large page a walk stops only at an entry that is not     *)
(* present, and then nothing is below.                                     *)
LEMMA WalkOn ==
  ASSUME NEW T, NEW S, NEW lev, NEW own, Tree(T, S, lev, own), NEW l \in 1 .. 3,
         NEW v \in Addresses, OutsideBoot(v), NEW p, On(S, lev, own, p, v, l)
  PROVE  /\ "huge" \notin T[p][v[l]].flags
         /\ Present(T[p][v[l]]) => On(S, lev, own, T[p][v[l]].page, v, l + 1)
         /\ ~Present(T[p][v[l]]) => \A q : ~On(S, lev, own, q, v, l + 1)
  <1>1. p \in S /\ v[l] \in Indices
    BY DEF On, Addresses
  <1>2. "huge" \notin T[p][v[l]].flags
    <2> SUFFICES ASSUME "huge" \in T[p][v[l]].flags PROVE FALSE
      OBVIOUS
    <2>1. p = BootTables[3] /\ v[l] = 0
      BY <1>1 DEF Tree, Plain
    <2>2. l = 3 /\ own[p][1] = 0 /\ own[p][2] = 0
      BY <2>1 DEF Tree, On
    <2>3. v[1] = 0 /\ v[2] = 0
      BY <2>2 DEF On, Agree
    <2> QED BY <2>1, <2>2, <2>3 DEF OutsideBoot
  <1>3. Present(T[p][v[l]]) => On(S, lev, own, T[p][v[l]].page, v, l + 1)
    BY <1>2, ChildOn DEF Link
  <1>4. ASSUME NEW q, On(S, lev, own, q, v, l + 1)
        PROVE  Present(T[p][v[l]])
    <2>1. PICK r : On(S, lev, own, r, v, l) /\ Link(T, r, v[l])
      BY <1>4, ParentOn
    <2>2. l \in 1 .. 4
      OBVIOUS
    <2>3. r = p
      BY <2>1, <2>2, OneTable
    <2> QED BY <2>1, <2>3 DEF Link
  <1> QED BY <1>2, <1>3, <1>4

(* One after the other the entries of a walk, as the MMU follows it ...    *)
Stops(e) == ~Present(e) \/ "huge" \in e.flags
MmuNext(T, e, i) == IF Stops(e) THEN e ELSE T[e.page][i]

MmuEntry(T, root, v) == MmuNext(T, MmuNext(T, MmuNext(T, T[root][v[1]], v[2]), v[3]), v[4])

PageOf(e, v) ==
  IF ~Present(e) \/ "nx" \in e.flags THEN Unmapped
  ELSE IF "huge" \in e.flags THEN e.page + v[4] ELSE e.page

(* ... and as paging_get_physical does.                                    *)
WalkNext(T, e, i) == IF Present(e) THEN T[e.page][i] ELSE NoEntry

WalkEntry(T, root, v) ==
  WalkNext(T, WalkNext(T, WalkNext(T, T[root][v[1]], v[2]), v[3]), v[4])

(* A walk comes to the leaf, or ends at an entry that is not present.      *)
LEMMA WalkEnds ==
  ASSUME NEW T, NEW S, NEW lev, NEW own, Tree(T, S, lev, own),
         NEW v \in Addresses, OutsideBoot(v)
  PROVE  /\ \A p : On(S, lev, own, p, v, 4) =>
              /\ MmuEntry(T, BootRoot, v) = T[p][v[4]]
              /\ WalkEntry(T, BootRoot, v) = T[p][v[4]]
         /\ (\A p : ~On(S, lev, own, p, v, 4)) =>
              /\ ~Present(MmuEntry(T, BootRoot, v))
              /\ ~Present(WalkEntry(T, BootRoot, v))
  <1> DEFINE e1 == T[BootRoot][v[1]]
             e2 == T[e1.page][v[2]]
             e3 == T[e2.page][v[3]]
             e4 == T[e3.page][v[4]]
  <1>0. \A i : ~Present(NoEntry) /\ WalkNext(T, NoEntry, i) = NoEntry
    BY DEF NoEntry, Present, WalkNext
  <1>1. /\ "huge" \notin e1.flags
        /\ Present(e1) => On(S, lev, own, e1.page, v, 2)
        /\ ~Present(e1) => \A q : ~On(S, lev, own, q, v, 2)
    <2>1. On(S, lev, own, BootRoot, v, 1)
      BY RootOn
    <2>2. 1 \in 1 .. 3 /\ 1 + 1 = 2
      OBVIOUS
    <2> QED BY <2>1, <2>2, WalkOn
  <1>2. ASSUME Present(e1)
        PROVE  /\ "huge" \notin e2.flags
               /\ Present(e2) => On(S, lev, own, e2.page, v, 3)
               /\ ~Present(e2) => \A q : ~On(S, lev, own, q, v, 3)
    <2>1. 2 \in 1 .. 3 /\ 2 + 1 = 3
      OBVIOUS
    <2> QED BY <1>1, <1>2, <2>1, WalkOn
  <1>3. ASSUME Present(e1), Present(e2)
        PROVE  /\ "huge" \notin e3.flags
               /\ Present(e3) => On(S, lev, own, e3.page, v, 4)
               /\ ~Present(e3) => \A q : ~On(S, lev, own, q, v, 4)
    <2>1. 3 \in 1 .. 3 /\ 3 + 1 = 4
      OBVIOUS
    <2>2. On(S, lev, own, e2.page, v, 3)
      BY <1>2, <1>3
    <2> HIDE DEF e1, e2
    <2> QED BY <2>1, <2>2, WalkOn DEF e3
  <1>4. (\A q : ~On(S, lev, own, q, v, 2)) => \A q : ~On(S, lev, own, q, v, 3)
    <2>1. 2 \in 1 .. 3 /\ 2 + 1 = 3
      OBVIOUS
    <2> QED BY <2>1, ParentOn
  <1>5. (\A q : ~On(S, lev, own, q, v, 3)) => \A q : ~On(S, lev, own, q, v, 4)
    <2>1. 3 \in 1 .. 3 /\ 3 + 1 = 4
      OBVIOUS
    <2> QED BY <2>1, ParentOn
  <1> HIDE DEF e1, e2, e3, e4
  <1>6. CASE ~Present(e1)
    <2>1. \A p : ~On(S, lev, own, p, v, 4)
      BY <1>1, <1>4, <1>5, <1>6
    <2>2. MmuEntry(T, BootRoot, v) = e1
      BY <1>6 DEF MmuEntry, MmuNext, Stops, e1
    <2>3. WalkEntry(T, BootRoot, v) = NoEntry
      BY <1>0, <1>6 DEF WalkEntry, WalkNext, e1
    <2> QED BY <1>0, <1>6, <2>1, <2>2, <2>3
  <1>7. CASE Present(e1) /\ ~Present(e2)
    <2>1. \A p : ~On(S, lev, own, p, v, 4)
      BY <1>2, <1>5, <1>7
    <2>2. MmuEntry(T, BootRoot, v) = e2
      BY <1>1, <1>7 DEF MmuEntry, MmuNext, Stops, e1, e2
    <2>3. WalkEntry(T, BootRoot, v) = NoEntry
      BY <1>0, <1>7 DEF WalkEntry, WalkNext, e1, e2
    <2> QED BY <1>0, <1>7, <2>1, <2>2, <2>3
  <1>8. CASE Present(e1) /\ Present(e2) /\ ~Present(e3)
    <2>1. \A p : ~On(S, lev, own, p, v, 4)
      BY <1>3, <1>8
    <2>2. MmuEntry(T, BootRoot, v) = e3
      BY <1>1, <1>2, <1>8 DEF MmuEntry, MmuNext, Stops, e1, e2, e3
    <2>3. WalkEntry(T, BootRoot, v) = NoEntry
      BY <1>0, <1>8 DEF WalkEntry, WalkNext, e1, e2, e3
    <2> QED BY <1>0, <1>8, <2>1, <2>2, <2>3
  <1>9. CASE Present(e1) /\ Present(e2) /\ Present(e3)
    <2>1. On(S, lev, own, e3.page, v, 4)
      BY <1>3, <1>9
    <2>2. \A p : On(S, lev, own, p, v, 4) => p = e3.page
      <3>1. 4 \in 1 .. 4
        OBVIOUS
      <3> QED BY <2>1, <3>1, OneTable
    <2>3. MmuEntry(T, BootRoot, v) = e4
      BY <1>1, <1>2, <1>3, <1>9 DEF MmuEntry, MmuNext, Stops, e1, e2, e3, e4
    <2>4. WalkEntry(T, BootRoot, v) = e4
      BY <1>9 DEF WalkEntry, WalkNext, e1, e2, e3, e4
    <2> QED BY <2>1, <2>2, <2>3, <2>4 DEF e4
  <1> QED BY <1>6, <1>7, <1>8, <1>9

(* What the tables make of v. *)
Maps(T, v) == PageOf(MmuEntry(T, BootRoot, v), v)

(* Outside boot's large page, an address is mapped as the entry of its     *)
(* table on level 4 says, and to nothing if it has no such table.          *)
LEMMA MapsLeaf ==
  ASSUME NEW T, NEW S, NEW lev, NEW own, Tree(T, S, lev, own),
         NEW v \in Addresses, OutsideBoot(v)
  PROVE  /\ \A p : On(S, lev, own, p, v, 4) =>
              Maps(T, v) = IF Present(T[p][v[4]]) THEN T[p][v[4]].page ELSE Unmapped
         /\ (\A p : ~On(S, lev, own, p, v, 4)) => Maps(T, v) = Unmapped
  <1>1. ASSUME NEW p, On(S, lev, own, p, v, 4)
        PROVE  Maps(T, v) = IF Present(T[p][v[4]]) THEN T[p][v[4]].page ELSE Unmapped
    <2>1. MmuEntry(T, BootRoot, v) = T[p][v[4]]
      BY <1>1, WalkEnds
    <2>2. p \in S /\ p # BootTables[3] /\ v[4] \in Indices
      BY <1>1 DEF On, Tree, Addresses
    <2>3. "nx" \notin T[p][v[4]].flags /\ "huge" \notin T[p][v[4]].flags
      BY <2>2 DEF Tree, Plain
    <2> QED BY <2>1, <2>3 DEF Maps, PageOf
  <1>2. ASSUME \A p : ~On(S, lev, own, p, v, 4)
        PROVE  Maps(T, v) = Unmapped
    BY <1>2, WalkEnds DEF Maps, PageOf
  <1> QED BY <1>1, <1>2

(* paging_get_physical's walk ends where the MMU's does.                   *)
LEMMA WalksAgree ==
  ASSUME NEW T, NEW S, NEW lev, NEW own, Tree(T, S, lev, own),
         NEW v \in Addresses, OutsideBoot(v)
  PROVE  IF Present(WalkEntry(T, BootRoot, v))
         THEN /\ Maps(T, v) = WalkEntry(T, BootRoot, v).page
              /\ "nx" \notin WalkEntry(T, BootRoot, v).flags
              /\ \E p : On(S, lev, own, p, v, 4) /\ WalkEntry(T, BootRoot, v) = T[p][v[4]]
         ELSE Maps(T, v) = Unmapped
  <1>1. CASE \E p : On(S, lev, own, p, v, 4)
    <2>1. PICK p : On(S, lev, own, p, v, 4)
      BY <1>1
    <2>2. WalkEntry(T, BootRoot, v) = T[p][v[4]]
      BY <2>1, WalkEnds
    <2>3. p \in S /\ v[4] \in Indices
      BY <2>1 DEF On, Addresses
    <2>4. "nx" \notin T[p][v[4]].flags
      BY <2>3 DEF Tree, Plain
    <2> QED BY <2>1, <2>2, <2>4, MapsLeaf
  <1>2. CASE \A p : ~On(S, lev, own, p, v, 4)
    BY <1>2, WalkEnds, MapsLeaf
  <1> QED BY <1>1, <1>2

(* Pages that are not in the tree may be written at will. *)
LEMMA OtherPages ==
  ASSUME NEW T, NEW S, NEW lev, NEW own, Tree(T, S, lev, own),
         NEW U, \A p \in S : U[p] = T[p]
  PROVE  /\ Tree(U, S, lev, own)
         /\ \A v \in Addresses : OutsideBoot(v) => Maps(U, v) = Maps(T, v)
  <1>1. \A p \in S : Plain(T, p) => Plain(U, p)
    BY DEF Plain
  <1>2. \A p \in S, i \in Indices : (Link(U, p, i) <=> Link(T, p, i)) /\ U[p][i] = T[p][i]
    BY DEF Link
  <1>3. Tree(U, S, lev, own)
    BY <1>1, <1>2 DEF Tree
  <1>4. ASSUME NEW v \in Addresses, OutsideBoot(v)
        PROVE  Maps(U, v) = Maps(T, v)
    <2>1. CASE \E p : On(S, lev, own, p, v, 4)
      <3>1. PICK p : On(S, lev, own, p, v, 4)
        BY <2>1
      <3>2. U[p] = T[p]
        BY <3>1 DEF On
      <3>3. Maps(T, v) = IF Present(T[p][v[4]]) THEN T[p][v[4]].page ELSE Unmapped
        BY <1>4, <3>1, MapsLeaf
      <3>4. Maps(U, v) = IF Present(U[p][v[4]]) THEN U[p][v[4]].page ELSE Unmapped
        BY <1>3, <1>4, <3>1, MapsLeaf
      <3> QED BY <3>2, <3>3, <3>4
    <2>2. CASE \A p : ~On(S, lev, own, p, v, 4)
      <3>1. Maps(T, v) = Unmapped
        BY <1>4, <2>2, MapsLeaf
      <3>2. Maps(U, v) = Unmapped
        BY <1>3, <1>4, <2>2, MapsLeaf
      <3> QED BY <3>1, <3>2
    <2> QED BY <2>1, <2>2
  <1> QED BY <1>3, <1>4

(* U is T with one entry of the tables in P rewritten.                     *)
Rewritten(T, U, P, t, i, e) ==
  \A p \in P, j \in Indices : U[p][j] = IF p = t /\ j = i THEN e ELSE T[p][j]

(* No address that callers ask for changes. *)
SameMaps(T, U) == \A v \in Addresses : OutsideBoot(v) => Maps(U, v) = Maps(T, v)

(* The tree gets another table for w, below level l. *)
Grown(S, lev, own, q, l, w, S1, lev1, own1) ==
  /\ S1 = S \union {q}
  /\ lev1[q] = l + 1 /\ \A p \in S : lev1[p] = lev[p]
  /\ own1[q] = w /\ \A p \in S : own1[p] = own[p]

(* paging_map_page's and paging_unmap_page's write: one address changes.   *)
LEMMA LeafWritten ==
  ASSUME NEW T, NEW S, NEW lev, NEW own, Tree(T, S, lev, own),
         NEW w \in Addresses, OutsideBoot(w), NEW t, On(S, lev, own, t, w, 4),
         NEW e, "nx" \notin e.flags, "huge" \notin e.flags, NEW U,
         Rewritten(T, U, S, t, w[4], e)
  PROVE  /\ Tree(U, S, lev, own)
         /\ Maps(U, w) = IF Present(e) THEN e.page ELSE Unmapped
         /\ \A v \in Addresses : OutsideBoot(v) /\ v # w => Maps(U, v) = Maps(T, v)
  <1>0. t \in S /\ lev[t] = 4 /\ w[4] \in Indices
    BY DEF On, Addresses
  <1>1. \A p \in S : Plain(T, p) => Plain(U, p)
    BY DEF Plain, Rewritten
  <1>2. \A p \in S, i \in Indices : lev[p] < 4 =>
          (Link(U, p, i) <=> Link(T, p, i)) /\ U[p][i] = T[p][i]
    BY <1>0 DEF Link, Rewritten
  <1>3. Tree(U, S, lev, own)
    BY <1>1, <1>2 DEF Tree
  <1>4. Maps(U, w) = IF Present(e) THEN e.page ELSE Unmapped
    <2>1. U[t][w[4]] = e
      BY <1>0 DEF Rewritten, Grown
    <2> QED BY <1>3, <2>1, MapsLeaf
  <1>5. ASSUME NEW v \in Addresses, OutsideBoot(v), v # w
        PROVE  Maps(U, v) = Maps(T, v)
    <2>1. CASE \E p : On(S, lev, own, p, v, 4)
      <3>1. PICK p : On(S, lev, own, p, v, 4)
        BY <2>1
      <3>2. p \in S /\ v[4] \in Indices
        BY <3>1 DEF On, Addresses
      <3>3. ~(p = t /\ v[4] = w[4])
        <4> SUFFICES ASSUME p = t, v[4] = w[4] PROVE FALSE
          OBVIOUS
        <4>1. \A k \in 1 .. 3 : own[t][k] = v[k] /\ own[t][k] = w[k]
          BY <3>1 DEF On, Agree
        <4>2. \A k \in 1 .. 4 : v[k] = w[k]
          BY <4>1
        <4>3. v = w
          BY <4>2 DEF Addresses
        <4> QED BY <1>5, <4>3
      <3>4. U[p][v[4]] = T[p][v[4]]
        BY <3>2, <3>3 DEF Rewritten
      <3>5. Maps(T, v) = IF Present(T[p][v[4]]) THEN T[p][v[4]].page ELSE Unmapped
        BY <1>5, <3>1, MapsLeaf
      <3>6. Maps(U, v) = IF Present(U[p][v[4]]) THEN U[p][v[4]].page ELSE Unmapped
        BY <1>3, <1>5, <3>1, MapsLeaf
      <3> QED BY <3>4, <3>5, <3>6
    <2>2. CASE \A p : ~On(S, lev, own, p, v, 4)
      <3>1. Maps(T, v) = Unmapped
        BY <1>5, <2>2, MapsLeaf
      <3>2. Maps(U, v) = Unmapped
        BY <1>3, <1>5, <2>2, MapsLeaf
      <3> QED BY <3>1, <3>2
    <2> QED BY <2>1, <2>2
  <1> QED BY <1>3, <1>4, <1>5

(* get_or_create_table's write: a clear table is linked in, and no address *)
(* changes.                                                                *)
LEMMA TableLinked ==
  ASSUME NEW T, NEW S, NEW lev, NEW own, Tree(T, S, lev, own), NEW l \in 1 .. 3,
         NEW w \in Addresses, OutsideBoot(w), NEW t, On(S, lev, own, t, w, l),
         ~Present(T[t][w[l]]),
         NEW q, q \notin S, \A i \in Indices : T[q][i] = NoEntry,
         NEW e, e.page = q, e.flags = {"present"}, NEW U,
         NEW S1, NEW lev1, NEW own1, Grown(S, lev, own, q, l, w, S1, lev1, own1),
         Rewritten(T, U, S1, t, w[l], e)
  PROVE  /\ Tree(U, S1, lev1, own1)
         /\ SameMaps(T, U)
  <1>0. t \in S /\ lev[t] = l /\ Agree(own[t], w, l) /\ w[l] \in Indices /\ t # q
    BY DEF On, Addresses
  <1>1. \A p \in S : lev1[p] = lev[p] /\ own1[p] = own[p] /\ p \in S1 /\ p # q
    BY DEF Grown
  <1>2. lev1[q] = l + 1 /\ own1[q] = w /\ q \in S1
    BY DEF Grown
  <1>3. \A p \in S1 : p \in S \/ p = q
    BY DEF Grown
  <1>a. Present(e)
    BY DEF Present
  <1>b. NoEntry.flags = {} /\ ~Present(NoEntry)
    BY DEF NoEntry, Present
  <1>4. U[t][w[l]] = e
    BY <1>0 DEF Rewritten, Grown
  <1>5. \A p \in S, i \in Indices : ~(p = t /\ i = w[l]) => U[p][i] = T[p][i]
    BY DEF Rewritten, Grown
  <1>6. \A i \in Indices : U[q][i] = NoEntry
    BY <1>0 DEF Rewritten, Grown
  <1>7. \A p \in S1 : lev1[p] \in 1 .. 4 /\ own1[p] \in Addresses
    BY <1>1, <1>2, <1>3 DEF Tree
  <1>8. \A p \in S1 : Plain(U, p)
    <2>1. \A p \in S : Plain(T, p)
      BY DEF Tree
    <2> QED BY <2>1, <1>a, <1>b, <1>3, <1>4, <1>5, <1>6 DEF Plain
  <1>9. \A p \in S : ~(lev[p] = l + 1 /\ Agree(own[p], w, l + 1))
    BY WalkOn DEF On
  <1>10. ASSUME NEW p \in S1, NEW r \in S1, lev1[p] = lev1[r], Agree(own1[p], own1[r], lev1[p])
         PROVE  p = r
    <2>1. CASE p \in S /\ r \in S
      BY <1>1, <1>10, <2>1 DEF Tree
    <2>2. CASE p \in S /\ r = q
      <3>1. lev[p] = l + 1 /\ Agree(own[p], w, l + 1)
        BY <1>1, <1>2, <1>10, <2>2
      <3> QED BY <1>9, <2>2, <3>1
    <2>3. CASE p = q /\ r \in S
      <3>1. lev[r] = l + 1 /\ Agree(own[r], w, l + 1)
        BY <1>1, <1>2, <1>10, <2>3 DEF Agree
      <3> QED BY <1>9, <2>3, <3>1
    <2> QED BY <1>3, <2>1, <2>2, <2>3
  <1>11. ASSUME NEW p \in S1, NEW i \in Indices, lev1[p] < 4, Link(U, p, i)
         PROVE  /\ U[p][i].page \in S1
                /\ lev1[U[p][i].page] = lev1[p] + 1
                /\ Agree(own1[p], own1[U[p][i].page], lev1[p])
                /\ own1[U[p][i].page][lev1[p]] = i
    <2>1. p # q
      BY <1>b, <1>6, <1>11 DEF Link
    <2>2. p \in S
      BY <1>3, <2>1
    <2>3. CASE p = t /\ i = w[l]
      BY <1>0, <1>1, <1>2, <1>4, <1>a, <2>3
    <2>4. CASE ~(p = t /\ i = w[l])
      <3>1. U[p][i] = T[p][i] /\ Link(T, p, i) /\ lev[p] < 4
        BY <1>1, <1>5, <1>11, <2>2, <2>4 DEF Link
      <3> DEFINE r == T[p][i].page
      <3>2. r \in S /\ lev[r] = lev[p] + 1 /\ Agree(own[p], own[r], lev[p]) /\ own[r][lev[p]] = i
        BY <2>2, <3>1 DEF Tree
      <3>3. U[p][i].page = r
        BY <3>1
      <3> HIDE DEF r
      <3> QED BY <1>1, <2>2, <3>2, <3>3
    <2> QED BY <2>3, <2>4
  <1>12. ASSUME NEW r \in S1 \ {BootRoot}
         PROVE  \E p \in S1, i \in Indices : lev1[p] < 4 /\ Link(U, p, i) /\ U[p][i].page = r
    <2>1. CASE r = q
      <3>1. Link(U, t, w[l]) /\ U[t][w[l]].page = q
        BY <1>4, <1>a DEF Link
      <3> QED BY <1>0, <1>1, <2>1, <3>1
    <2>2. CASE r \in S
      <3>1. PICK p \in S, i \in Indices : lev[p] < 4 /\ Link(T, p, i) /\ T[p][i].page = r
        BY <2>2 DEF Tree
      <3>2. ~(p = t /\ i = w[l])
        BY <3>1 DEF Link
      <3>3. Link(U, p, i) /\ U[p][i].page = r
        BY <1>5, <3>1, <3>2 DEF Link
      <3> QED BY <1>1, <3>1, <3>3
    <2> QED BY <1>3, <2>1, <2>2
  <1>13. /\ BootRoot \in S1 /\ lev1[BootRoot] = 1
         /\ BootTables[3] \in S1 /\ lev1[BootTables[3]] = 3
         /\ own1[BootTables[3]][1] = 0 /\ own1[BootTables[3]][2] = 0
    BY <1>1 DEF Tree
  <1>14. Tree(U, S1, lev1, own1)
    <2>1. \A p \in S1 : lev1[p] \in 1 .. 4 /\ own1[p] \in Addresses /\ Plain(U, p)
      BY <1>7, <1>8
    <2>2. \A p, r \in S1 : lev1[p] = lev1[r] /\ Agree(own1[p], own1[r], lev1[p]) => p = r
      BY <1>10
    <2>3. \A p \in S1, i \in Indices : lev1[p] < 4 /\ Link(U, p, i) =>
            /\ U[p][i].page \in S1
            /\ lev1[U[p][i].page] = lev1[p] + 1
            /\ Agree(own1[p], own1[U[p][i].page], lev1[p])
            /\ own1[U[p][i].page][lev1[p]] = i
      BY <1>11
    <2>4. \A r \in S1 \ {BootRoot} :
            \E p \in S1, i \in Indices : lev1[p] < 4 /\ Link(U, p, i) /\ U[p][i].page = r
      BY <1>12
    <2> QED BY <1>13, <2>1, <2>2, <2>3, <2>4, Zenon DEF Tree
  <1>15. ASSUME NEW v \in Addresses, OutsideBoot(v)
         PROVE  Maps(U, v) = Maps(T, v)
    <2>1. \A p : On(S, lev, own, p, v, 4) => On(S1, lev1, own1, p, v, 4) /\ p # t
      BY <1>0, <1>1 DEF On
    <2>2. \A p : On(S1, lev1, own1, p, v, 4) => On(S, lev, own, p, v, 4) \/ p = q
      BY <1>1, <1>3 DEF On
    <2>3. CASE \E p : On(S, lev, own, p, v, 4)
      <3>1. PICK p : On(S, lev, own, p, v, 4)
        BY <2>3
      <3>2. p \in S /\ v[4] \in Indices
        BY <3>1 DEF On, Addresses
      <3>3. U[p][v[4]] = T[p][v[4]]
        BY <1>5, <2>1, <3>1, <3>2
      <3>4. Maps(T, v) = IF Present(T[p][v[4]]) THEN T[p][v[4]].page ELSE Unmapped
        BY <1>15, <3>1, MapsLeaf
      <3>5. Maps(U, v) = IF Present(U[p][v[4]]) THEN U[p][v[4]].page ELSE Unmapped
        BY <1>14, <1>15, <2>1, <3>1, MapsLeaf
      <3> QED BY <3>3, <3>4, <3>5
    <2>4. CASE \A p : ~On(S, lev, own, p, v, 4)
      <3>1. Maps(T, v) = Unmapped
        BY <1>15, <2>4, MapsLeaf
      <3>2. Maps(U, v) = Unmapped
        <4>1. CASE On(S1, lev1, own1, q, v, 4)
          <5>1. U[q][v[4]] = NoEntry
            BY <1>6 DEF Addresses
          <5>2. Maps(U, v) = IF Present(U[q][v[4]]) THEN U[q][v[4]].page ELSE Unmapped
            BY <1>14, <1>15, <4>1, MapsLeaf
          <5> QED BY <1>b, <5>1, <5>2
        <4>2. CASE ~On(S1, lev1, own1, q, v, 4)
          <5>1. \A p : ~On(S1, lev1, own1, p, v, 4)
            BY <2>2, <2>4, <4>2
          <5> QED BY <1>14, <1>15, <5>1, MapsLeaf
        <4> QED BY <4>1, <4>2
      <3> QED BY <3>1, <3>2
    <2> QED BY <2>3, <2>4
  <1> QED BY <1>14, <1>15 DEF SameMaps

(* The walks of the model, which are recursive functions, step by step.    *)

(* What each recursive definition says of its function f. *)
Start(root) == [page |-> root, flags |-> {"present"}]

MmuChain(f, T, root, v) ==
  f = [l \in 0 .. 4 |-> IF l = 0 THEN Start(root) ELSE MmuNext(T, f[l - 1], v[l])]

WalkChain(f, T, root, v) ==
  f = [l \in 0 .. 4 |-> IF l = 0 THEN Start(root) ELSE WalkNext(T, f[l - 1], v[l])]

Below(T, X) ==
  {e.page : e \in {e \in UNION {{T[t][i] : i \in Indices} : t \in X} :
                     Present(e) /\ "huge" \notin e.flags}}

LevelChain(f, T) == f = [l \in 1 .. 4 |-> IF l = 1 THEN {BootRoot} ELSE Below(T, f[l - 1])]

(* A function that is given value by value. *)
LEMMA FiveValues ==
  ASSUME NEW a, NEW b, NEW c, NEW d, NEW e,
         NEW g, g = [l \in 0 .. 4 |-> IF l = 0 THEN a ELSE IF l = 1 THEN b ELSE
                                      IF l = 2 THEN c ELSE IF l = 3 THEN d ELSE e]
  PROVE  /\ g[0] = a /\ g[1] = b /\ g[2] = c /\ g[3] = d /\ g[4] = e
         /\ DOMAIN g = 0 .. 4 /\ g = [l \in 0 .. 4 |-> g[l]]
  OBVIOUS

(* The entry a walk starts from leads to the root.                         *)
LEMMA StartOn ==
  ASSUME NEW root, NEW T, NEW i
  PROVE  MmuNext(T, Start(root), i) = T[root][i] /\ WalkNext(T, Start(root), i) = T[root][i]
  BY DEF MmuNext, WalkNext, Start, Stops, Present

(* The functions by which Paging defines a walk, its recursion unfolded:   *)
(* the MMU's, ...                                                          *)
LEMMA MmuChainIs ==
  ASSUME NEW T, NEW root, NEW v
  PROVE  /\ \E f : MmuChain(f, T, root, v)
         /\ \A f : MmuChain(f, T, root, v) => f[4] = MmuEntry(T, root, v)
  <1> DEFINE a == Start(root)
             b == MmuNext(T, a, v[1])
             c == MmuNext(T, b, v[2])
             d == MmuNext(T, c, v[3])
             e == MmuNext(T, d, v[4])
             g == [l \in 0 .. 4 |-> IF l = 0 THEN a ELSE IF l = 1 THEN b ELSE
                                    IF l = 2 THEN c ELSE IF l = 3 THEN d ELSE e]
  <1>1. \A l \in 0 .. 4 : l \in {0, 1, 2, 3, 4}
    OBVIOUS
  <1>2. \E f : MmuChain(f, T, root, v)
    <2>1. /\ b = MmuNext(T, a, v[1]) /\ c = MmuNext(T, b, v[2])
          /\ d = MmuNext(T, c, v[3]) /\ e = MmuNext(T, d, v[4])
      OBVIOUS
    <2>2. g = [l \in 0 .. 4 |-> IF l = 0 THEN a ELSE IF l = 1 THEN b ELSE
                                IF l = 2 THEN c ELSE IF l = 3 THEN d ELSE e]
      OBVIOUS
    <2>3. a = Start(root)
      OBVIOUS
    <2> HIDE DEF a, b, c, d, e, g
    <2>4. /\ g[0] = a /\ g[1] = b /\ g[2] = c /\ g[3] = d /\ g[4] = e
          /\ DOMAIN g = 0 .. 4 /\ g = [l \in 0 .. 4 |-> g[l]]
      BY <2>2, FiveValues
    <2>5. ASSUME NEW l \in 0 .. 4
          PROVE  g[l] = IF l = 0 THEN Start(root) ELSE MmuNext(T, g[l - 1], v[l])
      <3>1. l = 0 => g[l] = Start(root)
        BY <2>3, <2>4
      <3>2. l = 1 => g[l] = MmuNext(T, g[l - 1], v[l])
        BY <2>1, <2>4
      <3>3. l = 2 => g[l] = MmuNext(T, g[l - 1], v[l])
        BY <2>1, <2>4
      <3>4. l = 3 => g[l] = MmuNext(T, g[l - 1], v[l])
        BY <2>1, <2>4
      <3>5. l = 4 => g[l] = MmuNext(T, g[l - 1], v[l])
        BY <2>1, <2>4
      <3> QED BY <1>1, <3>1, <3>2, <3>3, <3>4, <3>5
    <2>6. MmuChain(g, T, root, v)
      BY <2>4, <2>5 DEF MmuChain
    <2> QED BY <2>6
  <1>3. ASSUME NEW f, MmuChain(f, T, root, v)
        PROVE  f[4] = MmuEntry(T, root, v)
    <2>1. \A l \in 0 .. 4 : f[l] = IF l = 0 THEN Start(root) ELSE MmuNext(T, f[l - 1], v[l])
      BY <1>3 DEF MmuChain
    <2>2. f[0] = Start(root)
      BY <2>1
    <2>3. f[1] = MmuNext(T, f[0], v[1])
      BY <2>1
    <2>4. f[2] = MmuNext(T, f[1], v[2])
      BY <2>1
    <2>5. f[3] = MmuNext(T, f[2], v[3])
      BY <2>1
    <2>6. f[4] = MmuNext(T, f[3], v[4])
      BY <2>1
    <2>7. f[1] = T[root][v[1]]
      BY <2>2, <2>3, StartOn
    <2> QED BY <2>4, <2>5, <2>6, <2>7 DEF MmuEntry
  <1> QED BY <1>2, <1>3

(* ... paging_get_physical's, ...                                          *)
LEMMA WalkChainIs ==
  ASSUME NEW T, NEW root, NEW v
  PROVE  /\ \E f : WalkChain(f, T, root, v)
         /\ \A f : WalkChain(f, T, root, v) => f[4] = WalkEntry(T, root, v)
  <1> DEFINE a == Start(root)
             b == WalkNext(T, a, v[1])
             c == WalkNext(T, b, v[2])
             d == WalkNext(T, c, v[3])
             e == WalkNext(T, d, v[4])
             g == [l \in 0 .. 4 |-> IF l = 0 THEN a ELSE IF l = 1 THEN b ELSE
                                    IF l = 2 THEN c ELSE IF l = 3 THEN d ELSE e]
  <1>1. \A l \in 0 .. 4 : l \in {0, 1, 2, 3, 4}
    OBVIOUS
  <1>2. \E f : WalkChain(f, T, root, v)
    <2>1. /\ b = WalkNext(T, a, v[1]) /\ c = WalkNext(T, b, v[2])
          /\ d = WalkNext(T, c, v[3]) /\ e = WalkNext(T, d, v[4])
      OBVIOUS
    <2>2. g = [l \in 0 .. 4 |-> IF l = 0 THEN a ELSE IF l = 1 THEN b ELSE
                                IF l = 2 THEN c ELSE IF l = 3 THEN d ELSE e]
      OBVIOUS
    <2>3. a = Start(root)
      OBVIOUS
    <2> HIDE DEF a, b, c, d, e, g
    <2>4. /\ g[0] = a /\ g[1] = b /\ g[2] = c /\ g[3] = d /\ g[4] = e
          /\ DOMAIN g = 0 .. 4 /\ g = [l \in 0 .. 4 |-> g[l]]
      BY <2>2, FiveValues
    <2>5. ASSUME NEW l \in 0 .. 4
          PROVE  g[l] = IF l = 0 THEN Start(root) ELSE WalkNext(T, g[l - 1], v[l])
      <3>1. l = 0 => g[l] = Start(root)
        BY <2>3, <2>4
      <3>2. l = 1 => g[l] = WalkNext(T, g[l - 1], v[l])
        BY <2>1, <2>4
      <3>3. l = 2 => g[l] = WalkNext(T, g[l - 1], v[l])
        BY <2>1, <2>4
      <3>4. l = 3 => g[l] = WalkNext(T, g[l - 1], v[l])
        BY <2>1, <2>4
      <3>5. l = 4 => g[l] = WalkNext(T, g[l - 1], v[l])
        BY <2>1, <2>4
      <3> QED BY <1>1, <3>1, <3>2, <3>3, <3>4, <3>5
    <2>6. WalkChain(g, T, root, v)
      BY <2>4, <2>5 DEF WalkChain
    <2> QED BY <2>6
  <1>3. ASSUME NEW f, WalkChain(f, T, root, v)
        PROVE  f[4] = WalkEntry(T, root, v)
    <2>1. \A l \in 0 .. 4 : f[l] = IF l = 0 THEN Start(root) ELSE WalkNext(T, f[l - 1], v[l])
      BY <1>3 DEF WalkChain
    <2>2. f[0] = Start(root)
      BY <2>1
    <2>3. f[1] = WalkNext(T, f[0], v[1])
      BY <2>1
    <2>4. f[2] = WalkNext(T, f[1], v[2])
      BY <2>1
    <2>5. f[3] = WalkNext(T, f[2], v[3])
      BY <2>1
    <2>6. f[4] = WalkNext(T, f[3], v[4])
      BY <2>1
    <2>7. f[1] = T[root][v[1]]
      BY <2>2, <2>3, StartOn
    <2> QED BY <2>4, <2>5, <2>6, <2>7 DEF WalkEntry
  <1> QED BY <1>2, <1>3

(* ... and that of the levels of the tree.                                 *)
LEMMA LevelChainIs ==
  ASSUME NEW T
  PROVE  /\ \E f : LevelChain(f, T)
         /\ \A f : LevelChain(f, T) =>
              f[1] = {BootRoot} /\ \A l \in 2 .. 4 : f[l] = Below(T, f[l - 1])
  <1> DEFINE a == {BootRoot}
             b == Below(T, a)
             c == Below(T, b)
             d == Below(T, c)
             g == [l \in 1 .. 4 |-> IF l = 1 THEN a ELSE IF l = 2 THEN b ELSE
                                    IF l = 3 THEN c ELSE d]
  <1>1. \A l \in 1 .. 4 : l \in {1, 2, 3, 4}
    OBVIOUS
  <1>2. \E f : LevelChain(f, T)
    <2>1. b = Below(T, a) /\ c = Below(T, b) /\ d = Below(T, c) /\ a = {BootRoot}
      OBVIOUS
    <2>2. g = [l \in 1 .. 4 |-> IF l = 1 THEN a ELSE IF l = 2 THEN b ELSE
                                IF l = 3 THEN c ELSE d]
      OBVIOUS
    <2> HIDE DEF a, b, c, d, g
    <2>3. /\ g[1] = a /\ g[2] = b /\ g[3] = c /\ g[4] = d
          /\ DOMAIN g = 1 .. 4 /\ g = [l \in 1 .. 4 |-> g[l]]
      BY <2>2
    <2>4. ASSUME NEW l \in 1 .. 4
          PROVE  g[l] = IF l = 1 THEN {BootRoot} ELSE Below(T, g[l - 1])
      <3>1. l = 1 => g[l] = {BootRoot}
        BY <2>1, <2>3
      <3>2. l = 2 => g[l] = Below(T, g[l - 1])
        BY <2>1, <2>3
      <3>3. l = 3 => g[l] = Below(T, g[l - 1])
        BY <2>1, <2>3
      <3>4. l = 4 => g[l] = Below(T, g[l - 1])
        BY <2>1, <2>3
      <3> QED BY <1>1, <3>1, <3>2, <3>3, <3>4
    <2>5. LevelChain(g, T)
      BY <2>3, <2>4 DEF LevelChain
    <2> QED BY <2>5
  <1>3. ASSUME NEW f, LevelChain(f, T)
        PROVE  f[1] = {BootRoot} /\ \A l \in 2 .. 4 : f[l] = Below(T, f[l - 1])
    BY <1>3 DEF LevelChain
  <1> QED BY <1>2, <1>3

(* So Translate is the MMU's walk, ...                                     *)
LEMMA TranslateIs == \A root, v : Translate(root, v) = PageOf(MmuEntry(tables, root, v), v)
  <1> TAKE root, v
  <1> DEFINE found == CHOOSE f : MmuChain(f, tables, root, v)
  <1>1. MmuChain(found, tables, root, v)
    BY MmuChainIs
  <1>2. found[4] = MmuEntry(tables, root, v)
    BY <1>1, MmuChainIs
  <1>3. Translate(root, v) = PageOf(found[4], v)
    BY DEF Translate, PageOf, MmuChain, MmuNext, Stops, Start
  <1> QED BY <1>2, <1>3

(* ... Walk that of paging_get_physical, ...                               *)
LEMMA WalkIs == \A root, v : Walk(root, v) = WalkEntry(tables, root, v)
  <1> TAKE root, v
  <1> DEFINE found == CHOOSE f : WalkChain(f, tables, root, v)
  <1>1. WalkChain(found, tables, root, v)
    BY WalkChainIs
  <1>2. found[4] = WalkEntry(tables, root, v)
    BY <1>1, WalkChainIs
  <1>3. Walk(root, v) = found[4]
    BY DEF Walk, WalkChain, WalkNext, Start
  <1> QED BY <1>2, <1>3

(* ... and TablesAt the levels of the tree.                                *)
LEMMA TablesAtIs ==
  TablesAt[1] = {BootRoot} /\ \A l \in 2 .. 4 : TablesAt[l] = Below(tables, TablesAt[l - 1])
  <1>1. TablesAt = CHOOSE f : LevelChain(f, tables)
    BY DEF TablesAt, LevelChain, Below
  <1>2. LevelChain(TablesAt, tables)
    BY <1>1, LevelChainIs
  <1> QED BY <1>2, LevelChainIs

-------------------------------------------------------------------------------

(* What callers have to keep to: nobody is preempted between finding a     *)
(* page for a table and filling the entry; nobody maps what is mapped; and *)
(* nobody asks for boot's large page or for NX.                            *)
Orderly ==
  /\ Placements \subseteq {"clear"}
  /\ Switchable \subseteq {"idle", "walk", "flush"}
  /\ ~MayRemap
  /\ \A v \in Virts : OutsideBoot(v)
  /\ \A flags \in Flags : flags \subseteq {"present"}

(* Every page that is a table is in the tree, handed out, or in a call.    *)
PagesAre(S) ==
  /\ TablePages = S \union spaces \union TablesInCalls
  /\ S \intersect spaces = {} /\ (S \union spaces) \intersect TablesInCalls = {}
  /\ TablePages \subseteq {BootTables[i] : i \in 1 .. 3} \union held
  /\ \A p \in TablePages : DOMAIN tables[p] = Indices

(* Frames that may be mapped. *)
Mappable == Devices \union (held \ TablePages)

(* What a leaf maps: somebody asked for it, and it is not a table.         *)
LeavesAre(S, lev, own) ==
  \A p \in S, i \in Indices :
    lev[p] = 4 /\ Present(tables[p][i]) =>
      /\ \E v \in Virts : On(S, lev, own, p, v, 4) /\ v[4] = i
      /\ tables[p][i].page \in Mappable

SpacesAre ==
  \A s \in spaces, i \in Indices :
    Present(tables[s][i]) => i \in KernelHalf /\ tables[s][i] = tables[BootRoot][i]

(* What a call relies on: its table is the one for its address.            *)
Active(c) == call[c].pc # "idle" /\ call[c].op # "create"

CallIs(c, S, lev, own) ==
  /\ call[c].pc \in Labels /\ call[c].op \in {"map", "unmap", "create"}
  /\ Active(c) =>
       /\ call[c].virt \in Virts /\ call[c].level \in 1 .. 4
       /\ On(S, lev, own, call[c].table, call[c].virt, call[c].level)
  /\ Active(c) /\ call[c].op = "map" =>
       /\ Maps(tables, call[c].virt) = Unmapped
       /\ call[c].frame \in Mappable /\ call[c].flags \in Flags
  /\ call[c].pc = "take" => call[c].op # "unmap"
  /\ call[c].pc = "fill" => call[c].op = "map"
  /\ call[c].pc = "copy" => call[c].op = "create"
  /\ call[c].pc = "flush" => call[c].op = "unmap" /\ call[c].level = 4
  /\ call[c].pc \in {"take", "fill"} /\ call[c].op = "map" =>
       call[c].level < 4 /\ ~Present(EntryOf(c))
  /\ call[c].pc \in {"fill", "copy"} => tables[call[c].page] = EmptyTable

(* At most one call has a new page, and no two work on one address.        *)
Busy == {"take", "fill", "copy"}

CallsApart ==
  \A c, d \in Callers : c # d =>
    /\ call[c].pc \in Busy => call[d].pc \notin Busy
    /\ Active(c) /\ Active(d) => call[c].virt # call[d].virt

RootIs ==
  /\ running => cr3 = BootRoot /\ kernel_pml4 \in {0, BootRoot}
  /\ kernel_pml4 = 0 => running /\ \A c \in Callers : call[c].pc = "idle"
  /\ kernel_pml4 \in {0, BootRoot} \union spaces

TlbIs ==
  running =>
    \A t \in tlb :
      /\ t[1] \in Virts /\ t[2] # Unmapped
      /\ \/ Maps(tables, t[1]) = t[2]
         \/ \E c \in Callers : call[c].pc = "flush" /\ call[c].virt = t[1]

AddressIs(S, lev, own) ==
  /\ Tree(tables, S, lev, own)
  /\ PagesAre(S)
  /\ LeavesAre(S, lev, own)
  /\ SpacesAre
  /\ \A c \in Callers : CallIs(c, S, lev, own)
  /\ CallsApart
  /\ RootIs
  /\ TlbIs

AddressInv == \E S, lev, own : AddressIs(S, lev, own)

(* A virtual page is four indices.                                         *)
LEMMA VirtIsAddress == \A v \in Virts : v \in Addresses
  <1> TAKE v \in Virts
  <1>1. v \in Indices \X Indices \X Indices \X Indices
    BY PagingAssumption
  <1>2. PICK a \in Indices, b \in Indices, c \in Indices, d \in Indices : v = <<a, b, c, d>>
    BY <1>1
  <1> QED BY <1>2 DEF Addresses

(* Tables are pages of the kernel or held, so no device is one. *)
LEMMA TablesAreMemory ==
  ASSUME UsesPmm, NEW S, PagesAre(S)
  PROVE  /\ Devices \intersect TablePages = {} /\ IsFiniteSet(TablePages)
         /\ TablePages \subseteq Nat /\ Mappable \subseteq Nat
         /\ Mappable \intersect TablePages = {}
         /\ \A i \in 1 .. 3 : BootTables[i] \notin FreePages(pmm)
         /\ held \intersect FreePages(pmm) = {}
         /\ \A f \in Devices : f \notin 0 .. (pmm.total_pages - 1)
         /\ Mappable \subseteq Devices \union (0 .. (AddressLimit \div PAGE_SIZE))
  <1> DEFINE total == pmm.total_pages
             limit == AddressLimit \div PAGE_SIZE
  <1>1. /\ IsMap(mmap, AddressLimit) /\ AddressLimit \in Nat /\ PmmInv
        /\ pmm = NoPages \/ total = pmm_init(mmap).total_pages
        /\ pmm.used \subseteq 0 .. (total - 1) /\ total \in Nat
        /\ held \subseteq pmm.used /\ Reserved(total) \subseteq pmm.used
    BY MapsAssumption DEF UsesPmm, PmmInv, Sound, PmmState
  <1>2. total <= limit /\ limit \in Nat
    <2>1. limit \in Nat
      BY <1>1 DEF PAGE_SIZE
    <2>2. CASE pmm = NoPages
      BY <2>1, <2>2 DEF NoPages
    <2>3. CASE total = pmm_init(mmap).total_pages
      <3>1. total = TotalPages(mmap)
        BY <2>3 DEF pmm_init
      <3> DEFINE Ends == {0} \union {e.addr + e.len : e \in AvailableEntries(mmap)}
      <3>2. Ends \in SUBSET Nat /\ \A y \in Ends : y <= AddressLimit
        <4>1. ASSUME NEW e \in AvailableEntries(mmap)
              PROVE  e.addr + e.len \in Nat /\ e.addr + e.len <= AddressLimit
          <5>1. PICK i \in DOMAIN mmap : e = mmap[i]
            BY <4>1 DEF AvailableEntries, Range
          <5>2. mmap[i] \in Entry /\ mmap[i].addr + mmap[i].len <= AddressLimit
            BY <1>1 DEF IsMap
          <5> QED BY <5>1, <5>2 DEF Entry
        <4> QED BY <1>1, <4>1
      <3>3. Max(Ends) \in Ends
        BY <1>1, <3>2, NatMax
      <3>4. Max(Ends) \in Nat /\ Max(Ends) <= AddressLimit
        BY <3>2, <3>3
      <3>5. total = Max(Ends) \div PAGE_SIZE
        BY <3>1 DEF TotalPages
      <3>6. \A x, y \in Nat : x <= y => x \div 4096 <= y \div 4096
        OBVIOUS
      <3> HIDE DEF Ends
      <3> QED BY <1>1, <2>1, <3>4, <3>5, <3>6 DEF PAGE_SIZE
    <2> QED BY <1>1, <2>1, <2>2, <2>3
  <1>3. \A f \in Devices : f \in Nat /\ f >= limit /\ \A i \in 1 .. 3 : f # BootTables[i]
    BY PagingAssumption
  <1>4. \A i \in 1 .. 3 : BootTables[i] \in Nat
    <2>1. BootTables \in Seq(Nat) /\ Len(BootTables) = 3
      BY PagingAssumption
    <2>2. ASSUME NEW s \in Seq(Nat), Len(s) = 3, NEW i \in 1 .. 3
          PROVE  s[i] \in Nat
      <3>1. i \in DOMAIN s
        BY <2>2
      <3> QED BY <3>1
    <2> QED BY <2>1, <2>2
  <1> HIDE DEF total, limit
  <1>5. Devices \intersect held = {}
    BY <1>1, <1>2, <1>3
  <1>6. Devices \intersect TablePages = {} /\ TablePages \subseteq Nat
    <2>1. TablePages \subseteq {BootTables[i] : i \in 1 .. 3} \union held
      BY DEF PagesAre
    <2>2. held \subseteq Nat
      BY <1>1
    <2> QED BY <1>3, <1>4, <1>5, <2>1, <2>2
  <1>7. held \subseteq Nat /\ IsFiniteSet(held)
    <2>1. IsFiniteSet(pmm.used)
      BY <1>1, SoundFinite DEF PmmInv
    <2> QED BY <1>1, <2>1, FS_Subset
  <1>8. IsFiniteSet(TablePages)
    <2>1. IsFiniteSet({BootTables[1], BootTables[2], BootTables[3]})
      <3>1. IsFiniteSet({}) /\ {} \union {BootTables[1]} = {BootTables[1]}
        BY FS_EmptySet
      <3>2. IsFiniteSet({BootTables[1]})
        BY <3>1, FS_AddElement
      <3>3. IsFiniteSet({BootTables[1]} \union {BootTables[2]})
        BY <3>2, FS_AddElement
      <3>4. IsFiniteSet({BootTables[1]} \union {BootTables[2]} \union {BootTables[3]})
        BY <3>3, FS_AddElement
      <3>5. {BootTables[1]} \union {BootTables[2]} \union {BootTables[3]}
              = {BootTables[1], BootTables[2], BootTables[3]}
        OBVIOUS
      <3> QED BY <3>4, <3>5
    <2>2. TablePages \subseteq {BootTables[1], BootTables[2], BootTables[3]} \union held
      <3>1. 1 .. 3 = {1, 2, 3}
        OBVIOUS
      <3> QED BY <3>1 DEF PagesAre
    <2>3. IsFiniteSet({BootTables[1], BootTables[2], BootTables[3]} \union held)
      BY <1>7, <2>1, FS_Union
    <2> QED BY <2>2, <2>3, FS_Subset
  <1>9. ASSUME NEW i \in 1 .. 3, BootTables[i] \in FreePages(pmm)
        PROVE  FALSE
    <2> DEFINE b == BootTables[i]
    <2>1. b \in 0 .. (total - 1) /\ b \notin pmm.used
      BY <1>9 DEF FreePages, total
    <2>2. b * PAGE_SIZE >= KernelStart /\ b * PAGE_SIZE < KernelEnd /\ b \in Nat
      BY PagingAssumption, <1>4
    <2>3. BitmapSize(total) \in Nat
      BY <1>1, BitmapSizeType
    <2> HIDE DEF b
    <2>4. Touches(b, KernelStart, KernelEnd + BitmapSize(total) - 1)
      BY <2>2, <2>3, KernelAssumption DEF Touches, PAGE_SIZE
    <2>5. b \in Reserved(total)
      BY <1>1, <2>1, <2>4, ReservedCovers
    <2> QED BY <1>1, <2>1, <2>5
  <1>10. Mappable \subseteq Nat /\ Mappable \intersect TablePages = {}
    BY <1>3, <1>6, <1>7 DEF Mappable
  <1>11. held \intersect FreePages(pmm) = {}
    BY <1>1 DEF FreePages
  <1>12. \A f \in Devices : f \notin 0 .. (total - 1)
    BY <1>1, <1>2, <1>3
  <1>13. Mappable \subseteq Devices \union (0 .. limit)
    <2>1. held \subseteq 0 .. limit
      BY <1>1, <1>2
    <2> QED BY <2>1 DEF Mappable
  <1> QED BY <1>6, <1>8, <1>9, <1>10, <1>11, <1>12, <1>13 DEF total, limit

-------------------------------------------------------------------------------

(* What the invariant says about the tables.                               *)

(* The tables that are reached on a level are those that the tree has      *)
(* there.                                                                  *)
LEMMA LevelsAre ==
  ASSUME NEW S, NEW lev, NEW own, Tree(tables, S, lev, own)
  PROVE  \A l \in 1 .. 4 : TablesAt[l] = {p \in S : lev[p] = l}
  <1> DEFINE At(l) == {p \in S : lev[p] = l}
  <1>1. At(1) = {BootRoot}
    <2>1. BootRoot \in At(1)
      BY DEF Tree
    <2>2. ASSUME NEW p \in At(1)
          PROVE  p = BootRoot
      <3>1. p \in S /\ lev[p] = 1 /\ BootRoot \in S /\ lev[BootRoot] = 1
        BY DEF Tree
      <3>2. Agree(own[p], own[BootRoot], lev[p])
        BY <3>1 DEF Agree
      <3> QED BY <3>1, <3>2 DEF Tree
    <2> QED BY <2>1, <2>2
  <1>2. ASSUME NEW l \in 2 .. 4
        PROVE  Below(tables, At(l - 1)) = At(l)
    <2>1. ASSUME NEW p \in At(l - 1), NEW i \in Indices, Link(tables, p, i)
          PROVE  tables[p][i].page \in At(l)
      <3>1. p \in S /\ lev[p] = l - 1 /\ lev[p] < 4
        OBVIOUS
      <3>2. tables[p][i].page \in S /\ lev[tables[p][i].page] = lev[p] + 1
        BY <2>1, <3>1 DEF Tree
      <3> QED BY <3>1, <3>2
    <2>2. ASSUME NEW q \in At(l)
          PROVE  \E p \in At(l - 1), i \in Indices :
                   Link(tables, p, i) /\ tables[p][i].page = q
      <3>1. q \in S /\ q # BootRoot
        BY DEF Tree
      <3>2. PICK p \in S, i \in Indices :
              lev[p] < 4 /\ Link(tables, p, i) /\ tables[p][i].page = q
        BY <3>1 DEF Tree
      <3>3. lev[q] = lev[p] + 1 /\ lev[p] \in 1 .. 4
        BY <3>2 DEF Tree
      <3>4. p \in At(l - 1)
        BY <3>3
      <3> QED BY <3>2, <3>4
    <2> HIDE DEF At
    <2> QED BY <2>1, <2>2 DEF Below, Link
  <1>3. TablesAt[1] = {BootRoot} /\ \A l \in 2 .. 4 : TablesAt[l] = Below(tables, TablesAt[l - 1])
    BY TablesAtIs
  <1>4. TablesAt[1] = At(1)
    BY <1>1, <1>3
  <1> HIDE DEF At
  <1>5. TablesAt[2] = At(2)
    <2>1. 2 \in 2 .. 4 /\ 2 - 1 = 1
      OBVIOUS
    <2> QED BY <1>2, <1>3, <1>4, <2>1
  <1>6. TablesAt[3] = At(3)
    <2>1. 3 \in 2 .. 4 /\ 3 - 1 = 2
      OBVIOUS
    <2> QED BY <1>2, <1>3, <1>5, <2>1
  <1>7. TablesAt[4] = At(4)
    <2>1. 4 \in 2 .. 4 /\ 4 - 1 = 3
      OBVIOUS
    <2> QED BY <1>2, <1>3, <1>6, <2>1
  <1>8. 1 .. 4 = {1, 2, 3, 4}
    OBVIOUS
  <1>9. \A l \in 1 .. 4 : TablesAt[l] = At(l)
    BY <1>4, <1>5, <1>6, <1>7, <1>8
  <1> QED BY <1>9 DEF At

(* Each table but the root has one parent, and one entry there. *)
LEMMA LinksAreTables ==
  ASSUME NEW S, NEW lev, NEW own, Tree(tables, S, lev, own), IsFiniteSet(S),
         NEW l \in 1 .. 3
  PROVE  Cardinality(Links(l)) = Cardinality(TablesAt[l + 1])
  <1> DEFINE A == {p \in S : lev[p] = l}
             B == {p \in S : lev[p] = l + 1}
             L == Links(l)
             to == [x \in L |-> tables[x[1]][x[2]].page]
  <1>1. TablesAt[l] = A /\ TablesAt[l + 1] = B
    <2>1. l \in 1 .. 4 /\ l + 1 \in 1 .. 4
      OBVIOUS
    <2> QED BY <2>1, LevelsAre
  <1>2. L = {x \in A \X Indices : Link(tables, x[1], x[2])}
    BY <1>1 DEF Links, Link
  <1>3. IsFiniteSet(L)
    <2>1. IsFiniteSet(A) /\ IsFiniteSet(Indices)
      BY FS_Subset, PagingAssumption
    <2>2. IsFiniteSet(A \X Indices)
      BY <2>1, FS_Product
    <2>3. L \in SUBSET (A \X Indices)
      BY <1>2
    <2> HIDE DEF L
    <2> QED BY <2>2, <2>3, FS_Subset
  <1>4. ASSUME NEW p \in A, NEW i \in Indices, Link(tables, p, i)
        PROVE  /\ tables[p][i].page \in B
               /\ \A k \in 1 .. (l - 1) : own[tables[p][i].page][k] = own[p][k]
               /\ own[tables[p][i].page][l] = i
    <2>1. p \in S /\ lev[p] = l /\ lev[p] < 4
      OBVIOUS
    <2> DEFINE q == tables[p][i].page
    <2>2. q \in S /\ lev[q] = lev[p] + 1 /\ Agree(own[p], own[q], lev[p]) /\ own[q][lev[p]] = i
      BY <1>4, <2>1 DEF Tree
    <2> HIDE DEF q
    <2>3. q \in B /\ (\A k \in 1 .. (l - 1) : own[q][k] = own[p][k]) /\ own[q][l] = i
      BY <2>1, <2>2 DEF Agree
    <2> QED BY <2>3 DEF q
  <1>5. ASSUME NEW p \in A, NEW i \in Indices, Link(tables, p, i),
               NEW r \in A, NEW j \in Indices, Link(tables, r, j),
               tables[p][i].page = tables[r][j].page
        PROVE  p = r /\ i = j
    <2>1. i = j /\ \A k \in 1 .. (l - 1) : own[r][k] = own[p][k]
      BY <1>4, <1>5
    <2>2. p \in S /\ r \in S /\ lev[p] = lev[r] /\ lev[p] = l
      OBVIOUS
    <2>3. Agree(own[p], own[r], lev[p])
      BY <2>1, <2>2 DEF Agree
    <2> QED BY <2>1, <2>2, <2>3 DEF Tree
  <1>6. ASSUME NEW q \in B
        PROVE  \E p \in A, i \in Indices : Link(tables, p, i) /\ tables[p][i].page = q
    <2>1. q \in S /\ lev[q] = l + 1 /\ q # BootRoot
      BY DEF Tree
    <2>2. PICK p \in S, i \in Indices :
            lev[p] < 4 /\ Link(tables, p, i) /\ tables[p][i].page = q
      BY <2>1 DEF Tree
    <2>3. lev[q] = lev[p] + 1 /\ lev[p] \in 1 .. 4
      BY <2>2 DEF Tree
    <2>4. p \in A
      BY <2>1, <2>3
    <2> QED BY <2>2, <2>4
  <1> HIDE DEF A, B, L
  <1>7. \A x \in L : /\ x[1] \in A /\ x[2] \in Indices /\ x = <<x[1], x[2]>>
                     /\ Link(tables, x[1], x[2])
    BY <1>2
  <1>8. to \in [L -> B]
    BY <1>4, <1>7
  <1>9. \A x, y \in L : to[x] = to[y] => x = y
    <2> SUFFICES ASSUME NEW x \in L, NEW y \in L, to[x] = to[y] PROVE x = y
      OBVIOUS
    <2>1. tables[x[1]][x[2]].page = tables[y[1]][y[2]].page
      OBVIOUS
    <2>2. x[1] = y[1] /\ x[2] = y[2]
      BY <1>5, <1>7, <2>1
    <2> QED BY <1>7, <2>2
  <1>10. \A q \in B : \E x \in L : to[x] = q
    <2> SUFFICES ASSUME NEW q \in B PROVE \E x \in L : to[x] = q
      OBVIOUS
    <2>1. PICK p \in A, i \in Indices : Link(tables, p, i) /\ tables[p][i].page = q
      BY <1>6
    <2>2. <<p, i>> \in L
      BY <1>2, <2>1
    <2>3. to[<<p, i>>] = q
      BY <2>1, <2>2
    <2> QED BY <2>2, <2>3
  <1> HIDE DEF to
  <1>11. to \in Bijection(L, B)
    BY <1>8, <1>9, <1>10 DEF Bijection, Injection, Surjection, IsInjective
  <1>12. Cardinality(B) = Cardinality(L)
    <2>1. ExistsBijection(L, B)
      BY <1>11 DEF ExistsBijection
    <2> QED BY <1>3, <2>1, FS_Bijection
  <1> QED BY <1>1, <1>12 DEF L

(* The invariant gives the tree that TablesAreATree asks for.              *)
LEMMA ThereIsATree ==
  ASSUME UsesPmm, AddressInv
  PROVE  TablesAreATree
  <1>1. PICK S, lev, own : AddressIs(S, lev, own)
    BY DEF AddressInv
  <1> USE DEF AddressIs
  <1>2. Tree(tables, S, lev, own) /\ PagesAre(S) /\ LeavesAre(S, lev, own) /\ SpacesAre
    BY <1>1
  <1>3. IsFiniteSet(TablePages) /\ Mappable \intersect TablePages = {}
    BY <1>2, TablesAreMemory
  <1>4. S \in SUBSET TablePages /\ TablePages = S \union spaces \union TablesInCalls
    BY <1>2 DEF PagesAre
  <1>5. IsFiniteSet(S)
    BY <1>3, <1>4, FS_Subset
  <1>6. \A l \in 1 .. 4 : TablesAt[l] = {p \in S : lev[p] = l}
    BY <1>2, LevelsAre
  <1>7. \A l \in 1 .. 3 : Cardinality(Links(l)) = Cardinality(TablesAt[l + 1])
    BY <1>2, <1>5, LinksAreTables
  <1>8. \A l, m \in 1 .. 4 : l # m => TablesAt[l] \intersect TablesAt[m] = {}
    BY <1>6
  <1> DEFINE All == UNION {TablesAt[l] : l \in 1 .. 4}
  <1>9. S = All
    <2>1. \A p \in S : lev[p] \in 1 .. 4
      BY <1>2 DEF Tree
    <2> QED BY <1>6, <2>1
  <1>10. \A t \in TablesAt[4], i \in Indices :
           Present(tables[t][i]) => tables[t][i].page \notin TablePages
    BY <1>2, <1>3, <1>6 DEF LeavesAre
  <1>11. running =>
           TablePages = (UNION {TablesAt[l] : l \in 1 .. 4}) \union spaces \union TablesInCalls
    <2> HIDE DEF All
    <2>1. TablePages = All \union spaces \union TablesInCalls
      BY <1>4, <1>9
    <2> QED BY <2>1 DEF All
  <1>12. \A s \in spaces, i \in Indices :
           Present(tables[s][i]) => i \in KernelHalf /\ tables[s][i] = tables[BootRoot][i]
    BY <1>2 DEF SpacesAre
  <1> QED BY <1>7, <1>8, <1>10, <1>11, <1>12, Zenon DEF TablesAreATree

(* The translations that the MMU and paging_get_physical find.             *)
LEMMA RootMaps == \A v : Translate(BootRoot, v) = Maps(tables, v)
  BY TranslateIs DEF Maps

(* Orderly callers ask for addresses outside boot's large page.            *)
LEMMA VirtMaps ==
  ASSUME Orderly, NEW v \in Virts
  PROVE  v \in Addresses /\ OutsideBoot(v)
  BY VirtIsAddress DEF Orderly

(* What an address is mapped to, somebody may map.                         *)
LEMMA MappedIsMappable ==
  ASSUME NEW S, NEW lev, NEW own, Tree(tables, S, lev, own), LeavesAre(S, lev, own),
         NEW v \in Addresses, OutsideBoot(v), Maps(tables, v) # Unmapped
  PROVE  Maps(tables, v) \in Mappable
  <1>1. PICK p : On(S, lev, own, p, v, 4)
    BY MapsLeaf
  <1>2. Present(tables[p][v[4]]) /\ Maps(tables, v) = tables[p][v[4]].page
    BY <1>1, MapsLeaf
  <1>3. p \in S /\ lev[p] = 4 /\ v[4] \in Indices
    BY <1>1 DEF On, Addresses
  <1> QED BY <1>2, <1>3 DEF LeavesAre

(* The invariant gives TlbCoherent.                                        *)
LEMMA TranslationsHold ==
  ASSUME UsesPmm, AddressInv
  PROVE  TlbCoherent
  <1>1. PICK S, lev, own : AddressIs(S, lev, own)
    BY DEF AddressInv
  <1>2. TlbIs /\ RootIs
    BY <1>1 DEF AddressIs
  <1>3. ASSUME running, NEW t \in tlb
        PROVE  \/ Translate(cr3, t[1]) = t[2]
               \/ \E c \in Callers : call[c].pc = "flush" /\ call[c].virt = t[1]
    <2>1. cr3 = BootRoot /\ Translate(BootRoot, t[1]) = Maps(tables, t[1])
      BY <1>2, <1>3, RootMaps DEF RootIs
    <2> QED BY <1>2, <1>3, <2>1 DEF TlbIs
  <1> QED BY <1>3 DEF TlbCoherent

(* In a created PML4 a walk finds what it finds in the boot PML4, or       *)
(* nothing in the first entry.                                             *)
LEMMA SpaceWalks ==
  ASSUME SpacesAre, NEW s \in spaces, NEW v \in Addresses
  PROVE  \/ /\ Translate(s, v) = Unmapped /\ ~Present(Walk(s, v))
         \/ /\ v[1] \in KernelHalf
            /\ Translate(s, v) = Translate(BootRoot, v) /\ Walk(s, v) = Walk(BootRoot, v)
  <1> DEFINE e == tables[s][v[1]]
  <1>0. v[1] \in Indices
    BY DEF Addresses
  <1>1. /\ Translate(s, v) = PageOf(MmuEntry(tables, s, v), v)
        /\ Walk(s, v) = WalkEntry(tables, s, v)
        /\ Translate(BootRoot, v) = PageOf(MmuEntry(tables, BootRoot, v), v)
        /\ Walk(BootRoot, v) = WalkEntry(tables, BootRoot, v)
    BY TranslateIs, WalkIs
  <1>2. CASE Present(e)
    <2>1. v[1] \in KernelHalf /\ e = tables[BootRoot][v[1]]
      BY <1>0, <1>2 DEF SpacesAre
    <2>2. /\ MmuEntry(tables, s, v) = MmuEntry(tables, BootRoot, v)
          /\ WalkEntry(tables, s, v) = WalkEntry(tables, BootRoot, v)
      BY <2>1 DEF MmuEntry, WalkEntry
    <2> QED BY <1>1, <2>1, <2>2
  <1>3. CASE ~Present(e)
    <2>1. MmuEntry(tables, s, v) = e
      BY <1>3 DEF MmuEntry, MmuNext, Stops
    <2>2. \A i : ~Present(NoEntry) /\ WalkNext(tables, NoEntry, i) = NoEntry
      BY DEF NoEntry, Present, WalkNext
    <2> HIDE DEF e
    <2>3. WalkEntry(tables, s, v) = NoEntry
      BY <1>3, <2>2 DEF WalkEntry, WalkNext, e
    <2>4. PageOf(e, v) = Unmapped
      BY <1>3 DEF PageOf
    <2> QED BY <1>1, <2>1, <2>2, <2>3, <2>4
  <1> QED BY <1>2, <1>3

(* The invariant gives GetPhysicalAgrees, in the boot PML4 and in one that *)
(* paging_switch_directory has come to.                                    *)
LEMMA GetPhysicalIsRight ==
  ASSUME Orderly, UsesPmm, AddressInv
  PROVE  GetPhysicalAgrees
  <1>1. PICK S, lev, own : AddressIs(S, lev, own)
    BY DEF AddressInv
  <1>2. Tree(tables, S, lev, own) /\ PagesAre(S) /\ LeavesAre(S, lev, own) /\ SpacesAre /\ RootIs
    BY <1>1 DEF AddressIs
  <1> DEFINE Answer(root, v) ==
               IF Present(Walk(root, v))
               THEN [page |-> Walk(root, v).page, flags |-> Walk(root, v).flags \intersect {"nx"}]
               ELSE NoEntry
             Right(root, v) ==
               Answer(root, v) = IF Translate(root, v) = Unmapped THEN NoEntry
                                 ELSE [page |-> Translate(root, v), flags |-> {}]
  <1>3. ASSUME NEW v \in Virts
        PROVE  Right(BootRoot, v)
    <2>1. v \in Addresses /\ OutsideBoot(v)
      BY VirtMaps
    <2>2. /\ Translate(BootRoot, v) = Maps(tables, v)
          /\ Walk(BootRoot, v) = WalkEntry(tables, BootRoot, v)
      BY RootMaps, WalkIs
    <2>3. CASE Present(Walk(BootRoot, v))
      <3>1. /\ Maps(tables, v) = Walk(BootRoot, v).page
            /\ "nx" \notin Walk(BootRoot, v).flags
        BY <1>2, <2>1, <2>2, <2>3, WalksAgree
      <3>2. PICK p : On(S, lev, own, p, v, 4) /\ Walk(BootRoot, v) = tables[p][v[4]]
        BY <1>2, <2>1, <2>2, <2>3, WalksAgree
      <3>3. p \in S /\ lev[p] = 4 /\ v[4] \in Indices
        BY <2>1, <3>2 DEF On, Addresses
      <3>4. Walk(BootRoot, v).page \in Mappable
        BY <1>2, <2>3, <3>2, <3>3 DEF LeavesAre
      <3>5. Mappable \subseteq Nat /\ Unmapped \notin Nat
        BY <1>2, TablesAreMemory, PagingAssumption
      <3>6. Walk(BootRoot, v).flags \intersect {"nx"} = {}
        BY <3>1
      <3> QED BY <2>2, <2>3, <3>1, <3>4, <3>5, <3>6
    <2>4. CASE ~Present(Walk(BootRoot, v))
      BY <1>2, <2>1, <2>2, <2>4, WalksAgree
    <2> QED BY <2>3, <2>4
  <1>4. ASSUME NEW s \in spaces, NEW v \in Virts
        PROVE  Right(s, v)
    <2>1. v \in Addresses
      BY VirtIsAddress
    <2>2. CASE Translate(s, v) = Unmapped /\ ~Present(Walk(s, v))
      BY <2>2
    <2>3. CASE Translate(s, v) = Translate(BootRoot, v) /\ Walk(s, v) = Walk(BootRoot, v)
      BY <1>3, <2>3
    <2> QED BY <1>2, <2>1, <2>2, <2>3, SpaceWalks
  <1>5. kernel_pml4 # 0 => kernel_pml4 \in {BootRoot} \union spaces
    BY <1>2 DEF RootIs
  <1>6. kernel_pml4 # 0 => \A v \in Virts : Right(kernel_pml4, v)
    BY <1>3, <1>4, <1>5
  <1> QED BY <1>6 DEF GetPhysicalAgrees, paging_get_physical

-------------------------------------------------------------------------------

(* The boot tables are a tree of three.                                    *)
LEMMA BootTablesAre ==
  ASSUME PagingInit
  PROVE  /\ TablePages = {BootTables[i] : i \in 1 .. 3}
         /\ \A i \in 1 .. 3, j \in Indices :
              tables[BootTables[i]][j] = IF j = 0 THEN BootEntry(i) ELSE NoEntry
         /\ \A i \in 1 .. 3 : DOMAIN tables[BootTables[i]] = Indices
  <1> DEFINE Boot3 == {0, BootTables[1], BootTables[2], BootTables[3]}
             At(p) == IF p = 0 THEN BiosVectors
                      ELSE [EmptyTable EXCEPT
                              ![0] = BootEntry(CHOOSE i \in 1 .. 3 : BootTables[i] = p)]
  <1>1. tables = [p \in Boot3 |-> At(p)]
    BY DEF PagingInit
  <1>2. /\ \A i, j \in 1 .. 3 : BootTables[i] = BootTables[j] => i = j
        /\ \A i \in 1 .. 3 : BootTables[i] # 0
        /\ 0 \in Indices
    BY PagingAssumption
  <1>3. 1 .. 3 = {1, 2, 3}
    OBVIOUS
  <1>4. \A i \in 1 .. 3 : (CHOOSE j \in 1 .. 3 : BootTables[j] = BootTables[i]) = i
    BY <1>2
  <1>5. \A i \in 1 .. 3 : tables[BootTables[i]] = [EmptyTable EXCEPT ![0] = BootEntry(i)]
    <2> TAKE i \in 1 .. 3
    <2>1. At(BootTables[i]) = [EmptyTable EXCEPT ![0] = BootEntry(i)]
      BY <1>2, <1>4
    <2>2. BootTables[i] \in Boot3
      BY <1>3
    <2> HIDE DEF At, Boot3
    <2> QED BY <1>1, <2>1, <2>2
  <1>6. TablePages = {BootTables[i] : i \in 1 .. 3}
    <2>1. DOMAIN tables = Boot3
      BY <1>1
    <2> QED BY <1>2, <1>3, <2>1 DEF TablePages
  <1> HIDE DEF At, Boot3
  <1>7. ASSUME NEW i \in 1 .. 3
        PROVE  /\ DOMAIN tables[BootTables[i]] = Indices
               /\ \A j \in Indices :
                    tables[BootTables[i]][j] = IF j = 0 THEN BootEntry(i) ELSE NoEntry
    BY <1>5 DEF EmptyTable
  <1> QED BY <1>6, <1>7

(* Nothing is asked of a caller that is in no call.                        *)
LEMMA IdleCall ==
  ASSUME NEW c, NEW S, NEW lev, NEW own, call[c] = NoCall
  PROVE  CallIs(c, S, lev, own)
  BY DEF CallIs, NoCall, Active, Labels

(* The boot tables satisfy the invariant.                                  *)
LEMMA AddressInvInit == Orderly /\ MemoryInit => AddressInv
  <1> SUFFICES ASSUME Orderly, MemoryInit PROVE AddressInv
    OBVIOUS
  <1> DEFINE B(i) == BootTables[i]
             S == {BootTables[i] : i \in 1 .. 3}
             zero == [k \in 1 .. 4 |-> 0]
             lev == [p \in S |-> CHOOSE i \in 1 .. 3 : BootTables[i] = p]
             own == [p \in S |-> zero]
  <1>1. /\ TablePages = S
        /\ \A i \in 1 .. 3, j \in Indices :
             tables[B(i)][j] = IF j = 0 THEN BootEntry(i) ELSE NoEntry
        /\ \A i \in 1 .. 3 : DOMAIN tables[B(i)] = Indices
    BY BootTablesAre DEF MemoryInit
  <1>2. \A i, j \in 1 .. 3 : B(i) = B(j) => i = j
    BY PagingAssumption
  <1>3. \A i \in 1 .. 3 : B(i) \in S /\ lev[B(i)] = i
    BY <1>2
  <1>4. \A p \in S : \E i \in 1 .. 3 : p = B(i)
    OBVIOUS
  <1>5. zero \in Addresses /\ \A k \in 1 .. 4 : zero[k] = 0
    BY PagingAssumption DEF Addresses
  <1>6. \A p \in S : own[p] = zero
    OBVIOUS
  <1>7. BootRoot = B(1)
    BY DEF BootRoot
  <1>8. /\ kernel_pml4 = 0 /\ cr3 = BootRoot /\ spaces = {} /\ tlb = {} /\ running = TRUE
        /\ call = [c \in Callers |-> NoCall]
    BY DEF MemoryInit, PagingInit
  <1>9. /\ \A i \in 1 .. 3 : BootEntry(i).flags = IF i < 3 THEN {"present"} ELSE {"present", "huge"}
        /\ \A i \in 1 .. 2 : BootEntry(i).page = B(i + 1)
        /\ NoEntry.flags = {}
    BY DEF BootEntry, NoEntry
  <1> HIDE DEF S, zero, lev, own, B
  <1>10. ASSUME NEW p \in S, NEW i \in Indices, Link(tables, p, i)
         PROVE  \E n \in 1 .. 2 : p = B(n) /\ i = 0 /\ tables[p][i].page = B(n + 1)
    <2>1. PICK n \in 1 .. 3 : p = B(n)
      BY <1>4
    <2>2. tables[p][i] = IF i = 0 THEN BootEntry(n) ELSE NoEntry
      BY <1>1, <2>1
    <2>3. i = 0
      BY <1>9, <1>10, <2>2 DEF Link, Present
    <2>4. n \in 1 .. 2
      BY <1>9, <1>10, <2>2, <2>3 DEF Link
    <2> QED BY <1>9, <2>1, <2>2, <2>3, <2>4
  <1>11. Tree(tables, S, lev, own)
    <2>1. /\ BootRoot \in S /\ lev[BootRoot] = 1
          /\ BootTables[3] \in S /\ lev[BootTables[3]] = 3
          /\ own[BootTables[3]][1] = 0 /\ own[BootTables[3]][2] = 0
      BY <1>3, <1>5, <1>6, <1>7 DEF B
    <2>2. \A p \in S : lev[p] \in 1 .. 4 /\ own[p] \in Addresses
      BY <1>3, <1>4, <1>5, <1>6
    <2>3. \A p \in S : Plain(tables, p)
      <3> TAKE p \in S
      <3>1. PICK n \in 1 .. 3 : p = B(n)
        BY <1>4
      <3>2. \A i \in Indices : tables[p][i] = IF i = 0 THEN BootEntry(n) ELSE NoEntry
        BY <1>1, <3>1
      <3>3. \A i \in Indices :
              tables[p][i].flags = IF i = 0 THEN BootEntry(n).flags ELSE {}
        BY <1>9, <3>2
      <3>4. n = 3 => p = BootTables[3]
        BY <3>1 DEF B
      <3> QED BY <1>9, <3>3, <3>4 DEF Plain
    <2>4. \A p, q \in S : lev[p] = lev[q] => p = q
      BY <1>3, <1>4
    <2>5. \A p, q \in S, l \in Nat : l \in 1 .. 4 => Agree(own[p], own[q], l)
      BY <1>6 DEF Agree
    <2>6. \A p \in S, i \in Indices : lev[p] < 4 /\ Link(tables, p, i) =>
            /\ tables[p][i].page \in S
            /\ lev[tables[p][i].page] = lev[p] + 1
            /\ Agree(own[p], own[tables[p][i].page], lev[p])
            /\ own[tables[p][i].page][lev[p]] = i
      <3> SUFFICES ASSUME NEW p \in S, NEW i \in Indices, Link(tables, p, i)
                   PROVE  /\ tables[p][i].page \in S
                          /\ lev[tables[p][i].page] = lev[p] + 1
                          /\ Agree(own[p], own[tables[p][i].page], lev[p])
                          /\ own[tables[p][i].page][lev[p]] = i
        OBVIOUS
      <3>1. PICK n \in 1 .. 2 : p = B(n) /\ i = 0 /\ tables[p][i].page = B(n + 1)
        BY <1>10
      <3>2. n \in 1 .. 3 /\ n + 1 \in 1 .. 3 /\ n \in 1 .. 4
        OBVIOUS
      <3>3. B(n + 1) \in S /\ lev[B(n + 1)] = n + 1 /\ lev[p] = n
        BY <1>3, <3>1, <3>2
      <3> QED BY <1>5, <1>6, <2>5, <3>1, <3>2, <3>3
    <2>7. \A q \in S \ {BootRoot} :
            \E p \in S, i \in Indices : lev[p] < 4 /\ Link(tables, p, i) /\ tables[p][i].page = q
      <3> TAKE q \in S \ {BootRoot}
      <3>1. PICK n \in 1 .. 3 : q = B(n)
        BY <1>4
      <3>2. n \in 2 .. 3 /\ n - 1 \in 1 .. 3 /\ n - 1 \in 1 .. 2 /\ (n - 1) + 1 = n
        BY <1>7, <3>1
      <3>3. 0 \in Indices
        BY PagingAssumption
      <3>4. tables[B(n - 1)][0] = BootEntry(n - 1)
        BY <1>1, <3>2, <3>3
      <3>5. BootEntry(n - 1).flags = {"present"} /\ BootEntry(n - 1).page = q
        BY <1>9, <3>1, <3>2
      <3>6. Link(tables, B(n - 1), 0)
        BY <3>4, <3>5 DEF Link, Present
      <3>7. B(n - 1) \in S /\ lev[B(n - 1)] = n - 1
        BY <1>3, <3>2
      <3> QED BY <3>2, <3>3, <3>4, <3>5, <3>6, <3>7
    <2>8. \A p, q \in S : lev[p] = lev[q] /\ Agree(own[p], own[q], lev[p]) => p = q
      BY <2>4
    <2>9. \A p \in S : lev[p] \in 1 .. 4 /\ own[p] \in Addresses /\ Plain(tables, p)
      BY <2>2, <2>3
    <2> QED BY <2>1, <2>6, <2>7, <2>8, <2>9, Zenon DEF Tree
  <1>12. TablesInCalls = {}
    BY <1>8 DEF TablesInCalls, NoCall
  <1>13. PagesAre(S)
    <2>1. \A p \in TablePages : DOMAIN tables[p] = Indices
      BY <1>1, <1>4
    <2>2. S \subseteq {BootTables[i] : i \in 1 .. 3}
      BY DEF S
    <2> QED BY <1>1, <1>8, <1>12, <2>1, <2>2 DEF PagesAre
  <1>14. LeavesAre(S, lev, own)
    BY <1>3, <1>4 DEF LeavesAre
  <1>15. \A c \in Callers : call[c] = NoCall /\ NoCall.pc = "idle"
    BY <1>8 DEF NoCall
  <1>16. \A c \in Callers : CallIs(c, S, lev, own)
    BY <1>15, IdleCall
  <1>17. CallsApart
    BY <1>15 DEF CallsApart, Active, Busy
  <1>18. RootIs /\ TlbIs /\ SpacesAre
    BY <1>8, <1>15 DEF RootIs, TlbIs, SpacesAre
  <1>19. AddressIs(S, lev, own)
    BY <1>11, <1>13, <1>14, <1>16, <1>17, <1>18 DEF AddressIs
  <1> QED BY <1>19 DEF AddressInv

-------------------------------------------------------------------------------

(* A step of a call.  The others are where they may be preempted, so none  *)
(* of them has a page that is not linked in yet.                           *)

Moves(c, k) ==
  /\ c \in Callers /\ MayRun(c) /\ DOMAIN call = Callers
  /\ call' = [call EXCEPT ![c] = k]

(* A call takes a step only where the others may be preempted.             *)
LEMMA OthersWait ==
  ASSUME Orderly, NEW c, NEW k, Moves(c, k)
  PROVE  /\ call'[c] = k /\ running
         /\ \A d \in Callers \ {c} : call'[d] = call[d] /\ call[d].pc \notin Busy
  BY DEF Orderly, Moves, MayRun, Busy

(* So the only table not linked in yet is this call's own.                 *)
LEMMA PagesInCalls ==
  ASSUME Orderly, NEW c, NEW k, Moves(c, k)
  PROVE  /\ TablesInCalls =
              IF call[c].pc \in {"fill", "copy"} THEN {call[c].page} ELSE {}
         /\ TablesInCalls' = IF k.pc \in {"fill", "copy"} THEN {k.page} ELSE {}
  <1>1. c \in Callers
    BY DEF Moves
  <1>2. call'[c] = k /\ \A d \in Callers \ {c} : call'[d] = call[d] /\ call[d].pc \notin Busy
    BY OthersWait
  <1>3. \A d \in Callers : call[d].pc \in {"fill", "copy"} => d = c
    BY <1>2 DEF Busy
  <1>4. \A d \in Callers : call'[d].pc \in {"fill", "copy"} => d = c
    BY <1>2 DEF Busy
  <1>5. TablesInCalls = IF call[c].pc \in {"fill", "copy"} THEN {call[c].page} ELSE {}
    BY <1>1, <1>3 DEF TablesInCalls
  <1>6. TablesInCalls' = IF k.pc \in {"fill", "copy"} THEN {k.page} ELSE {}
    BY <1>1, <1>2, <1>4 DEF TablesInCalls
  <1> QED BY <1>5, <1>6

(* All addresses stay mapped as they are. *)
SpaceKept == \A v \in Virts : Maps(tables', v) = Maps(tables, v)

(* What the others rely on stays. *)
LEMMA CallKept ==
  ASSUME NEW S, NEW lev, NEW own, NEW d, CallIs(d, S, lev, own),
         call'[d] = call[d], call[d].pc \notin Busy,
         NEW S1, NEW lev1, NEW own1,
         \A p, v, l : On(S, lev, own, p, v, l) => On(S1, lev1, own1, p, v, l),
         Active(d) => Maps(tables', call[d].virt) = Maps(tables, call[d].virt),
         Active(d) /\ call[d].op = "map" /\ call[d].frame \in Mappable =>
           call[d].frame \in Mappable'
  PROVE  CallIs(d, S1, lev1, own1)'
  <1>1. Active(d)' <=> Active(d)
    BY DEF Active
  <1>2. Active(d) => On(S1, lev1, own1, call[d].table, call[d].virt, call[d].level)
    BY DEF CallIs
  <1> QED BY <1>1, <1>2 DEF CallIs, Busy

(* No two calls come to work on one address or on a new table.             *)
LEMMA CallsStayApart ==
  ASSUME Orderly, CallsApart, NEW c, NEW k, Moves(c, k),
         k.pc # "idle" /\ k.op # "create" =>
           \A d \in Callers \ {c} : Active(d) => call[d].virt # k.virt
  PROVE  CallsApart'
  <1>1. call'[c] = k /\ \A d \in Callers \ {c} : call'[d] = call[d] /\ call[d].pc \notin Busy
    BY OthersWait
  <1>2. ASSUME NEW a \in Callers, NEW b \in Callers, a # b
        PROVE  /\ call'[a].pc \in Busy => call'[b].pc \notin Busy
               /\ Active(a)' /\ Active(b)' => call'[a].virt # call'[b].virt
    <2>1. CASE a = c
      <3>1. call'[a] = k /\ call'[b] = call[b] /\ call[b].pc \notin Busy
        BY <1>1, <1>2, <2>1
      <3> QED BY <1>2, <2>1, <3>1 DEF Active
    <2>2. CASE b = c
      <3>1. call'[b] = k /\ call'[a] = call[a] /\ call[a].pc \notin Busy
        BY <1>1, <1>2, <2>2
      <3> QED BY <1>2, <2>2, <3>1 DEF Active
    <2>3. CASE a # c /\ b # c
      <3>1. /\ call'[a] = call[a] /\ call'[b] = call[b]
            /\ call[a].pc \notin Busy /\ call[b].pc \notin Busy
        BY <1>1, <2>3
      <3> QED BY <1>2, <3>1 DEF Active, CallsApart
    <2> QED BY <2>1, <2>2, <2>3
  <1> QED BY <1>2 DEF CallsApart, Busy

(* What the TLB holds stays right, or is about to be flushed. *)
LEMMA TlbKept ==
  ASSUME TlbIs, running' => running,
         \A t \in tlb' : t \in tlb \/ (t[1] \in Virts /\ t[2] # Unmapped /\ Maps(tables', t[1]) = t[2]),
         \A v \in Virts :
           \/ Maps(tables', v) = Maps(tables, v) \/ Maps(tables, v) = Unmapped
           \/ \E d \in Callers : call'[d].pc = "flush" /\ call'[d].virt = v,
         \A d \in Callers : call[d].pc = "flush" => call'[d] = call[d]
  PROVE  TlbIs'
  <1> SUFFICES ASSUME running', NEW t \in tlb'
               PROVE  /\ t[1] \in Virts /\ t[2] # Unmapped
                      /\ \/ Maps(tables', t[1]) = t[2]
                         \/ \E c \in Callers : call'[c].pc = "flush" /\ call'[c].virt = t[1]
    BY DEF TlbIs
  <1>1. CASE t \in tlb
    <2>1. t[1] \in Virts /\ t[2] # Unmapped
      BY <1>1 DEF TlbIs
    <2>2. \/ Maps(tables, t[1]) = t[2]
          \/ \E c \in Callers : call[c].pc = "flush" /\ call[c].virt = t[1]
      BY <1>1 DEF TlbIs
    <2> QED BY <2>1, <2>2
  <1>2. CASE t \notin tlb
    BY <1>2
  <1> QED BY <1>1, <1>2

(* What the TLB may load from the boot PML4 is what the tables map.        *)
LEMMA TranslationsAre ==
  \A t : t \in Translations(BootRoot) =>
           t[1] \in Virts /\ t[2] # Unmapped /\ Maps(tables, t[1]) = t[2]
  BY RootMaps DEF Translations

(* The invariant after a step of a call: what is left to show is what the  *)
(* step makes of the tables, the call and the TLB.                         *)
LEMMA CallStep ==
  ASSUME Orderly, NEW S, NEW lev, NEW own, AddressIs(S, lev, own),
         NEW c, NEW k, Moves(c, k), NEW S1, NEW lev1, NEW own1,
         Tree(tables', S1, lev1, own1), PagesAre(S1)', LeavesAre(S1, lev1, own1)', SpacesAre',
         \A p, v, l : On(S, lev, own, p, v, l) => On(S1, lev1, own1, p, v, l),
         CallIs(c, S1, lev1, own1)',
         \A d \in Callers \ {c} :
           Active(d) => Maps(tables', call[d].virt) = Maps(tables, call[d].virt),
         Mappable \subseteq Mappable',
         k.pc # "idle" /\ k.op # "create" =>
           \A d \in Callers \ {c} : Active(d) => call[d].virt # k.virt,
         kernel_pml4 # 0, kernel_pml4' = kernel_pml4, cr3' = cr3,
         spaces \subseteq spaces', TlbIs'
  PROVE  AddressIs(S1, lev1, own1)'
  <1>1. running /\ \A d \in Callers \ {c} : call'[d] = call[d] /\ call[d].pc \notin Busy
    BY OthersWait
  <1>2. \A d \in Callers : CallIs(d, S1, lev1, own1)'
    <2> TAKE d \in Callers
    <2>1. CASE d = c
      BY <2>1
    <2>2. CASE d # c
      <3>1. CallIs(d, S, lev, own)
        BY DEF AddressIs
      <3>2. call'[d] = call[d] /\ call[d].pc \notin Busy
        BY <1>1, <2>2
      <3>3. Active(d) => Maps(tables', call[d].virt) = Maps(tables, call[d].virt)
        BY <2>2
      <3>4. call[d].frame \in Mappable => call[d].frame \in Mappable'
        OBVIOUS
      <3> QED BY <3>1, <3>2, <3>3, <3>4, CallKept
    <2> QED BY <2>1, <2>2
  <1>3. CallsApart'
    <2>1. CallsApart
      BY DEF AddressIs
    <2> QED BY <2>1, CallsStayApart
  <1>4. RootIs'
    <2>1. RootIs
      BY DEF AddressIs
    <2> QED BY <1>1, <2>1 DEF RootIs
  <1> QED BY <1>2, <1>3, <1>4, Zenon DEF AddressIs

(* Nothing happens to the tables. *)
LEMMA TablesKept ==
  ASSUME NEW S, NEW lev, NEW own, AddressIs(S, lev, own),
         tables' = tables, spaces' = spaces, held' = held, TablesInCalls' = TablesInCalls
  PROVE  /\ Tree(tables', S, lev, own) /\ PagesAre(S)' /\ LeavesAre(S, lev, own)' /\ SpacesAre'
         /\ Mappable' = Mappable
  <1>1. Tree(tables, S, lev, own) /\ PagesAre(S) /\ LeavesAre(S, lev, own) /\ SpacesAre
    BY DEF AddressIs
  <1>2. Tree(tables', S, lev, own)
    BY <1>1
  <1>3. TablePages' = TablePages
    BY DEF TablePages
  <1>4. Mappable' = Mappable
    BY <1>3 DEF Mappable
  <1>5. PagesAre(S)'
    BY <1>1, <1>3 DEF PagesAre
  <1>6. LeavesAre(S, lev, own)'
    BY <1>1, <1>4 DEF LeavesAre
  <1>7. SpacesAre'
    BY <1>1 DEF SpacesAre
  <1> QED BY <1>2, <1>4, <1>5, <1>6, <1>7

(* A call goes on, or returns, without having touched the tables. *)
LEMMA OnlyCallMoves ==
  ASSUME Orderly, NEW S, NEW lev, NEW own, AddressIs(S, lev, own),
         NEW c, NEW k, Moves(c, k), call[c].pc \notin {"fill", "copy"}, k.pc \notin {"fill", "copy"},
         CallIs(c, S, lev, own)',
         k.pc # "idle" /\ k.op # "create" =>
           \A d \in Callers \ {c} : Active(d) => call[d].virt # k.virt,
         UNCHANGED <<tables, spaces, held, kernel_pml4, cr3>>, kernel_pml4 # 0, TlbIs'
  PROVE  AddressIs(S, lev, own)'
  <1>1. TablesInCalls' = TablesInCalls
    BY PagesInCalls
  <1>2. /\ Tree(tables', S, lev, own) /\ PagesAre(S)' /\ LeavesAre(S, lev, own)' /\ SpacesAre'
        /\ Mappable' = Mappable
    BY <1>1, TablesKept
  <1>3. \A v : Maps(tables', v) = Maps(tables, v)
    OBVIOUS
  <1>4. \A p, v, l : On(S, lev, own, p, v, l) => On(S, lev, own, p, v, l)
    OBVIOUS
  <1>5. Mappable \subseteq Mappable' /\ spaces \subseteq spaces'
    BY <1>2
  <1>6. kernel_pml4' = kernel_pml4 /\ cr3' = cr3
    OBVIOUS
  <1> QED BY <1>2, <1>3, <1>4, <1>5, <1>6, CallStep

(* A step that leaves tables and TLB alone, and ends no flush.             *)
LEMMA TlbUntouched ==
  ASSUME Orderly, TlbIs, NEW c, NEW k, Moves(c, k), call[c].pc # "flush",
         tlb' = tlb, tables' = tables
  PROVE  TlbIs'
  <1>1. running /\ \A d \in Callers \ {c} : call'[d] = call[d]
    BY OthersWait
  <1>2. \A d \in Callers : call[d].pc = "flush" => call'[d] = call[d]
    BY <1>1
  <1>3. \A v \in Virts : Maps(tables', v) = Maps(tables, v)
    OBVIOUS
  <1>4. \A t \in tlb' : t \in tlb
    OBVIOUS
  <1>5. running' => running
    BY <1>1
  <1> QED BY <1>2, <1>3, <1>4, <1>5, TlbKept

(* While the CPU runs, callers work on the boot PML4.                      *)
LEMMA RootHere ==
  ASSUME NEW S, NEW lev, NEW own, AddressIs(S, lev, own), running,
         kernel_pml4 # 0 \/ \E c \in Callers : call[c].pc # "idle"
  PROVE  kernel_pml4 # 0 /\ kernel_pml4 = BootRoot /\ cr3 = BootRoot
  BY DEF AddressIs, RootIs

(* A call begins. *)
LEMMA BeginsMap ==
  ASSUME Orderly, UsesPmm, NEW S, NEW lev, NEW own, AddressIs(S, lev, own),
         NEW c \in Callers, NEW v \in Virts, NEW f, NEW flags \in Flags,
         paging_map_page(c, v, f, flags)
  PROVE  AddressIs(S, lev, own)'
  <1> DEFINE k == [NoCall EXCEPT !.pc = "walk", !.op = "map", !.virt = v, !.frame = f,
                                 !.flags = flags, !.table = kernel_pml4]
  <1>1. /\ MayRun(c) /\ kernel_pml4 # 0 /\ call[c].pc = "idle" /\ Continue(c, k)
        /\ UNCHANGED <<vars, kernel_pml4, cr3, tables, spaces, tlb, running>>
    BY DEF paging_map_page, Begin
  <1>2. /\ k.pc = "walk" /\ k.op = "map" /\ k.virt = v /\ k.frame = f /\ k.flags = flags
        /\ k.level = 1 /\ k.table = kernel_pml4
    BY DEF NoCall
  <1> HIDE DEF k
  <1>3. Moves(c, k)
    BY <1>1 DEF Moves, Continue, UsesPmm
  <1>4. running /\ call'[c] = k
    BY <1>3, OthersWait
  <1>5. kernel_pml4 = BootRoot
    BY <1>1, <1>4, RootHere
  <1>6. Tree(tables, S, lev, own) /\ TlbIs
    BY DEF AddressIs
  <1>7. On(S, lev, own, BootRoot, v, 1)
    BY <1>6, RootOn, VirtIsAddress
  <1>8. Maps(tables, v) = Unmapped
    BY RootMaps DEF paging_map_page, Orderly
  <1>9. f \in Mappable' /\ Maps(tables', v) = Unmapped
    <2>1. tables' = tables /\ held' = held
      BY <1>1 DEF vars
    <2>2. f \in Devices \union (held \ TablePages)
      BY DEF paging_map_page
    <2> QED BY <1>8, <2>1, <2>2 DEF Mappable, TablePages
  <1>10. CallIs(c, S, lev, own)'
    BY <1>2, <1>4, <1>5, <1>7, <1>9 DEF CallIs, Active, Labels
  <1>11. \A d \in Callers \ {c} : Active(d) => call[d].virt # k.virt
    BY <1>2 DEF paging_map_page, NobodyWorksOn, Active
  <1>12. UNCHANGED <<tables, spaces, held, kernel_pml4, cr3>>
    BY <1>1 DEF vars
  <1>13. TlbIs'
    BY <1>1, <1>3, <1>6, TlbUntouched
  <1> QED BY <1>1, <1>2, <1>3, <1>10, <1>11, <1>12, <1>13, OnlyCallMoves

(* paging_unmap_page begins ...                                            *)
LEMMA BeginsUnmap ==
  ASSUME Orderly, UsesPmm, NEW S, NEW lev, NEW own, AddressIs(S, lev, own),
         NEW c \in Callers, NEW v \in Virts, paging_unmap_page(c, v)
  PROVE  AddressIs(S, lev, own)'
  <1> DEFINE k == [NoCall EXCEPT !.pc = "walk", !.op = "unmap", !.virt = v,
                                 !.table = kernel_pml4]
  <1>1. /\ MayRun(c) /\ kernel_pml4 # 0 /\ call[c].pc = "idle" /\ Continue(c, k)
        /\ UNCHANGED <<vars, kernel_pml4, cr3, tables, spaces, tlb, running>>
    BY DEF paging_unmap_page, Begin
  <1>2. k.pc = "walk" /\ k.op = "unmap" /\ k.virt = v /\ k.level = 1 /\ k.table = kernel_pml4
    BY DEF NoCall
  <1> HIDE DEF k
  <1>3. Moves(c, k)
    BY <1>1 DEF Moves, Continue, UsesPmm
  <1>4. running /\ call'[c] = k
    BY <1>3, OthersWait
  <1>5. kernel_pml4 = BootRoot
    BY <1>1, <1>4, RootHere
  <1>6. Tree(tables, S, lev, own) /\ TlbIs
    BY DEF AddressIs
  <1>7. On(S, lev, own, BootRoot, v, 1)
    BY <1>6, RootOn, VirtIsAddress
  <1>8. CallIs(c, S, lev, own)'
    BY <1>2, <1>4, <1>5, <1>7 DEF CallIs, Active, Labels
  <1>9. \A d \in Callers \ {c} : Active(d) => call[d].virt # k.virt
    BY <1>2 DEF paging_unmap_page, NobodyWorksOn, Active
  <1>10. UNCHANGED <<tables, spaces, held, kernel_pml4, cr3>>
    BY <1>1 DEF vars
  <1>11. TlbIs'
    BY <1>1, <1>3, <1>6, TlbUntouched
  <1> QED BY <1>1, <1>2, <1>3, <1>8, <1>9, <1>10, <1>11, OnlyCallMoves

(* ... and paging_create_address_space.                                    *)
LEMMA BeginsCreate ==
  ASSUME Orderly, UsesPmm, NEW S, NEW lev, NEW own, AddressIs(S, lev, own),
         NEW c \in Callers, paging_create_address_space(c)
  PROVE  AddressIs(S, lev, own)'
  <1> DEFINE k == [NoCall EXCEPT !.pc = "walk", !.op = "create"]
  <1>1. /\ MayRun(c) /\ kernel_pml4 # 0 /\ call[c].pc = "idle" /\ Continue(c, k)
        /\ UNCHANGED <<vars, kernel_pml4, cr3, tables, spaces, tlb, running>>
    BY DEF paging_create_address_space, Begin
  <1>2. k.pc = "walk" /\ k.op = "create"
    BY DEF NoCall
  <1> HIDE DEF k
  <1>3. Moves(c, k)
    BY <1>1 DEF Moves, Continue, UsesPmm
  <1>4. call'[c] = k
    BY <1>3, OthersWait
  <1>5. CallIs(c, S, lev, own)'
    BY <1>2, <1>4 DEF CallIs, Active, Labels
  <1>6. UNCHANGED <<tables, spaces, held, kernel_pml4, cr3>>
    BY <1>1 DEF vars
  <1>7. TlbIs'
    BY <1>1, <1>3, TlbUntouched DEF AddressIs
  <1> QED BY <1>1, <1>2, <1>3, <1>5, <1>6, <1>7, OnlyCallMoves

(* A call returns and has left everything as it was, or all but the TLB.   *)
LEMMA CallReturns ==
  ASSUME Orderly, UsesPmm, NEW S, NEW lev, NEW own, AddressIs(S, lev, own),
         NEW c \in Callers, MayRun(c), call[c].pc \notin {"idle", "fill", "copy"}, Return(c),
         UNCHANGED <<tables, spaces, held, kernel_pml4, cr3>>, TlbIs'
  PROVE  AddressIs(S, lev, own)'
  <1>1. Moves(c, NoCall)
    BY DEF Moves, Return, UsesPmm
  <1>2. running /\ call'[c] = NoCall
    BY <1>1, OthersWait
  <1>3. kernel_pml4 # 0
    BY <1>2, RootHere
  <1>4. NoCall.pc = "idle"
    BY DEF NoCall
  <1>5. CallIs(c, S, lev, own)'
    <2>1. NoCall.op = "map"
      BY DEF NoCall
    <2> QED BY <1>2, <1>4, <2>1 DEF CallIs, Active, Labels
  <1> QED BY <1>1, <1>3, <1>4, <1>5, OnlyCallMoves

(* paging_unmap_page finds no table and returns.                           *)
LEMMA UnmapsNothing ==
  ASSUME Orderly, UsesPmm, NEW S, NEW lev, NEW own, AddressIs(S, lev, own),
         NEW c \in Callers, NothingToUnmap(c)
  PROVE  AddressIs(S, lev, own)'
  <1>1. /\ MayRun(c) /\ call[c].pc = "walk" /\ Return(c)
        /\ UNCHANGED <<vars, kernel_pml4, cr3, tables, spaces, tlb, running>>
    BY DEF NothingToUnmap
  <1>2. Moves(c, NoCall)
    BY <1>1 DEF Moves, Return, UsesPmm
  <1>3. TlbIs'
    BY <1>1, <1>2, TlbUntouched DEF AddressIs
  <1>4. UNCHANGED <<tables, spaces, held, kernel_pml4, cr3>>
    BY <1>1 DEF vars
  <1> QED BY <1>1, <1>3, <1>4, CallReturns

(* The walk follows an entry. *)
LEMMA Descends ==
  ASSUME Orderly, UsesPmm, NEW S, NEW lev, NEW own, AddressIs(S, lev, own),
         NEW c \in Callers, Descend(c)
  PROVE  AddressIs(S, lev, own)'
  <1> DEFINE old == call[c]
             page == EntryOf(c).page
             k == [call[c] EXCEPT !.pc = "walk", !.table = page, !.page = 0, !.level = @ + 1]
  <1>1. /\ MayRun(c) /\ old.pc = "walk" /\ old.op # "create" /\ old.level < 4
        /\ Present(EntryOf(c)) /\ Continue(c, k)
        /\ UNCHANGED <<vars, kernel_pml4, cr3, tables, spaces, tlb, running>>
    BY DEF Descend, Down
  <1>2. DOMAIN old = {"pc", "op", "virt", "frame", "flags", "level", "table", "page"}
    BY DEF UsesPmm, FoundPage, NoCall
  <1>3. /\ k.pc = "walk" /\ k.op = old.op /\ k.virt = old.virt /\ k.frame = old.frame
        /\ k.flags = old.flags /\ k.level = old.level + 1 /\ k.table = page
    BY <1>2
  <1>4. CallIs(c, S, lev, own) /\ CallsApart /\ Tree(tables, S, lev, own) /\ TlbIs
    BY DEF AddressIs
  <1>5. Active(c) /\ old.virt \in Virts /\ old.level \in 1 .. 3
        /\ On(S, lev, own, old.table, old.virt, old.level)
    BY <1>1, <1>4 DEF CallIs, Active
  <1>6. On(S, lev, own, page, old.virt, old.level + 1)
    <2>1. old.virt \in Addresses /\ OutsideBoot(old.virt)
      BY <1>5, VirtMaps
    <2>2. EntryOf(c) = tables[old.table][old.virt[old.level]]
      BY DEF EntryOf, Index
    <2>3. Present(tables[old.table][old.virt[old.level]])
      BY <1>1, <2>2
    <2> HIDE DEF old
    <2>4. On(S, lev, own, tables[old.table][old.virt[old.level]].page, old.virt, old.level + 1)
      BY <1>4, <1>5, <2>1, <2>3, WalkOn
    <2> QED BY <2>2, <2>4
  <1> HIDE DEF k, page
  <1>7. Moves(c, k)
    BY <1>1 DEF Moves, Continue, UsesPmm
  <1>8. running /\ call'[c] = k
    BY <1>7, OthersWait
  <1>9. kernel_pml4 # 0
    BY <1>1, <1>8, RootHere
  <1>10. UNCHANGED <<tables, spaces, held, kernel_pml4, cr3>>
    BY <1>1 DEF vars
  <1>11. Mappable' = Mappable
    BY <1>10 DEF Mappable, TablePages
  <1>12. CallIs(c, S, lev, own)'
    <2>1. old.op = "map" =>
            Maps(tables, old.virt) = Unmapped /\ old.frame \in Mappable /\ old.flags \in Flags
      BY <1>4, <1>5 DEF CallIs
    <2>2. old.op \in {"map", "unmap", "create"}
      BY <1>4 DEF CallIs
    <2> HIDE DEF old
    <2> QED BY <1>3, <1>5, <1>6, <1>8, <1>10, <1>11, <2>1, <2>2 DEF CallIs, Active, Labels
  <1>13. \A d \in Callers \ {c} : Active(d) => call[d].virt # k.virt
    BY <1>3, <1>4, <1>5 DEF CallsApart
  <1>14. TlbIs'
    BY <1>1, <1>4, <1>7, TlbUntouched
  <1> QED BY <1>1, <1>3, <1>7, <1>9, <1>10, <1>12, <1>13, <1>14, OnlyCallMoves

(* The search for a page. *)
LEMMA FindsPage ==
  ASSUME Orderly, UsesPmm, NEW S, NEW lev, NEW own, AddressIs(S, lev, own),
         NEW c \in Callers, Find(c)
  PROVE  AddressIs(S, lev, own)'
  <1> DEFINE old == call[c]
             k == [call[c] EXCEPT !.pc = "take", !.page = PageFound]
  <1>1. /\ MayRun(c) /\ old.pc = "walk" /\ NeedsPage(c)
        /\ UNCHANGED <<pmm, mmap, held, kernel_pml4, cr3, tables, spaces, tlb, running>>
    BY DEF Find
  <1>2. CallIs(c, S, lev, own) /\ CallsApart /\ TlbIs
    BY DEF AddressIs
  <1>3. UNCHANGED <<tables, spaces, held, kernel_pml4, cr3>>
    BY <1>1
  <1>4. CASE PageFound = NoPage
    <2>1. Return(c)
      BY <1>4 DEF Find
    <2>2. Moves(c, NoCall)
      BY <1>1, <2>1 DEF Moves, Return, UsesPmm
    <2>3. TlbIs'
      BY <1>1, <1>2, <2>2, TlbUntouched
    <2> QED BY <1>1, <1>3, <2>1, <2>3, CallReturns
  <1>5. CASE PageFound # NoPage
    <2>1. Continue(c, k)
      BY <1>5 DEF Find
    <2>2. DOMAIN old = {"pc", "op", "virt", "frame", "flags", "level", "table", "page"}
      BY DEF UsesPmm, FoundPage, NoCall
    <2>3. /\ k.pc = "take" /\ k.op = old.op /\ k.virt = old.virt /\ k.frame = old.frame
          /\ k.flags = old.flags /\ k.level = old.level /\ k.table = old.table
      BY <2>2
    <2> HIDE DEF k
    <2>4. Moves(c, k)
      BY <1>1, <2>1 DEF Moves, Continue, UsesPmm
    <2>5. running /\ call'[c] = k
      BY <2>4, OthersWait
    <2>6. kernel_pml4 # 0
      BY <1>1, <2>5, RootHere
    <2>7. Mappable' = Mappable
      BY <1>1 DEF Mappable, TablePages
    <2>8. old.op \in {"map", "create"} /\ (Active(c) <=> old.op = "map")
      BY <1>1, <1>2 DEF NeedsPage, CallIs, Active
    <2>9. old.op = "map" => old.level < 4 /\ ~Present(EntryOf(c))
      BY <1>1 DEF NeedsPage
    <2>10. EntryOf(c)' = EntryOf(c)
      BY <1>1, <2>3, <2>5 DEF EntryOf, Index
    <2>11. old.op = "map" =>
             /\ old.virt \in Virts /\ old.level \in 1 .. 4
             /\ On(S, lev, own, old.table, old.virt, old.level)
             /\ Maps(tables, old.virt) = Unmapped /\ old.frame \in Mappable /\ old.flags \in Flags
      BY <1>2, <2>8 DEF CallIs
    <2> HIDE DEF old
    <2>12. CallIs(c, S, lev, own)'
      BY <1>1, <2>3, <2>5, <2>7, <2>8, <2>9, <2>10, <2>11 DEF CallIs, Active, Labels
    <2>13. k.pc # "idle" /\ k.op # "create" =>
             \A d \in Callers \ {c} : Active(d) => call[d].virt # k.virt
      BY <1>2, <2>3, <2>8 DEF CallsApart, old
    <2>14. TlbIs'
      BY <1>1, <1>2, <2>4, TlbUntouched DEF old
    <2> QED BY <1>1, <1>3, <2>3, <2>4, <2>6, <2>12, <2>13, <2>14, OnlyCallMoves DEF old
  <1> QED BY <1>4, <1>5

(* The page is taken: page 0 for nothing, another one as a clear table     *)
(* that is in the call.                                                    *)
LEMMA TakesTable ==
  ASSUME Orderly, UsesPmm, NEW S, NEW lev, NEW own, AddressIs(S, lev, own),
         NEW c \in Callers, Take(c), call[c].page # 0
  PROVE  AddressIs(S, lev, own)' /\ SpaceKept
  <1> DEFINE old == call[c]
             q == call[c].page
             k == [call[c] EXCEPT !.pc = IF call[c].op = "create" THEN "copy" ELSE "fill"]
  <1>1. /\ MayRun(c) /\ old.pc = "take" /\ Continue(c, k)
        /\ held' = held \union ({q} \ {0})
        /\ tables' = [p \in DOMAIN tables \union {q} |-> IF p = q THEN Cleared(p) ELSE tables[p]]
        /\ UNCHANGED <<mmap, kernel_pml4, cr3, spaces, tlb>>
    BY DEF Take
  <1>2. /\ CallIs(c, S, lev, own) /\ CallsApart /\ Tree(tables, S, lev, own) /\ TlbIs
        /\ PagesAre(S) /\ LeavesAre(S, lev, own) /\ SpacesAre
    BY DEF AddressIs
  <1>3. DOMAIN old = {"pc", "op", "virt", "frame", "flags", "level", "table", "page"}
    BY DEF UsesPmm, FoundPage, NoCall
  <1>4. /\ k.pc = (IF old.op = "create" THEN "copy" ELSE "fill")
        /\ k.op = old.op /\ k.virt = old.virt /\ k.frame = old.frame
        /\ k.flags = old.flags /\ k.level = old.level /\ k.table = old.table /\ k.page = q
    BY <1>3
  <1>5. q \notin TablePages /\ q \notin held /\ q # 0
    <2>1. FreePages(pmm) # {} /\ q = FirstFree(pmm)
      BY <1>1 DEF UsesPmm, FoundPage
    <2>2. q \in FreePages(pmm)
      BY <2>1, FirstFreeIsFree DEF UsesPmm, PmmInv
    <2>3. /\ \A i \in 1 .. 3 : BootTables[i] \notin FreePages(pmm)
          /\ held \intersect FreePages(pmm) = {}
      BY <1>2, TablesAreMemory
    <2> QED BY <1>2, <2>2, <2>3 DEF PagesAre
  <1>6. /\ TablePages' = TablePages \union {q} /\ tables'[q] = EmptyTable
        /\ \A p \in TablePages : tables'[p] = tables[p]
    BY <1>1, <1>5 DEF TablePages, Cleared
  <1> HIDE DEF k
  <1>7. Moves(c, k)
    BY <1>1 DEF Moves, Continue, UsesPmm
  <1>8. running /\ call'[c] = k /\ \A d \in Callers \ {c} : call'[d] = call[d]
    BY <1>7, OthersWait
  <1>9. kernel_pml4 # 0
    BY <1>1, <1>8, RootHere
  <1>10. S \subseteq TablePages /\ spaces \subseteq TablePages
    BY <1>2 DEF PagesAre
  <1>11. /\ Tree(tables', S, lev, own)
         /\ \A v \in Addresses : OutsideBoot(v) => Maps(tables', v) = Maps(tables, v)
    <2>1. \A p \in S : tables'[p] = tables[p]
      BY <1>6, <1>10
    <2> QED BY <1>2, <2>1, OtherPages
  <1>12. \A v \in Virts : Maps(tables', v) = Maps(tables, v)
    BY <1>11, VirtMaps
  <1> HIDE DEF q
  <1>13. Mappable' = Mappable
    BY <1>1, <1>5, <1>6 DEF Mappable
  <1>14. PagesAre(S)'
    <2>1. old.pc \notin {"fill", "copy"} /\ k.pc \in {"fill", "copy"}
      BY <1>1, <1>4
    <2>2. TablesInCalls = {} /\ TablesInCalls' = {q}
      BY <1>4, <1>7, <2>1, PagesInCalls
    <2>3. \A p \in TablePages' : DOMAIN tables'[p] = Indices
      BY <1>2, <1>6 DEF PagesAre, EmptyTable
    <2>4. TablePages' \subseteq {BootTables[i] : i \in 1 .. 3} \union held'
      BY <1>1, <1>2, <1>5, <1>6 DEF PagesAre
    <2>5. TablePages' = S \union spaces' \union TablesInCalls'
      BY <1>1, <1>2, <1>6, <2>2 DEF PagesAre
    <2>6. S \intersect spaces' = {} /\ (S \union spaces') \intersect TablesInCalls' = {}
      BY <1>1, <1>2, <1>5, <1>10, <2>2 DEF PagesAre
    <2> QED BY <2>3, <2>4, <2>5, <2>6 DEF PagesAre
  <1>15. LeavesAre(S, lev, own)'
    BY <1>2, <1>6, <1>10, <1>13 DEF LeavesAre
  <1>16. SpacesAre'
    <2>1. BootRoot \in TablePages
      BY <1>2, <1>10 DEF Tree
    <2>2. tables'[BootRoot] = tables[BootRoot] /\ \A s \in spaces : tables'[s] = tables[s]
      BY <1>6, <1>10, <2>1
    <2>3. spaces' = spaces
      BY <1>1
    <2> QED BY <1>2, <2>2, <2>3 DEF SpacesAre
  <1>17. Active(c) <=> old.op # "create"
    BY <1>1 DEF Active
  <1>18. old.op \in {"map", "create"}
    BY <1>1, <1>2 DEF CallIs
  <1>19. old.op = "map" =>
           /\ old.virt \in Virts /\ old.level \in 1 .. 4
           /\ On(S, lev, own, old.table, old.virt, old.level)
           /\ Maps(tables, old.virt) = Unmapped /\ old.frame \in Mappable /\ old.flags \in Flags
           /\ old.level < 4 /\ ~Present(EntryOf(c))
    BY <1>1, <1>2, <1>17 DEF CallIs
  <1>20. old.op = "map" => EntryOf(c)' = EntryOf(c)
    BY <1>4, <1>6, <1>8, <1>10, <1>19 DEF EntryOf, Index, On
  <1> HIDE DEF old
  <1>21. CallIs(c, S, lev, own)'
    BY <1>4, <1>6, <1>8, <1>12, <1>13, <1>18, <1>19, <1>20 DEF CallIs, Active, Labels
  <1>22. k.pc # "idle" /\ k.op # "create" =>
           \A d \in Callers \ {c} : Active(d) => call[d].virt # k.virt
    BY <1>2, <1>4, <1>17 DEF CallsApart, old
  <1>23. TlbIs'
    <2>1. \A d \in Callers : call[d].pc = "flush" => call'[d] = call[d]
      BY <1>1, <1>8 DEF old
    <2>2. running' => running
      BY <1>8
    <2>3. \A t \in tlb' : t \in tlb
      BY <1>1
    <2> QED BY <1>2, <1>12, <2>1, <2>2, <2>3, TlbKept
  <1>24. \A d \in Callers \ {c} :
           Active(d) => Maps(tables', call[d].virt) = Maps(tables, call[d].virt)
    BY <1>12 DEF AddressIs, CallIs
  <1>25. Mappable \subseteq Mappable' /\ spaces \subseteq spaces'
    BY <1>1, <1>13
  <1>26. \A p, v, l : On(S, lev, own, p, v, l) => On(S, lev, own, p, v, l)
    OBVIOUS
  <1>27. kernel_pml4' = kernel_pml4 /\ cr3' = cr3
    BY <1>1
  <1>28. AddressIs(S, lev, own)'
    BY <1>7, <1>9, <1>11, <1>14, <1>15, <1>16, <1>21, <1>22, <1>23, <1>24, <1>25, <1>26, <1>27,
       CallStep
  <1> QED BY <1>12, <1>28 DEF SpaceKept

(* A call takes the page it found: a new, empty table, or page 0, with     *)
(* which it returns.                                                       *)
LEMMA Takes ==
  ASSUME Orderly, UsesPmm, NEW S, NEW lev, NEW own, AddressIs(S, lev, own),
         NEW c \in Callers, Take(c)
  PROVE  AddressIs(S, lev, own)' /\ SpaceKept
  <1>1. CASE call[c].page = 0
    <2>1. /\ MayRun(c) /\ call[c].pc = "take" /\ Return(c) /\ UNCHANGED tables
          /\ held' = held \union ({call[c].page} \ {0})
          /\ UNCHANGED <<mmap, kernel_pml4, cr3, spaces, tlb>>
      BY <1>1 DEF Take
    <2>2. Moves(c, NoCall)
      BY <2>1 DEF Moves, Return, UsesPmm
    <2>3. TlbIs'
      BY <2>1, <2>2, TlbUntouched DEF AddressIs
    <2>4. UNCHANGED <<tables, spaces, held, kernel_pml4, cr3>>
      BY <1>1, <2>1
    <2>5. AddressIs(S, lev, own)'
      BY <2>1, <2>3, <2>4, CallReturns
    <2> QED BY <2>1, <2>5 DEF SpaceKept
  <1>2. CASE call[c].page # 0
    BY <1>2, TakesTable
  <1> QED BY <1>1, <1>2

TranslationsHere ==
  cr3 = BootRoot =>
    \A t : t \in Translations(cr3) =>
             t[1] \in Virts /\ t[2] # Unmapped /\ Maps(tables, t[1]) = t[2]

(* TranslationsAre in a form that a later state can be put in.             *)
LEMMA TranslationsNow == TranslationsHere
  BY TranslationsAre DEF TranslationsHere

(* Entry i of table t is written. *)
Writes(t, i, e) == tables' = [tables EXCEPT ![t][i] = e]

(* A call writes one entry of one table.                                   *)
LEMMA EntryWritten ==
  ASSUME NEW S, PagesAre(S), NEW t \in S, NEW i \in Indices, NEW e, Writes(t, i, e)
  PROVE  /\ TablePages' = TablePages
         /\ \A p \in TablePages : DOMAIN tables'[p] = Indices
         /\ Rewritten(tables, tables', TablePages, t, i, e)
  <1>1. t \in TablePages /\ \A p \in TablePages : DOMAIN tables[p] = Indices
    BY DEF PagesAre
  <1>2. TablePages' = TablePages
    BY DEF TablePages, Writes
  <1>3. \A p \in TablePages : p \in DOMAIN tables
    BY DEF TablePages
  <1>4. tables' = [tables EXCEPT ![t] = [tables[t] EXCEPT ![i] = e]]
    BY DEF Writes
  <1>5. ASSUME NEW p \in TablePages
        PROVE  tables'[p] = IF p = t THEN [tables[t] EXCEPT ![i] = e] ELSE tables[p]
    BY <1>3, <1>4
  <1>6. ASSUME NEW p \in TablePages
        PROVE  /\ DOMAIN tables'[p] = Indices
               /\ \A j \in Indices : tables'[p][j] = IF p = t /\ j = i THEN e ELSE tables[p][j]
    BY <1>1, <1>5
  <1> QED BY <1>2, <1>6 DEF Rewritten

(* get_or_create_table links the table in. *)
LEMMA Fills ==
  ASSUME Orderly, UsesPmm, NEW S, NEW lev, NEW own, AddressIs(S, lev, own),
         NEW c \in Callers, Fill(c)
  PROVE  SpaceKept /\ \E S1, lev1, own1 : AddressIs(S1, lev1, own1)'
  <1> DEFINE old == call[c]
             k == [call[c] EXCEPT !.pc = "walk", !.table = call[c].page, !.page = 0, !.level = @ + 1]
  <1>0. PICK w, l, t, q, e :
          /\ w = old.virt /\ l = old.level /\ t = old.table /\ q = old.page
          /\ e = [page |-> q, flags |-> {"present"}]
    OBVIOUS
  <1>1. /\ MayRun(c) /\ old.pc = "fill" /\ Continue(c, k)
        /\ Writes(t, w[l], e)
        /\ UNCHANGED <<vars, kernel_pml4, cr3, spaces, running>> /\ Cache
    BY <1>0 DEF Fill, Down, Index, Writes
  <1>2. /\ CallIs(c, S, lev, own) /\ CallsApart /\ Tree(tables, S, lev, own) /\ TlbIs
        /\ PagesAre(S) /\ LeavesAre(S, lev, own) /\ SpacesAre
    BY DEF AddressIs
  <1>3. DOMAIN old = {"pc", "op", "virt", "frame", "flags", "level", "table", "page"}
    BY DEF UsesPmm, FoundPage, NoCall
  <1>4. /\ k.pc = "walk" /\ k.op = old.op /\ k.virt = w /\ k.frame = old.frame
        /\ k.flags = old.flags /\ k.level = l + 1 /\ k.table = q
    BY <1>0, <1>3
  <1> HIDE DEF k
  <1>5. Moves(c, k)
    BY <1>1 DEF Moves, Continue, UsesPmm
  <1>6. running /\ call'[c] = k /\ \A d \in Callers \ {c} : call'[d] = call[d]
    BY <1>5, OthersWait
  <1>7. kernel_pml4 # 0 /\ cr3 = BootRoot
    BY <1>1, <1>6, RootHere
  <1>8. old.op = "map" /\ Active(c)
    BY <1>1, <1>2 DEF CallIs, Active
  <1>9. /\ w \in Virts /\ l \in 1 .. 3 /\ On(S, lev, own, t, w, l)
        /\ Maps(tables, w) = Unmapped /\ old.frame \in Mappable /\ old.flags \in Flags
        /\ ~Present(tables[t][w[l]]) /\ tables[q] = EmptyTable
    BY <1>0, <1>1, <1>2, <1>8 DEF CallIs, EntryOf, Index
  <1>10. w \in Addresses /\ OutsideBoot(w) /\ w[l] \in Indices /\ t \in S /\ lev[t] = l
    BY <1>9, VirtMaps DEF Addresses, On
  <1>11. TablesInCalls = {q} /\ TablesInCalls' = {}
    BY <1>0, <1>1, <1>4, <1>5, PagesInCalls
  <1>12. q \notin S /\ q \notin spaces /\ q \in TablePages /\ S \subseteq TablePages
         /\ spaces \subseteq TablePages /\ S \intersect spaces = {}
    BY <1>2, <1>11 DEF PagesAre
  <1>13. /\ TablePages' = TablePages
         /\ \A p \in TablePages : DOMAIN tables'[p] = Indices
         /\ Rewritten(tables, tables', TablePages, t, w[l], e)
    BY <1>1, <1>2, <1>10, EntryWritten
  <1>14. \A i \in Indices : tables[q][i] = NoEntry
    BY <1>9 DEF EmptyTable
  <1>15. PICK S1, lev1, own1 : Grown(S, lev, own, q, l, w, S1, lev1, own1)
    <2> DEFINE S2 == S \union {q}
               lev2 == [p \in S2 |-> IF p = q THEN l + 1 ELSE lev[p]]
               own2 == [p \in S2 |-> IF p = q THEN w ELSE own[p]]
    <2>1. /\ lev2[q] = l + 1 /\ \A p \in S : lev2[p] = lev[p]
          /\ own2[q] = w /\ \A p \in S : own2[p] = own[p]
      BY <1>12
    <2>2. S2 = S \union {q}
      OBVIOUS
    <2> HIDE DEF S2, lev2, own2
    <2> QED BY <2>1, <2>2 DEF Grown
  <1>16. /\ Tree(tables', S1, lev1, own1)
         /\ \A v \in Addresses : OutsideBoot(v) => Maps(tables', v) = Maps(tables, v)
    <2>1. Rewritten(tables, tables', S1, t, w[l], e)
      BY <1>12, <1>13, <1>15 DEF Rewritten, Grown
    <2>2. e.page = q /\ e.flags = {"present"}
      BY <1>0
    <2>3. Tree(tables, S, lev, own)
      BY <1>2
    <2>4. l \in 1 .. 3 /\ On(S, lev, own, t, w, l) /\ ~Present(tables[t][w[l]])
      BY <1>9
    <2>5. w \in Addresses /\ OutsideBoot(w) /\ q \notin S
      BY <1>10, <1>12
    <2> HIDE DEF old
    <2>6. Tree(tables', S1, lev1, own1)
      BY <1>14, <1>15, <2>1, <2>2, <2>3, <2>4, <2>5, TableLinked
    <2>7. SameMaps(tables, tables')
      BY <1>14, <1>15, <2>1, <2>2, <2>3, <2>4, <2>5, TableLinked
    <2> QED BY <2>6, <2>7 DEF SameMaps
  <1>17. \A v \in Virts : Maps(tables', v) = Maps(tables, v)
    BY <1>16, VirtMaps
  <1>18. \A p, v, m : On(S, lev, own, p, v, m) => On(S1, lev1, own1, p, v, m)
    BY <1>15 DEF On, Grown
  <1>19. UNCHANGED <<held, spaces, kernel_pml4, cr3, running>>
    BY <1>1 DEF vars
  <1>20. Mappable' = Mappable
    BY <1>13, <1>19 DEF Mappable
  <1>21. PagesAre(S1)'
    <2>1. TablePages' = S1 \union spaces' \union TablesInCalls'
      BY <1>2, <1>11, <1>13, <1>15, <1>19 DEF PagesAre, Grown
    <2>2. S1 \intersect spaces' = {} /\ (S1 \union spaces') \intersect TablesInCalls' = {}
      BY <1>11, <1>12, <1>15, <1>19 DEF Grown
    <2>3. TablePages' \subseteq {BootTables[i] : i \in 1 .. 3} \union held'
      BY <1>2, <1>13, <1>19 DEF PagesAre
    <2>4. \A p \in TablePages' : DOMAIN tables'[p] = Indices
      BY <1>13
    <2> QED BY <2>1, <2>2, <2>3, <2>4 DEF PagesAre
  <1>22. ~Present(NoEntry)
    BY DEF Present, NoEntry
  <1>23. LeavesAre(S1, lev1, own1)'
    <2>1. ASSUME NEW p \in S1, NEW i \in Indices, lev1[p] = 4, Present(tables'[p][i])
          PROVE  /\ \E v \in Virts : On(S1, lev1, own1, p, v, 4) /\ v[4] = i
                 /\ tables'[p][i].page \in Mappable'
      <3>1. p # q
        BY <1>10, <1>12, <1>13, <1>14, <1>22, <2>1 DEF Rewritten
      <3>2. p \in S /\ lev[p] = 4 /\ p # t
        BY <1>9, <1>10, <1>15, <2>1, <3>1 DEF Grown
      <3>3. tables'[p][i] = tables[p][i]
        BY <1>12, <1>13, <3>2 DEF Rewritten
      <3>4. /\ \E v \in Virts : On(S, lev, own, p, v, 4) /\ v[4] = i
            /\ tables[p][i].page \in Mappable
        BY <1>2, <2>1, <3>2, <3>3 DEF LeavesAre
      <3> QED BY <1>18, <1>20, <3>3, <3>4
    <2> QED BY <2>1 DEF LeavesAre
  <1>24. SpacesAre'
    <2>1. ASSUME NEW s \in spaces, NEW i \in Indices, Present(tables'[s][i])
          PROVE  i \in KernelHalf /\ tables'[s][i] = tables'[BootRoot][i]
      <3>1. s # t /\ tables'[s][i] = tables[s][i]
        BY <1>10, <1>12, <1>13 DEF Rewritten
      <3>2. i \in KernelHalf /\ tables[s][i] = tables[BootRoot][i]
        BY <1>2, <2>1, <3>1 DEF SpacesAre
      <3>3. ~(BootRoot = t /\ i = w[l])
        BY <1>9, <2>1, <3>1, <3>2
      <3>4. BootRoot \in TablePages
        BY <1>2, <1>12 DEF Tree
      <3>5. tables'[BootRoot][i] = tables[BootRoot][i]
        BY <1>13, <3>3, <3>4 DEF Rewritten
      <3> QED BY <3>1, <3>2, <3>5
    <2> QED BY <1>19, <2>1 DEF SpacesAre
  <1>25. On(S1, lev1, own1, q, w, l + 1)
    BY <1>15 DEF On, Agree, Grown
  <1> HIDE DEF old
  <1>26. CallIs(c, S1, lev1, own1)'
    BY <1>4, <1>6, <1>8, <1>9, <1>17, <1>20, <1>25 DEF CallIs, Active, Labels
  <1>27. k.pc # "idle" /\ k.op # "create" =>
           \A d \in Callers \ {c} : Active(d) => call[d].virt # k.virt
    BY <1>0, <1>2, <1>4, <1>8 DEF CallsApart, old
  <1>28. TlbIs'
    <2>1. \A d \in Callers : call[d].pc = "flush" => call'[d] = call[d]
      BY <1>1, <1>6 DEF old
    <2>2. TranslationsHere'
      BY TranslationsNow, PTL
    <2>3. \A t1 \in tlb' :
            t1 \in tlb \/ (t1[1] \in Virts /\ t1[2] # Unmapped /\ Maps(tables', t1[1]) = t1[2])
      <3>1. cr3' = BootRoot
        BY <1>7, <1>19
      <3>2. tlb' = tlb \union Translations(cr3)'
        BY <1>1 DEF Cache
      <3> QED BY <2>2, <3>1, <3>2 DEF TranslationsHere
    <2> QED BY <1>2, <1>6, <1>17, <2>1, <2>3, TlbKept
  <1>29. \A d \in Callers \ {c} :
           Active(d) => Maps(tables', call[d].virt) = Maps(tables, call[d].virt)
    BY <1>17 DEF AddressIs, CallIs
  <1>30. Mappable \subseteq Mappable' /\ spaces \subseteq spaces'
    BY <1>19, <1>20
  <1>31. kernel_pml4' = kernel_pml4 /\ cr3' = cr3
    BY <1>19
  <1>32. AddressIs(S1, lev1, own1)'
    BY <1>5, <1>7, <1>16, <1>18, <1>21, <1>23, <1>24, <1>26, <1>27, <1>28, <1>29, <1>30, <1>31,
       CallStep
  <1> QED BY <1>17, <1>32 DEF SpaceKept

(* A leaf is written. *)
LEMMA LeafIs ==
  ASSUME NEW S, NEW lev, NEW own, AddressIs(S, lev, own),
         NEW t, NEW w \in Addresses, OutsideBoot(w), On(S, lev, own, t, w, 4), NEW e,
         "nx" \notin e.flags, "huge" \notin e.flags, Writes(t, w[4], e),
         Present(e) => w \in Virts /\ e.page \in Mappable,
         UNCHANGED <<held, spaces>>, TablesInCalls' = TablesInCalls
  PROVE  /\ Tree(tables', S, lev, own) /\ PagesAre(S)' /\ LeavesAre(S, lev, own)' /\ SpacesAre'
         /\ Mappable' = Mappable
         /\ Maps(tables', w) = IF Present(e) THEN e.page ELSE Unmapped
         /\ \A v \in Addresses : OutsideBoot(v) /\ v # w => Maps(tables', v) = Maps(tables, v)
  <1>1. Tree(tables, S, lev, own) /\ PagesAre(S) /\ LeavesAre(S, lev, own) /\ SpacesAre
    BY DEF AddressIs
  <1>2. t \in S /\ lev[t] = 4 /\ w[4] \in Indices
    BY DEF On, Addresses
  <1>3. /\ TablePages' = TablePages
        /\ \A p \in TablePages : DOMAIN tables'[p] = Indices
        /\ Rewritten(tables, tables', TablePages, t, w[4], e)
    BY <1>1, <1>2, EntryWritten
  <1>4. S \subseteq TablePages /\ spaces \subseteq TablePages /\ S \intersect spaces = {}
    BY <1>1 DEF PagesAre
  <1>5. Rewritten(tables, tables', S, t, w[4], e)
    BY <1>3, <1>4 DEF Rewritten
  <1>6. Tree(tables', S, lev, own)
    BY <1>1, <1>5, LeafWritten
  <1>7. Maps(tables', w) = IF Present(e) THEN e.page ELSE Unmapped
    BY <1>1, <1>5, LeafWritten
  <1>8. ASSUME NEW v \in Addresses, OutsideBoot(v), v # w
        PROVE  Maps(tables', v) = Maps(tables, v)
    BY <1>1, <1>5, <1>8, LeafWritten
  <1>9. Mappable' = Mappable
    BY <1>3 DEF Mappable
  <1>10. PagesAre(S)'
    BY <1>1, <1>3 DEF PagesAre
  <1>11. LeavesAre(S, lev, own)'
    <2>1. ASSUME NEW p \in S, NEW i \in Indices, lev[p] = 4, Present(tables'[p][i])
          PROVE  /\ \E v \in Virts : On(S, lev, own, p, v, 4) /\ v[4] = i
                 /\ tables'[p][i].page \in Mappable'
      <3>1. tables'[p][i] = IF p = t /\ i = w[4] THEN e ELSE tables[p][i]
        BY <1>5 DEF Rewritten
      <3>2. CASE p = t /\ i = w[4]
        BY <1>9, <2>1, <3>1, <3>2
      <3>3. CASE ~(p = t /\ i = w[4])
        BY <1>1, <1>9, <2>1, <3>1, <3>3 DEF LeavesAre
      <3> QED BY <3>2, <3>3
    <2> QED BY <2>1 DEF LeavesAre
  <1>12. SpacesAre'
    <2>1. ASSUME NEW s \in spaces, NEW i \in Indices
          PROVE  tables'[s][i] = tables[s][i] /\ tables'[BootRoot][i] = tables[BootRoot][i]
      <3>1. s # t /\ BootRoot # t /\ s \in TablePages /\ BootRoot \in TablePages
        BY <1>1, <1>2, <1>4 DEF Tree
      <3> QED BY <1>3, <3>1 DEF Rewritten
    <2> QED BY <1>1, <2>1 DEF SpacesAre
  <1> QED BY <1>6, <1>7, <1>8, <1>9, <1>10, <1>11, <1>12

(* paging_map_page writes the leaf: its address is mapped as asked, and    *)
(* the others as they were.                                                *)
LEMMA StoresMap ==
  ASSUME Orderly, UsesPmm, NEW S, NEW lev, NEW own, AddressIs(S, lev, own),
         NEW c \in Callers, StoreMap(c)
  PROVE  /\ AddressIs(S, lev, own)'
         /\ call[c].virt \in Virts /\ call[c].frame \in Mappable /\ cr3' = BootRoot
         /\ Maps(tables, call[c].virt) = Unmapped
         /\ \A v \in Virts : v # call[c].virt => Maps(tables', v) = Maps(tables, v)
         /\ Maps(tables', call[c].virt) = IF "present" \in call[c].flags THEN call[c].frame
                                          ELSE Unmapped
  <1> DEFINE old == call[c]
  <1>0. PICK w, t, e : w = old.virt /\ t = old.table /\ e = [page |-> old.frame, flags |-> old.flags]
    OBVIOUS
  <1>1. /\ MayRun(c) /\ old.pc = "walk" /\ old.op = "map" /\ old.level = 4 /\ Return(c)
        /\ Writes(t, w[4], e)
        /\ UNCHANGED <<vars, kernel_pml4, cr3, spaces, running>> /\ Cache
    BY <1>0 DEF StoreMap, Index, Writes
  <1>2. CallIs(c, S, lev, own) /\ CallsApart /\ TlbIs
    BY DEF AddressIs
  <1>3. Active(c)
    BY <1>1 DEF Active
  <1>4. /\ w \in Virts /\ On(S, lev, own, t, w, 4) /\ Maps(tables, w) = Unmapped
        /\ old.frame \in Mappable /\ old.flags \in Flags
    BY <1>0, <1>1, <1>2, <1>3 DEF CallIs
  <1>5. w \in Addresses /\ OutsideBoot(w)
    BY <1>4, VirtMaps
  <1>6. /\ e.page = old.frame /\ e.flags = old.flags /\ "nx" \notin e.flags /\ "huge" \notin e.flags
        /\ (Present(e) <=> "present" \in old.flags)
    BY <1>0, <1>4 DEF Orderly, Present
  <1>7. Moves(c, NoCall)
    BY <1>1 DEF Moves, Return, UsesPmm
  <1>8. running /\ call'[c] = NoCall /\ \A d \in Callers \ {c} : call'[d] = call[d]
    BY <1>7, OthersWait
  <1>9. kernel_pml4 # 0 /\ cr3 = BootRoot
    BY <1>1, <1>8, RootHere
  <1>10. NoCall.pc = "idle"
    BY DEF NoCall
  <1>11. TablesInCalls' = TablesInCalls
    BY <1>1, <1>7, <1>10, PagesInCalls
  <1>12. UNCHANGED <<held, spaces, kernel_pml4, cr3, running>>
    BY <1>1 DEF vars
  <1>13. /\ Tree(tables', S, lev, own) /\ PagesAre(S)' /\ LeavesAre(S, lev, own)' /\ SpacesAre'
         /\ Mappable' = Mappable
         /\ Maps(tables', w) = IF Present(e) THEN e.page ELSE Unmapped
         /\ \A v \in Addresses : OutsideBoot(v) /\ v # w => Maps(tables', v) = Maps(tables, v)
    BY <1>1, <1>4, <1>5, <1>6, <1>11, <1>12, LeafIs
  <1>14. \A v \in Virts : v # w => Maps(tables', v) = Maps(tables, v)
    BY <1>13, VirtMaps
  <1>15. CallIs(c, S, lev, own)'
    <2>1. NoCall.op = "map"
      BY DEF NoCall
    <2> QED BY <1>8, <1>10, <2>1 DEF CallIs, Active, Labels
  <1>16. \A d \in Callers \ {c} : Active(d) => call[d].virt # w /\ call[d].virt \in Virts
    BY <1>0, <1>2, <1>3 DEF CallsApart, AddressIs, CallIs
  <1>17. TlbIs'
    <2>1. \A d \in Callers : call[d].pc = "flush" => call'[d] = call[d]
      BY <1>1, <1>8
    <2>2. TranslationsHere'
      BY TranslationsNow, PTL
    <2>3. \A u \in tlb' :
            u \in tlb \/ (u[1] \in Virts /\ u[2] # Unmapped /\ Maps(tables', u[1]) = u[2])
      <3>1. cr3' = BootRoot
        BY <1>9, <1>12
      <3>2. tlb' = tlb \union Translations(cr3)'
        BY <1>1 DEF Cache
      <3> QED BY <2>2, <3>1, <3>2 DEF TranslationsHere
    <2>4. \A v \in Virts : Maps(tables', v) = Maps(tables, v) \/ Maps(tables, v) = Unmapped
      BY <1>4, <1>14
    <2> QED BY <1>2, <1>8, <2>1, <2>3, <2>4, TlbKept
  <1>18. \A d \in Callers \ {c} :
           Active(d) => Maps(tables', call[d].virt) = Maps(tables, call[d].virt)
    BY <1>14, <1>16
  <1>19. Mappable \subseteq Mappable' /\ spaces \subseteq spaces'
    BY <1>12, <1>13
  <1>20. \A p, v, l : On(S, lev, own, p, v, l) => On(S, lev, own, p, v, l)
    OBVIOUS
  <1>21. kernel_pml4' = kernel_pml4 /\ cr3' = cr3
    BY <1>12
  <1>22. AddressIs(S, lev, own)'
    BY <1>7, <1>9, <1>10, <1>13, <1>15, <1>17, <1>18, <1>19, <1>20, <1>21, CallStep
  <1>23. Maps(tables', old.virt) = IF "present" \in old.flags THEN old.frame ELSE Unmapped
    BY <1>0, <1>6, <1>13
  <1> QED BY <1>0, <1>4, <1>9, <1>14, <1>21, <1>22, <1>23

(* paging_unmap_page clears the leaf: its address is mapped to nothing,    *)
(* and the TLB may disagree until invlpg.                                  *)
LEMMA StoresUnmap ==
  ASSUME Orderly, UsesPmm, NEW S, NEW lev, NEW own, AddressIs(S, lev, own),
         NEW c \in Callers, StoreUnmap(c)
  PROVE  /\ AddressIs(S, lev, own)'
         /\ call[c].virt \in Virts /\ Maps(tables', call[c].virt) = Unmapped
         /\ \A v \in Virts : v # call[c].virt => Maps(tables', v) = Maps(tables, v)
  <1> DEFINE old == call[c]
             k == [call[c] EXCEPT !.pc = "flush"]
  <1>0. PICK w, t : w = old.virt /\ t = old.table
    OBVIOUS
  <1>1. /\ MayRun(c) /\ old.pc = "walk" /\ old.op = "unmap" /\ old.level = 4 /\ Continue(c, k)
        /\ Writes(t, w[4], NoEntry)
        /\ UNCHANGED <<vars, kernel_pml4, cr3, spaces, tlb, running>>
    BY <1>0 DEF StoreUnmap, Index, Writes
  <1>2. CallIs(c, S, lev, own) /\ CallsApart /\ TlbIs
    BY DEF AddressIs
  <1>3. DOMAIN old = {"pc", "op", "virt", "frame", "flags", "level", "table", "page"}
    BY DEF UsesPmm, FoundPage, NoCall
  <1>4. k.pc = "flush" /\ k.op = "unmap" /\ k.virt = w /\ k.level = 4 /\ k.table = t
    BY <1>0, <1>1, <1>3
  <1> HIDE DEF k
  <1>5. Active(c)
    BY <1>1 DEF Active
  <1>6. w \in Virts /\ On(S, lev, own, t, w, 4)
    BY <1>0, <1>1, <1>2, <1>5 DEF CallIs
  <1>7. w \in Addresses /\ OutsideBoot(w)
    BY <1>6, VirtMaps
  <1>8. "nx" \notin NoEntry.flags /\ "huge" \notin NoEntry.flags /\ ~Present(NoEntry)
    BY DEF NoEntry, Present
  <1>9. Moves(c, k)
    BY <1>1 DEF Moves, Continue, UsesPmm
  <1>10. running /\ call'[c] = k /\ \A d \in Callers \ {c} : call'[d] = call[d]
    BY <1>9, OthersWait
  <1>11. kernel_pml4 # 0
    BY <1>1, <1>10, RootHere
  <1>12. TablesInCalls' = TablesInCalls
    BY <1>1, <1>4, <1>9, PagesInCalls
  <1>13. UNCHANGED <<held, spaces, kernel_pml4, cr3, tlb, running>>
    BY <1>1 DEF vars
  <1>14. /\ Tree(tables', S, lev, own) /\ PagesAre(S)' /\ LeavesAre(S, lev, own)' /\ SpacesAre'
         /\ Mappable' = Mappable
         /\ Maps(tables', w) = IF Present(NoEntry) THEN NoEntry.page ELSE Unmapped
         /\ \A v \in Addresses : OutsideBoot(v) /\ v # w => Maps(tables', v) = Maps(tables, v)
    BY <1>1, <1>6, <1>7, <1>8, <1>12, <1>13, LeafIs
  <1>15. \A v \in Virts : v # w => Maps(tables', v) = Maps(tables, v)
    BY <1>14, VirtMaps
  <1>16. CallIs(c, S, lev, own)'
    BY <1>4, <1>6, <1>10 DEF CallIs, Active, Labels
  <1>17. \A d \in Callers \ {c} : Active(d) => call[d].virt # w /\ call[d].virt \in Virts
    BY <1>0, <1>2, <1>5 DEF CallsApart, AddressIs, CallIs
  <1>18. TlbIs'
    <2>1. \A d \in Callers : call[d].pc = "flush" => call'[d] = call[d]
      BY <1>1, <1>10
    <2>2. \A u \in tlb' : u \in tlb
      BY <1>13
    <2>3. \A v \in Virts :
            \/ Maps(tables', v) = Maps(tables, v)
            \/ \E d \in Callers : call'[d].pc = "flush" /\ call'[d].virt = v
      BY <1>4, <1>10, <1>15
    <2> QED BY <1>2, <1>10, <2>1, <2>2, <2>3, TlbKept
  <1>19. \A d \in Callers \ {c} :
           Active(d) => Maps(tables', call[d].virt) = Maps(tables, call[d].virt)
    BY <1>15, <1>17
  <1>20. Mappable \subseteq Mappable' /\ spaces \subseteq spaces'
    BY <1>13, <1>14
  <1>21. \A p, v, l : On(S, lev, own, p, v, l) => On(S, lev, own, p, v, l)
    OBVIOUS
  <1>22. kernel_pml4' = kernel_pml4 /\ cr3' = cr3
    BY <1>13
  <1>23. k.pc # "idle" /\ k.op # "create" =>
           \A d \in Callers \ {c} : Active(d) => call[d].virt # k.virt
    BY <1>4, <1>17
  <1>24. AddressIs(S, lev, own)'
    BY <1>9, <1>11, <1>14, <1>16, <1>18, <1>19, <1>20, <1>21, <1>22, <1>23, CallStep
  <1> QED BY <1>0, <1>6, <1>8, <1>14, <1>15, <1>24

(* invlpg: the TLB holds nothing stale for the address.                    *)
LEMMA Flushes ==
  ASSUME Orderly, UsesPmm, NEW S, NEW lev, NEW own, AddressIs(S, lev, own),
         NEW c \in Callers, Invlpg(c)
  PROVE  AddressIs(S, lev, own)'
  <1>1. /\ MayRun(c) /\ call[c].pc = "flush" /\ Return(c)
        /\ tlb' = {t \in tlb : t[1] # call[c].virt} \union Translations(cr3)
        /\ UNCHANGED <<vars, kernel_pml4, cr3, tables, spaces, running>>
    BY DEF Invlpg
  <1>2. Moves(c, NoCall)
    BY <1>1 DEF Moves, Return, UsesPmm
  <1>3. running /\ \A d \in Callers \ {c} : call'[d] = call[d]
    BY <1>2, OthersWait
  <1>4. cr3 = BootRoot
    BY <1>1, <1>3, RootHere
  <1>5. UNCHANGED <<tables, spaces, held, kernel_pml4, cr3>>
    BY <1>1 DEF vars
  <1>6. TlbIs'
    <2>1. ASSUME NEW t \in tlb'
          PROVE  /\ t[1] \in Virts /\ t[2] # Unmapped
                 /\ \/ Maps(tables', t[1]) = t[2]
                    \/ \E d \in Callers : call'[d].pc = "flush" /\ call'[d].virt = t[1]
      <3>1. CASE t \in Translations(cr3)
        BY <1>4, <1>5, <3>1, TranslationsAre
      <3>2. CASE t \in tlb /\ t[1] # call[c].virt
        <4>1. /\ t[1] \in Virts /\ t[2] # Unmapped
              /\ \/ Maps(tables, t[1]) = t[2]
                 \/ \E d \in Callers : call[d].pc = "flush" /\ call[d].virt = t[1]
          BY <1>3, <3>2 DEF AddressIs, TlbIs
        <4> QED BY <1>3, <1>5, <3>2, <4>1
      <3> QED BY <1>1, <3>1, <3>2
    <2> QED BY <2>1 DEF TlbIs
  <1> QED BY <1>1, <1>5, <1>6, CallReturns

(* A new PML4 gets the kernel half and is handed out. *)
LEMMA Copies ==
  ASSUME Orderly, UsesPmm, NEW S, NEW lev, NEW own, AddressIs(S, lev, own),
         NEW c \in Callers, CopyKernelHalf(c)
  PROVE  AddressIs(S, lev, own)' /\ SpaceKept
  <1>0. PICK q : q = call[c].page
    OBVIOUS
  <1>1. /\ MayRun(c) /\ call[c].pc = "copy" /\ Return(c)
        /\ tables' = [tables EXCEPT ![q] = Copied(c)]
        /\ spaces' = spaces \union {q}
        /\ UNCHANGED <<vars, kernel_pml4, cr3, tlb, running>>
    BY <1>0 DEF CopyKernelHalf
  <1>2. /\ CallIs(c, S, lev, own) /\ Tree(tables, S, lev, own) /\ TlbIs
        /\ PagesAre(S) /\ LeavesAre(S, lev, own) /\ SpacesAre
    BY DEF AddressIs
  <1>3. Moves(c, NoCall)
    BY <1>1 DEF Moves, Return, UsesPmm
  <1>4. running /\ call'[c] = NoCall /\ \A d \in Callers \ {c} : call'[d] = call[d]
    BY <1>3, OthersWait
  <1>5. kernel_pml4 # 0 /\ kernel_pml4 = BootRoot
    BY <1>1, <1>4, RootHere
  <1>6. NoCall.pc = "idle" /\ NoCall.op = "map"
    BY DEF NoCall
  <1>7. TablesInCalls = {q} /\ TablesInCalls' = {}
    BY <1>0, <1>1, <1>3, <1>6, PagesInCalls
  <1>8. q \notin S /\ q \notin spaces /\ q \in TablePages /\ S \subseteq TablePages
        /\ spaces \subseteq TablePages /\ S \intersect spaces = {}
    BY <1>2, <1>7 DEF PagesAre
  <1>9. tables[q] = EmptyTable
    BY <1>0, <1>1, <1>2 DEF CallIs
  <1>10. /\ TablePages' = TablePages /\ tables'[q] = Copied(c)
         /\ \A p \in TablePages : p # q => tables'[p] = tables[p]
    BY <1>1, <1>8 DEF TablePages
  <1>11. UNCHANGED <<held, kernel_pml4, cr3, tlb, running>>
    BY <1>1 DEF vars
  <1>12. \A p \in S : tables'[p] = tables[p]
    BY <1>8, <1>10
  <1>13. /\ Tree(tables', S, lev, own)
         /\ \A v \in Addresses : OutsideBoot(v) => Maps(tables', v) = Maps(tables, v)
    BY <1>2, <1>12, OtherPages
  <1>14. \A v \in Virts : Maps(tables', v) = Maps(tables, v)
    BY <1>13, VirtMaps
  <1>15. Mappable' = Mappable
    BY <1>10, <1>11 DEF Mappable
  <1>16. PagesAre(S)'
    <2>1. TablePages' = S \union spaces' \union TablesInCalls'
      BY <1>1, <1>2, <1>7, <1>10 DEF PagesAre
    <2>2. S \intersect spaces' = {} /\ (S \union spaces') \intersect TablesInCalls' = {}
      BY <1>1, <1>7, <1>8
    <2>3. TablePages' \subseteq {BootTables[i] : i \in 1 .. 3} \union held'
      BY <1>2, <1>10, <1>11 DEF PagesAre
    <2>4. \A p \in TablePages' : DOMAIN tables'[p] = Indices
      BY <1>2, <1>10 DEF PagesAre, Copied
    <2> QED BY <2>1, <2>2, <2>3, <2>4 DEF PagesAre
  <1>17. LeavesAre(S, lev, own)'
    BY <1>2, <1>12, <1>15 DEF LeavesAre
  <1>18. SpacesAre'
    <2>1. tables'[BootRoot] = tables[BootRoot]
      BY <1>2, <1>12 DEF Tree
    <2>2. ASSUME NEW i \in Indices, Present(tables'[q][i])
          PROVE  i \in KernelHalf /\ tables'[q][i] = tables'[BootRoot][i]
      <3>1. tables'[q][i] = IF i \in KernelHalf THEN tables[BootRoot][i] ELSE NoEntry
        <4>1. tables[call[c].page][i] = NoEntry
          BY <1>0, <1>9 DEF EmptyTable
        <4> QED BY <1>5, <1>10, <4>1 DEF Copied
      <3>2. ~Present(NoEntry)
        BY DEF Present, NoEntry
      <3> QED BY <2>1, <2>2, <3>1, <3>2
    <2>3. \A s \in spaces : tables'[s] = tables[s]
      BY <1>8, <1>10
    <2> QED BY <1>1, <1>2, <2>1, <2>2, <2>3 DEF SpacesAre
  <1>19. CallIs(c, S, lev, own)'
    BY <1>4, <1>6 DEF CallIs, Active, Labels
  <1>20. TlbIs'
    <2>1. \A d \in Callers : call[d].pc = "flush" => call'[d] = call[d]
      BY <1>1, <1>4
    <2>2. \A t \in tlb' : t \in tlb
      BY <1>11
    <2> QED BY <1>2, <1>4, <1>14, <2>1, <2>2, TlbKept
  <1>21. \A d \in Callers \ {c} :
           Active(d) => Maps(tables', call[d].virt) = Maps(tables, call[d].virt)
    BY <1>14 DEF AddressIs, CallIs
  <1>22. Mappable \subseteq Mappable' /\ spaces \subseteq spaces'
    BY <1>1, <1>15
  <1>23. \A p, v, l : On(S, lev, own, p, v, l) => On(S, lev, own, p, v, l)
    OBVIOUS
  <1>24. kernel_pml4' = kernel_pml4 /\ cr3' = cr3
    BY <1>11
  <1>25. AddressIs(S, lev, own)'
    BY <1>3, <1>5, <1>6, <1>13, <1>16, <1>17, <1>18, <1>19, <1>20, <1>21, <1>22, <1>23, <1>24,
       CallStep
  <1> QED BY <1>14, <1>25 DEF SpaceKept

(* No call takes part: the tables and the TLB as they were, and pages that *)
(* are not in use taken or given back.                                     *)
LEMMA CallsWait ==
  ASSUME Orderly, UsesPmm, NEW S, NEW lev, NEW own, AddressIs(S, lev, own),
         UNCHANGED <<tables, spaces, call>>,
         \A p \in TablePages : p \in held => p \in held',
         \A v \in Virts : Maps(tables, v) \in Mappable => Maps(tables, v) \in Mappable',
         \A c \in Callers : call[c].frame \in Mappable => call[c].frame \in Mappable',
         RootIs', TlbIs'
  PROVE  AddressIs(S, lev, own)'
  <1>1. /\ \A c \in Callers : CallIs(c, S, lev, own)
        /\ CallsApart /\ Tree(tables, S, lev, own) /\ PagesAre(S) /\ LeavesAre(S, lev, own)
        /\ SpacesAre
    BY DEF AddressIs
  <1>2. Tree(tables', S, lev, own)
    BY <1>1
  <1>3. TablePages' = TablePages /\ TablesInCalls' = TablesInCalls
    BY DEF TablePages, TablesInCalls
  <1>4. PagesAre(S)'
    BY <1>1, <1>3 DEF PagesAre
  <1>5. LeavesAre(S, lev, own)'
    <2>1. ASSUME NEW p \in S, NEW i \in Indices, lev[p] = 4, Present(tables[p][i])
          PROVE  /\ \E v \in Virts : On(S, lev, own, p, v, 4) /\ v[4] = i
                 /\ tables[p][i].page \in Mappable'
      <3>1. PICK v \in Virts : On(S, lev, own, p, v, 4) /\ v[4] = i
        BY <1>1, <2>1 DEF LeavesAre
      <3>2. v \in Addresses /\ OutsideBoot(v)
        BY VirtMaps
      <3>3. Maps(tables, v) = tables[p][i].page
        BY <1>1, <2>1, <3>1, <3>2, MapsLeaf
      <3>4. tables[p][i].page \in Mappable
        BY <1>1, <2>1 DEF LeavesAre
      <3> QED BY <3>1, <3>3, <3>4
    <2> QED BY <2>1 DEF LeavesAre
  <1>6. SpacesAre'
    BY <1>1 DEF SpacesAre
  <1>7. ASSUME NEW c \in Callers
        PROVE  CallIs(c, S, lev, own)'
    <2>1. CallIs(c, S, lev, own)
      BY <1>1
    <2>2. EntryOf(c)' = EntryOf(c)
      BY DEF EntryOf
    <2> QED BY <2>1, <2>2 DEF CallIs, Active
  <1>8. CallsApart'
    BY <1>1 DEF CallsApart, Active
  <1> QED BY <1>2, <1>4, <1>5, <1>6, <1>7, <1>8, Zenon DEF AddressIs

(* The TLB stays right while nothing it depends on changes.                *)
LEMMA TlbWaits ==
  ASSUME TlbIs, running' => running, UNCHANGED <<tables, tlb, call>>
  PROVE  TlbIs'
  BY DEF TlbIs

(* More pages are held than before, and none of the new ones is a table.   *)
LEMMA MoreHeld ==
  ASSUME Orderly, UsesPmm, NEW S, NEW lev, NEW own, AddressIs(S, lev, own),
         UNCHANGED <<tables, spaces, call>>, held \subseteq held', RootIs', TlbIs'
  PROVE  AddressIs(S, lev, own)'
  <1>1. Mappable \subseteq Mappable'
    BY DEF Mappable, TablePages
  <1>2. \A v \in Virts : Maps(tables, v) \in Mappable => Maps(tables, v) \in Mappable'
    BY <1>1
  <1>3. \A c \in Callers : call[c].frame \in Mappable => call[c].frame \in Mappable'
    BY <1>1
  <1> QED BY <1>2, <1>3, CallsWait

(* paging_init records the boot PML4.                                      *)
LEMMA Initialises ==
  ASSUME Orderly, UsesPmm, NEW S, NEW lev, NEW own, AddressIs(S, lev, own), paging_init
  PROVE  AddressIs(S, lev, own)'
  <1>1. /\ running /\ kernel_pml4 = 0 /\ kernel_pml4' = cr3
        /\ UNCHANGED <<cr3, tables, spaces, tlb, running, call, held>>
    BY DEF paging_init, vars
  <1>2. RootIs'
    <2>1. cr3 = BootRoot /\ BootRoot # 0
      <3>1. \A i \in 1 .. 3 : BootTables[i] # 0
        BY PagingAssumption
      <3> QED BY <1>1, <3>1 DEF AddressIs, RootIs, BootRoot
    <2> QED BY <1>1, <2>1 DEF RootIs
  <1>3. TlbIs'
    BY <1>1, TlbWaits DEF AddressIs
  <1> QED BY <1>1, <1>2, <1>3, MoreHeld

(* paging_switch_directory: back to the boot PML4, or to one in which the  *)
(* kernel is not mapped, and the CPU stops.                                *)
LEMMA Switches ==
  ASSUME Orderly, UsesPmm, NEW S, NEW lev, NEW own, AddressIs(S, lev, own),
         NEW pml4, paging_switch_directory(pml4)
  PROVE  AddressIs(S, lev, own)'
  <1>1. /\ running /\ kernel_pml4 # 0 /\ pml4 \in spaces \union {kernel_pml4}
        /\ kernel_pml4' = pml4 /\ cr3' = pml4 /\ tlb' = Translations(pml4)
        /\ running' = (Translate(pml4, KernelPage) # Unmapped)
        /\ UNCHANGED <<tables, spaces, call, held>>
    BY DEF paging_switch_directory, OthersMayRun, vars
  <1>2. kernel_pml4 = BootRoot
    BY <1>1, RootHere
  <1>3. spaces \subseteq TablePages /\ 0 \notin TablePages /\ SpacesAre
    BY DEF AddressIs, PagesAre, TablePages
  <1>4. CASE pml4 = BootRoot
    <2>1. RootIs'
      BY <1>1, <1>2, <1>4 DEF RootIs
    <2>2. TlbIs'
      <3>1. \A t \in tlb' : t[1] \in Virts /\ t[2] # Unmapped /\ Maps(tables', t[1]) = t[2]
        BY <1>1, <1>4, TranslationsAre
      <3> QED BY <3>1 DEF TlbIs
    <2> QED BY <1>1, <2>1, <2>2, MoreHeld
  <1>5. CASE pml4 \in spaces
    <2>1. ~running'
      <3>1. 0 \in Indices /\ 0 \notin KernelHalf
        BY PagingAssumption
      <3>2. ~Present(tables[pml4][0])
        BY <1>3, <1>5, <3>1 DEF SpacesAre
      <3>3. KernelPage[1] = 0
        BY DEF KernelPage
      <3>4. MmuEntry(tables, pml4, KernelPage) = tables[pml4][0]
        BY <3>2, <3>3 DEF MmuEntry, MmuNext, Stops
      <3>5. Translate(pml4, KernelPage) = Unmapped
        BY <3>2, <3>4, TranslateIs DEF PageOf
      <3> QED BY <1>1, <3>5
    <2>2. RootIs' /\ TlbIs'
      BY <1>1, <1>3, <1>5, <2>1 DEF RootIs, TlbIs
    <2> QED BY <1>1, <2>2, MoreHeld
  <1> QED BY <1>1, <1>2, <1>4, <1>5

(* The root stays right while nothing it depends on changes.               *)
LEMMA RootWaits ==
  ASSUME RootIs, UNCHANGED <<kernel_pml4, cr3, running, call, spaces>>
  PROVE  RootIs'
  BY DEF RootIs

(* Others take a page ...                                                  *)
LEMMA TakesData ==
  ASSUME Orderly, UsesPmm, NEW S, NEW lev, NEW own, AddressIs(S, lev, own), TakeData
  PROVE  AddressIs(S, lev, own)'
  <1>1. /\ held' = (IF ret' = 0 THEN held ELSE held \union {ret' \div PAGE_SIZE})
        /\ UNCHANGED <<kernel_pml4, cr3, tables, spaces, tlb, running, call>>
    BY DEF TakeData, pmm_alloc_page
  <1>2. RootIs' /\ TlbIs'
    BY <1>1, RootWaits, TlbWaits DEF AddressIs
  <1>3. held \subseteq held'
    BY <1>1
  <1> QED BY <1>1, <1>2, <1>3, MoreHeld

(* ... or free one that is no table and is not mapped.                     *)
LEMMA FreesData ==
  ASSUME Orderly, UsesPmm, NEW S, NEW lev, NEW own, AddressIs(S, lev, own),
         NEW pfn, pfn \notin InUse, FreeData(pfn)
  PROVE  AddressIs(S, lev, own)'
  <1>1. /\ held' = held \ {pfn}
        /\ UNCHANGED <<kernel_pml4, cr3, tables, spaces, tlb, running, call>>
    BY DEF FreeData, pmm_free_page
  <1>2. RootIs' /\ TlbIs'
    BY <1>1, RootWaits, TlbWaits DEF AddressIs
  <1>3. pfn \notin TablePages /\ \A v \in Virts : Translate(BootRoot, v) # pfn
    BY DEF InUse
  <1>4. \A c \in Callers : call[c].frame # pfn
    BY DEF InUse
  <1>5. \A f \in Mappable : f # pfn => f \in Mappable'
    BY <1>1 DEF Mappable, TablePages
  <1>6. \A v \in Virts : Maps(tables, v) \in Mappable => Maps(tables, v) \in Mappable'
    BY <1>3, <1>5, RootMaps
  <1>7. \A c \in Callers : call[c].frame \in Mappable => call[c].frame \in Mappable'
    BY <1>4, <1>5
  <1>8. \A p \in TablePages : p \in held => p \in held'
    BY <1>1, <1>3
  <1> QED BY <1>1, <1>2, <1>6, <1>7, <1>8, CallsWait

(* pmm_init: no call is active yet.                                        *)
LEMMA InitialisesPmm ==
  ASSUME Orderly, UsesPmm, NEW S, NEW lev, NEW own, AddressIs(S, lev, own), InitPmm
  PROVE  AddressIs(S, lev, own)'
  <1>1. /\ placement = "clear" /\ kernel_pml4 = 0 /\ running'
        /\ UNCHANGED <<held, kernel_pml4, cr3, tables, spaces, tlb, call>>
    BY DEF InitPmm, UsesPmm, Orderly
  <1>2. RootIs /\ TlbIs
    BY DEF AddressIs
  <1>3. running
    BY <1>1, <1>2 DEF RootIs
  <1>4. RootIs' /\ TlbIs'
    BY <1>1, <1>2, <1>3 DEF RootIs, TlbIs
  <1> QED BY <1>1, <1>4, MoreHeld

-------------------------------------------------------------------------------

(* All steps together, and what each makes of the address space.           *)

(* One page is mapped, or is not any longer; or nothing changes.           *)
SpaceChanged(w) ==
  /\ w \in Virts
  /\ \A v \in Virts : v # w => Maps(tables', v) = Maps(tables, v)
  /\ \/ Maps(tables, w) = Unmapped /\ Maps(tables', w) \in Mappable
     \/ Maps(tables', w) = Unmapped

SpaceMoves == SpaceKept \/ \E w : SpaceChanged(w)

(* Where the tables stay, all addresses stay mapped.                       *)
LEMMA TablesUntouched ==
  ASSUME tables' = tables
  PROVE  SpaceMoves
  BY DEF SpaceMoves, SpaceKept

(* Every step of a call keeps the invariant, and changes at most the       *)
(* address that the call is about.                                         *)
LEMMA CallKeepsTree ==
  ASSUME Orderly, UsesPmm, AddressInv, NEW c \in Callers, PagingStep(c)
  PROVE  AddressInv' /\ SpaceMoves
  <1>0. PICK S, lev, own : AddressIs(S, lev, own)
    BY DEF AddressInv
  <1>1. ASSUME AddressIs(S, lev, own)'
        PROVE  AddressInv'
    BY <1>1 DEF AddressInv
  <1>2. ASSUME NEW v \in Virts, NEW f \in Devices \union held, NEW flags \in Flags,
               paging_map_page(c, v, f, flags)
        PROVE  AddressInv' /\ SpaceMoves
    <2>1. tables' = tables
      BY <1>2 DEF paging_map_page, Begin
    <2>2. AddressIs(S, lev, own)'
      BY <1>0, <1>2, BeginsMap
    <2> QED BY <1>1, <2>1, <2>2, TablesUntouched
  <1>3. ASSUME NEW v \in Virts, paging_unmap_page(c, v)
        PROVE  AddressInv' /\ SpaceMoves
    <2>1. tables' = tables
      BY <1>3 DEF paging_unmap_page, Begin
    <2>2. AddressIs(S, lev, own)'
      BY <1>0, <1>3, BeginsUnmap
    <2> QED BY <1>1, <2>1, <2>2, TablesUntouched
  <1>4. CASE paging_create_address_space(c)
    <2>1. tables' = tables
      BY <1>4 DEF paging_create_address_space, Begin
    <2>2. AddressIs(S, lev, own)'
      BY <1>0, <1>4, BeginsCreate
    <2> QED BY <1>1, <2>1, <2>2, TablesUntouched
  <1>5. CASE Descend(c)
    <2>1. tables' = tables
      BY <1>5 DEF Descend
    <2>2. AddressIs(S, lev, own)'
      BY <1>0, <1>5, Descends
    <2> QED BY <1>1, <2>1, <2>2, TablesUntouched
  <1>6. CASE NothingToUnmap(c)
    <2>1. tables' = tables
      BY <1>6 DEF NothingToUnmap
    <2>2. AddressIs(S, lev, own)'
      BY <1>0, <1>6, UnmapsNothing
    <2> QED BY <1>1, <2>1, <2>2, TablesUntouched
  <1>7. CASE Find(c)
    <2>1. tables' = tables
      BY <1>7 DEF Find
    <2>2. AddressIs(S, lev, own)'
      BY <1>0, <1>7, FindsPage
    <2> QED BY <1>1, <2>1, <2>2, TablesUntouched
  <1>8. CASE Take(c)
    <2>1. AddressIs(S, lev, own)' /\ SpaceKept
      BY <1>0, <1>8, Takes
    <2> QED BY <1>1, <2>1 DEF SpaceMoves
  <1>9. CASE Fill(c)
    <2>1. SpaceKept /\ \E S1, lev1, own1 : AddressIs(S1, lev1, own1)'
      BY <1>0, <1>9, Fills
    <2> QED BY <2>1 DEF SpaceMoves, AddressInv
  <1>10. CASE StoreMap(c)
    <2> DEFINE w == call[c].virt
    <2>1. /\ AddressIs(S, lev, own)'
          /\ w \in Virts /\ call[c].frame \in Mappable /\ Maps(tables, w) = Unmapped
          /\ \A v \in Virts : v # w => Maps(tables', v) = Maps(tables, v)
          /\ Maps(tables', w) = IF "present" \in call[c].flags THEN call[c].frame ELSE Unmapped
      BY <1>0, <1>10, StoresMap
    <2> HIDE DEF w
    <2>2. SpaceChanged(w)
      BY <2>1 DEF SpaceChanged
    <2> QED BY <1>1, <2>1, <2>2 DEF SpaceMoves
  <1>11. CASE StoreUnmap(c)
    <2> DEFINE w == call[c].virt
    <2>1. /\ AddressIs(S, lev, own)'
          /\ w \in Virts /\ Maps(tables', w) = Unmapped
          /\ \A v \in Virts : v # w => Maps(tables', v) = Maps(tables, v)
      BY <1>0, <1>11, StoresUnmap
    <2> HIDE DEF w
    <2>2. SpaceChanged(w)
      BY <2>1 DEF SpaceChanged
    <2> QED BY <1>1, <2>1, <2>2 DEF SpaceMoves
  <1>12. CASE Invlpg(c)
    <2>1. tables' = tables
      BY <1>12 DEF Invlpg
    <2>2. AddressIs(S, lev, own)'
      BY <1>0, <1>12, Flushes
    <2> QED BY <1>1, <2>1, <2>2, TablesUntouched
  <1>13. CASE CopyKernelHalf(c)
    <2>1. AddressIs(S, lev, own)' /\ SpaceKept
      BY <1>0, <1>13, Copies
    <2> QED BY <1>1, <2>1 DEF SpaceMoves
  <1> QED BY <1>2, <1>3, <1>4, <1>5, <1>6, <1>7, <1>8, <1>9, <1>10, <1>11, <1>12, <1>13
          DEF PagingStep

(* Every step of the memory side does.                                     *)
LEMMA AddressInvStep ==
  ASSUME Orderly, UsesPmm, AddressInv, [MemoryNext]_memoryVars
  PROVE  AddressInv' /\ SpaceMoves
  <1>0. PICK S, lev, own : AddressIs(S, lev, own)
    BY DEF AddressInv
  <1>1. ASSUME AddressIs(S, lev, own)', tables' = tables
        PROVE  AddressInv' /\ SpaceMoves
    BY <1>1, TablesUntouched DEF AddressInv
  <1>2. ASSUME UNCHANGED <<held, kernel_pml4, cr3, tables, spaces, tlb, running, call>>
        PROVE  AddressInv' /\ SpaceMoves
    <2>1. RootIs' /\ TlbIs'
      BY <1>0, <1>2, RootWaits, TlbWaits DEF AddressIs
    <2>2. AddressIs(S, lev, own)'
      BY <1>0, <1>2, <2>1, MoreHeld
    <2> QED BY <1>1, <1>2, <2>2
  <1>3. CASE Parse
    BY <1>2, <1>3 DEF Parse, pagingVars, vars
  <1>4. CASE InitPmm
    BY <1>0, <1>1, <1>4, InitialisesPmm DEF InitPmm
  <1>5. CASE Use
    <2>1. PagingNext
      BY <1>5 DEF Use
    <2>2. CASE paging_init
      BY <1>0, <1>1, <2>2, Initialises DEF paging_init
    <2>3. ASSUME NEW c \in Callers, PagingStep(c)
          PROVE  AddressInv' /\ SpaceMoves
      BY <2>3, CallKeepsTree
    <2>4. ASSUME NEW pml4 \in TablePages, paging_switch_directory(pml4)
          PROVE  AddressInv' /\ SpaceMoves
      BY <1>0, <1>1, <2>4, Switches DEF paging_switch_directory
    <2>5. CASE TakeData
      BY <1>0, <1>1, <2>5, TakesData DEF TakeData
    <2>6. ASSUME NEW pfn \in (0 .. pmm.total_pages) \ InUse, FreeData(pfn)
          PROVE  AddressInv' /\ SpaceMoves
      BY <1>0, <1>1, <2>6, FreesData DEF FreeData
    <2> QED BY <2>1, <2>2, <2>3, <2>4, <2>5, <2>6 DEF PagingNext
  <1>6. CASE UNCHANGED memoryVars
    BY <1>2, <1>6 DEF memoryVars, pagingVars, vars
  <1> QED BY <1>3, <1>4, <1>5, <1>6 DEF MemoryNext

(* Orderly callers are such as MemoryImplementsPmm speaks of.              *)
LEMMA OrderlyAllocates == ASSUME Orderly PROVE AllocatesWhole
  BY DEF Orderly, AllocatesWhole

(* The invariant holds throughout.                                         *)
LEMMA AddressSpaceIsSound ==
  ASSUME Orderly
  PROVE  MemorySpec => [](UsesPmm /\ AddressInv)
  <1>1. MemoryInit => UsesPmm /\ AddressInv
    BY UsesPmmInit, AddressInvInit
  <1>2. UsesPmm /\ AddressInv /\ [MemoryNext]_memoryVars => (UsesPmm /\ AddressInv)'
    BY UsesPmmStep, AddressInvStep, OrderlyAllocates
  <1> QED BY <1>1, <1>2, PTL DEF MemorySpec

(* get_or_create_table builds a tree, and loses no table: among orderly    *)
(* callers, for any number of them, any addresses, memory maps and tables. *)
THEOREM TablesAlwaysATree ==
  ASSUME Orderly
  PROVE  MemorySpec => []TablesAreATree
  <1>1. MemorySpec => [](UsesPmm /\ AddressInv)
    BY AddressSpaceIsSound
  <1>2. UsesPmm /\ AddressInv => TablesAreATree
    BY ThereIsATree
  <1> QED BY <1>1, <1>2, PTL

(* Among orderly callers the CPU uses no translation that the tables do    *)
(* not hold, but between paging_unmap_page's store and its invlpg.         *)
THEOREM TlbAlwaysCoherent ==
  ASSUME Orderly
  PROVE  MemorySpec => []TlbCoherent
  <1>1. MemorySpec => [](UsesPmm /\ AddressInv)
    BY AddressSpaceIsSound
  <1>2. UsesPmm /\ AddressInv => TlbCoherent
    BY TranslationsHold
  <1> QED BY <1>1, <1>2, PTL

(* Among orderly callers paging_get_physical's walk returns what the MMU   *)
(* uses, though it looks at neither PAGE_HUGE nor PAGE_NX.                 *)
THEOREM GetPhysicalAlwaysAgrees ==
  ASSUME Orderly
  PROVE  MemorySpec => []GetPhysicalAgrees
  <1>1. MemorySpec => [](UsesPmm /\ AddressInv)
    BY AddressSpaceIsSound
  <1>2. UsesPmm /\ AddressInv => GetPhysicalAgrees
    BY GetPhysicalIsRight
  <1> QED BY <1>1, <1>2, PTL

-------------------------------------------------------------------------------

(* What the invariant and these steps mean to callers.                     *)

TranslatesHere == cr3 = BootRoot => \A v : Translate(cr3, v) = Maps(tables, v)

(* The MMU's answer in a form that a later state can be put in.            *)
LEMMA TranslatesNow == TranslatesHere
  BY TranslateIs DEF TranslatesHere, Maps

(* What MapTakesEffect says of one caller. *)
CallReturned(c) == call[c].op = "map" /\ call[c].pc # "idle" /\ call'[c].pc = "idle"

TookEffect(c) ==
  IF call[c].level = 4
  THEN \E v \in Virts :
         /\ v = call[c].virt
         /\ Translate(cr3, v)' = IF "present" \in call[c].flags THEN call[c].frame
                                 ELSE Unmapped
  ELSE ret' = 0

(* paging_map_page returns with the page mapped, or pmm_alloc_page         *)
(* returned 0.                                                             *)
LEMMA StepTakesEffect ==
  ASSUME Orderly, UsesPmm, AddressInv, NEW c \in Callers, PagingStep(c), CallReturned(c)
  PROVE  TookEffect(c)
  <1>0. PICK S, lev, own : AddressIs(S, lev, own)
    BY DEF AddressInv
  <1>1. CallIs(c, S, lev, own)
    BY <1>0 DEF AddressIs
  <1>2. DOMAIN call = Callers
    BY DEF UsesPmm
  <1>3. \A k : Continue(c, k) => call'[c] = k
    BY <1>2 DEF Continue
  <1>4. call[c].op = "map" /\ call[c].pc # "idle" /\ call'[c].pc = "idle"
    BY DEF CallReturned
  <1>5. ~\E k : Begin(c, k)
    BY <1>4 DEF Begin
  <1>6. \A k : Continue(c, k) => k.pc = "idle"
    BY <1>3, <1>4
  <1>7. \A page : ~Down(c, page)
    <2> SUFFICES ASSUME NEW page, Down(c, page) PROVE FALSE
      OBVIOUS
    <2> DEFINE k == [call[c] EXCEPT !.pc = "walk", !.table = page, !.page = 0, !.level = @ + 1]
    <2>1. k.pc = "idle"
      BY <1>6 DEF Down
    <2>2. DOMAIN k = DOMAIN call[c]
      OBVIOUS
    <2>3. "pc" \in DOMAIN call[c]
      BY DEF UsesPmm, FoundPage, NoCall
    <2> QED BY <2>1, <2>3
  <1>8. CASE Descend(c) \/ Fill(c)
    BY <1>7, <1>8 DEF Descend, Fill
  <1>9. CASE Find(c)
    <2>1. CASE PageFound = NoPage
      <3>1. ret' = 0
        BY <1>9, <2>1 DEF Find
      <3>2. call[c].level < 4
        BY <1>4, <1>9 DEF Find, NeedsPage
      <3>3. call[c].level # 4
        BY <3>2
      <3> QED BY <3>1, <3>3 DEF TookEffect
    <2>2. CASE PageFound # NoPage
      <3> DEFINE k == [call[c] EXCEPT !.pc = "take", !.page = PageFound]
      <3>1. k.pc = "idle"
        BY <1>6, <1>9, <2>2 DEF Find
      <3>2. "pc" \in DOMAIN call[c]
        BY DEF UsesPmm, FoundPage, NoCall
      <3> QED BY <3>1, <3>2
    <2> QED BY <2>1, <2>2
  <1>10. CASE Take(c)
    <2>1. CASE call[c].page = 0
      <3>1. ret' = 0
        <4>1. ret' = call[c].page * PAGE_SIZE
          BY <1>10 DEF Take
        <4> QED BY <2>1, <4>1 DEF PAGE_SIZE
      <3>2. call[c].level < 4
        BY <1>1, <1>4, <1>10 DEF Take, CallIs
      <3>3. call[c].level # 4
        BY <3>2
      <3> QED BY <3>1, <3>3 DEF TookEffect
    <2>2. CASE call[c].page # 0
      <3> DEFINE k == [call[c] EXCEPT !.pc = IF call[c].op = "create" THEN "copy" ELSE "fill"]
      <3>1. k.pc = "idle"
        BY <1>6, <1>10, <2>2 DEF Take
      <3>2. "pc" \in DOMAIN call[c]
        BY DEF UsesPmm, FoundPage, NoCall
      <3> QED BY <3>1, <3>2
    <2> QED BY <2>1, <2>2
  <1>11. CASE StoreMap(c)
    <2>1. /\ call[c].virt \in Virts /\ cr3' = BootRoot
          /\ Maps(tables', call[c].virt) = IF "present" \in call[c].flags THEN call[c].frame
                                           ELSE Unmapped
      BY <1>0, <1>11, StoresMap
    <2>2. TranslatesHere'
      BY TranslatesNow, PTL
    <2>3. PICK v \in Virts : v = call[c].virt
      BY <2>1
    <2>4. Translate(cr3, v)' = Maps(tables', v)
      BY <2>1, <2>2 DEF TranslatesHere
    <2>5. call[c].level = 4
      BY <1>11 DEF StoreMap
    <2>6. Translate(cr3, v)' = IF "present" \in call[c].flags THEN call[c].frame ELSE Unmapped
      BY <2>1, <2>3, <2>4
    <2> QED BY <2>3, <2>5, <2>6 DEF TookEffect
  <1>12. CASE StoreUnmap(c) \/ NothingToUnmap(c)
    BY <1>4, <1>12 DEF StoreUnmap, NothingToUnmap
  <1>13. CASE Invlpg(c)
    BY <1>1, <1>4, <1>13 DEF Invlpg, CallIs
  <1>14. CASE CopyKernelHalf(c)
    BY <1>1, <1>4, <1>14 DEF CopyKernelHalf, CallIs
  <1> QED BY <1>5, <1>8, <1>9, <1>10, <1>11, <1>12, <1>13, <1>14
          DEF PagingStep, paging_map_page, paging_unmap_page, paging_create_address_space

(* No other step makes a call return.                                      *)
LEMMA CallsTakeEffect ==
  ASSUME Orderly, UsesPmm, AddressInv, MemoryNext, NEW c \in Callers, CallReturned(c)
  PROVE  TookEffect(c)
  <1>1. call'[c] # call[c]
    BY DEF CallReturned
  <1>2. CASE Parse
    BY <1>1, <1>2 DEF Parse, pagingVars
  <1>3. CASE InitPmm
    BY <1>1, <1>3 DEF InitPmm
  <1>4. CASE Use
    <2>1. CASE \E d \in Callers : PagingStep(d)
      <3>1. PICK d \in Callers : PagingStep(d)
        BY <2>1
      <3>2. d = c
        <4> SUFFICES ASSUME d # c PROVE FALSE
          OBVIOUS
        <4>1. \A k : Continue(d, k) => call'[c] = call[c]
          BY DEF Continue
        <4>2. Return(d) => call'[c] = call[c]
          BY DEF Return
        <4> QED BY <1>1, <3>1, <4>1, <4>2
             DEF PagingStep, paging_map_page, paging_unmap_page, paging_create_address_space,
                 Begin, Descend, NothingToUnmap, Find, Take, Fill, StoreMap, StoreUnmap, Invlpg,
                 CopyKernelHalf, Down
      <3> QED BY <3>1, <3>2, StepTakesEffect
    <2>2. CASE ~\E d \in Callers : PagingStep(d)
      BY <1>1, <1>4, <2>2
         DEF Use, PagingNext, paging_init, paging_switch_directory, TakeData, FreeData
    <2> QED BY <2>1, <2>2
  <1> QED BY <1>2, <1>3, <1>4 DEF MemoryNext

(* Among orderly callers paging_map_page, when it returns, has mapped the  *)
(* page as asked, unless there was no memory for a table.                  *)
THEOREM MapAlwaysTakesEffect ==
  ASSUME Orderly
  PROVE  MemorySpec => MapTakesEffect
  <1>1. MemorySpec => [](UsesPmm /\ AddressInv)
    BY AddressSpaceIsSound
  <1>2. ASSUME UsesPmm /\ AddressInv, [MemoryNext]_memoryVars
        PROVE  [\A c \in Callers : CallReturned(c) => TookEffect(c)]_pagingVars
    <2>1. CASE MemoryNext
      BY <1>2, <2>1, CallsTakeEffect
    <2>2. CASE UNCHANGED memoryVars
      BY <2>2 DEF memoryVars
    <2> QED BY <1>2, <2>1, <2>2
  <1> QED BY <1>1, <1>2, PTL DEF MemorySpec, MapTakesEffect, CallReturned, TookEffect

(* boot.asm maps its large page only.                                      *)
LEMMA NothingMapped ==
  ASSUME Orderly, MemoryInit, NEW v \in Virts
  PROVE  Maps(tables, v) = Unmapped
  <1> DEFINE B(i) == BootTables[i]
             E(e) == ~Present(e) /\ PageOf(e, v) = Unmapped
  <1>1. \A i \in 1 .. 3, j \in Indices :
          tables[B(i)][j] = IF j = 0 THEN BootEntry(i) ELSE NoEntry
    BY BootTablesAre DEF MemoryInit
  <1>2. v[1] \in Indices /\ v[2] \in Indices /\ v[3] \in Indices
    BY VirtMaps DEF Addresses
  <1>3. E(NoEntry)
    BY DEF NoEntry, Present, PageOf
  <1>4. /\ ~Stops(BootEntry(1)) /\ BootEntry(1).page = B(2)
        /\ ~Stops(BootEntry(2)) /\ BootEntry(2).page = B(3)
    BY DEF BootEntry, Stops, Present
  <1> DEFINE e1 == tables[BootRoot][v[1]]
             e2 == MmuNext(tables, e1, v[2])
             e3 == MmuNext(tables, e2, v[3])
             e4 == MmuNext(tables, e3, v[4])
  <1>5. e1 = IF v[1] = 0 THEN BootEntry(1) ELSE NoEntry
    BY <1>1, <1>2 DEF BootRoot
  <1>6. \A e, i : E(e) => E(MmuNext(tables, e, i))
    BY DEF MmuNext, Stops
  <1>7. ~(v[1] = 0 /\ v[2] = 0 /\ v[3] = 0)
    BY VirtMaps DEF OutsideBoot
  <1> HIDE DEF E, e1
  <1>8. E(e4)
    <2>1. CASE v[1] # 0
      <3>1. E(e1)
        BY <1>3, <1>5, <2>1
      <3> QED BY <1>6, <3>1
    <2>2. CASE v[1] = 0
      <3>1. e2 = tables[B(2)][v[2]]
        BY <1>4, <1>5, <2>2 DEF MmuNext
      <3>2. e2 = IF v[2] = 0 THEN BootEntry(2) ELSE NoEntry
        BY <1>1, <1>2, <3>1
      <3> HIDE DEF e2
      <3>3. CASE v[2] # 0
        <4>1. E(e2)
          BY <1>3, <3>2, <3>3
        <4> QED BY <1>6, <4>1
      <3>4. CASE v[2] = 0
        <4>1. e3 = tables[B(3)][v[3]]
          BY <1>4, <3>2, <3>4 DEF MmuNext
        <4>2. e3 = NoEntry
          BY <1>1, <1>2, <1>7, <2>2, <3>4, <4>1
        <4> HIDE DEF e3
        <4> QED BY <1>3, <1>6, <4>2
      <3> QED BY <3>3, <3>4
    <2> QED BY <2>1, <2>2
  <1>9. Maps(tables, v) = PageOf(e4, v)
    BY DEF Maps, MmuEntry, e1
  <1> HIDE DEF e4
  <1> QED BY <1>8, <1>9 DEF E

RootMapsHere == \A v : Translate(BootRoot, v) = Maps(tables, v)

(* RootMaps in a form that a later state can be put in.                    *)
LEMMA RootMapsNow == RootMapsHere
  BY RootMaps DEF RootMapsHere

(* A step changes at most one page of the address space, from unmapped to  *)
(* mapped or back.                                                         *)
LEMMA StepOfAddressSpace ==
  ASSUME Orderly, UsesPmm, AddressInv, [MemoryNext]_memoryVars
  PROVE  [Space!Next]_([v \in Virts |-> Translate(BootRoot, v)])
  <1>1. SpaceMoves
    BY AddressInvStep
  <1>2. Mappable \subseteq Devices \union (0 .. (AddressLimit \div PAGE_SIZE))
    BY TablesAreMemory DEF AddressInv, AddressIs
  <1>3. RootMapsHere /\ RootMapsHere'
    BY RootMapsNow, PTL
  <1>4. PICK before, after : /\ before = [v \in Virts |-> Translate(BootRoot, v)]
                            /\ after = [v \in Virts |-> Translate(BootRoot, v)]'
    OBVIOUS
  <1>5. before = [v \in Virts |-> Maps(tables, v)]
    BY <1>3, <1>4 DEF RootMapsHere
  <1>6. after = [v \in Virts |-> Maps(tables', v)]
    BY <1>3, <1>4 DEF RootMapsHere
  <1>7. CASE SpaceKept
    <2>1. before = after
      BY <1>5, <1>6, <1>7 DEF SpaceKept
    <2> QED BY <1>4, <2>1
  <1>8. ASSUME NEW w, SpaceChanged(w)
        PROVE  Space!Next
    <2>1. /\ w \in Virts
          /\ \A v \in Virts : v # w => Maps(tables', v) = Maps(tables, v)
          /\ \/ Maps(tables, w) = Unmapped /\ Maps(tables', w) \in Mappable
             \/ Maps(tables', w) = Unmapped
      BY <1>8 DEF SpaceChanged
    <2>2. after = [before EXCEPT ![w] = after[w]]
      BY <1>5, <1>6, <2>1
    <2>3. \/ before[w] = Unmapped /\ after[w] \in Devices \union (0 .. (AddressLimit \div PAGE_SIZE))
          \/ after[w] = Unmapped
      BY <1>2, <1>5, <1>6, <2>1
    <2> QED BY <1>4, <2>1, <2>2, <2>3 DEF Space!Next
  <1> QED BY <1>1, <1>7, <1>8 DEF SpaceMoves

(* Orderly callers may take the tables for a map from virtual to physical  *)
(* pages: paging.c implements module AddressSpace.                         *)
THEOREM MemoryImplementsAddressSpace ==
  ASSUME Orderly
  PROVE  MemorySpec => ImplementsAddressSpace
  <1>1. MemorySpec => [](UsesPmm /\ AddressInv)
    BY AddressSpaceIsSound
  <1>2. MemoryInit => Space!Init
    BY NothingMapped, RootMaps DEF Space!Init
  <1>3. UsesPmm /\ AddressInv /\ [MemoryNext]_memoryVars =>
          [Space!Next]_([v \in Virts |-> Translate(BootRoot, v)])
    BY StepOfAddressSpace
  <1> QED BY <1>1, <1>2, <1>3, PTL DEF MemorySpec, ImplementsAddressSpace, Space!Spec
================================================================================
