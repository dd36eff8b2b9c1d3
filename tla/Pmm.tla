---------------------------------- MODULE Pmm ----------------------------------
(***************************************************************************)
(* The physical memory manager as its callers see it: pmm_init once, then  *)
(* pmm_alloc_page and pmm_free_page in any order (kernel/mm/pmm.c).        *)
(* Callers free pages they hold; pmm_free_page also takes a page that is   *)
(* free already or does not exist, and ignores it.                         *)
(***************************************************************************)
EXTENDS PageFrames

CONSTANTS MemoryMaps,    (* the memory maps GRUB may pass                 *)
          AddressLimit   (* physical addresses: addr + len does not wrap  *)

ASSUME MapsAssumption ==
  /\ AddressLimit \in Nat
  /\ \A map \in MemoryMaps : IsMap(map, AddressLimit)

VARIABLES
  pmm,   (* bitmap, total_pages, used_pages                                *)
  mmap,  (* multiboot2_get_mmap()                                          *)
  held,  (* history: the pages callers were given and have not freed       *)
  ret    (* what the last pmm_alloc_page returned                          *)

vars == <<pmm, mmap, held, ret>>

Init ==
  /\ pmm = NoPages
  /\ mmap \in MemoryMaps
  /\ held = {}
  /\ ret = 0

(* kernel_main initialises the memory manager once. *)
Boot ==
  /\ pmm = NoPages
  /\ pmm' = pmm_init(mmap)
  /\ UNCHANGED <<mmap, held, ret>>

(* The caller takes what it is given unless that is the null pointer. *)
pmm_alloc_page ==
  /\ pmm' = Alloc(pmm)
  /\ ret' = AllocResult(pmm)
  /\ held' = IF ret' = 0 THEN held ELSE held \union {ret' \div PAGE_SIZE}
  /\ UNCHANGED mmap

(* The caller gives the page up. *)
pmm_free_page(pfn) ==
  /\ pfn \in held \union FreePages(pmm) \union {pmm.total_pages}
  /\ pmm' = Free(pmm, pfn)
  /\ held' = held \ {pfn}
  /\ UNCHANGED <<mmap, ret>>

Next ==
  \/ Boot
  \/ pmm_alloc_page
  \/ \E pfn \in 0 .. pmm.total_pages : pmm_free_page(pfn)

Spec == Init /\ [][Next]_vars

--------------------------------------------------------------------------------

TypeOK ==
  /\ pmm \in PmmState
  /\ mmap \in MemoryMaps
  /\ held \subseteq 0 .. (pmm.total_pages - 1)
  /\ ret \in Nat

(* used_pages, which pmm_get_free_memory and pmm_get_used_memory report,   *)
(* stays the number of set bits through overlapping regions, the second    *)
(* marking of the kernel, failed allocations and pointless frees.          *)
CountersAgree == pmm.used_pages = Cardinality(pmm.used)

(* A page is never given to two callers: as long as one holds it, its bit  *)
(* is set; and the kernel's image and the bitmap behind it (byte ranges,   *)
(* the end rounded by nobody) are never given away.                        *)
Touches(pfn, first, last) ==
  pfn * PAGE_SIZE <= last /\ (pfn + 1) * PAGE_SIZE > first

ExclusiveUse ==
  /\ held \subseteq pmm.used
  /\ \A pfn \in held :
       ~Touches(pfn, KernelStart, KernelEnd + BitmapSize(pmm.total_pages) - 1)

(* No page is lost: a set bit is explained by the memory map, by the       *)
(* kernel, by a caller who holds the page - or it is page 0.               *)
NoPageLeaked ==
  pmm.used \subseteq pmm_init(mmap).used \union held \union {0}

(* A null pointer means that there is no free page.                        *)
NullMeansFull ==
  [][(pmm # NoPages /\ pmm_alloc_page /\ ret' = 0) => FreePages(pmm) = {}]_vars

(* Only memory that the map calls available is given to a caller: every    *)
(* byte of a held page.  (First and last byte; regions do not overlap.)    *)
InEntry(a, e) == e.addr <= a /\ a < e.addr + e.len

OnlyAvailable ==
  \A pfn \in held : \A a \in {pfn * PAGE_SIZE, (pfn + 1) * PAGE_SIZE - 1} :
    \E e \in AvailableEntries(mmap) : InEntry(a, e)
================================================================================
