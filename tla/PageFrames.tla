------------------------------ MODULE PageFrames ------------------------------
(***************************************************************************)
(* The bitmap of kernel/mm/pmm.c: pmm_init, pmm_alloc_page and             *)
(* pmm_free_page as functions from one allocator state to the next, so     *)
(* that the heap, which calls the allocator in a loop, can use them too.   *)
(*                                                                         *)
(* A page is named by its number; the address the code returns is that     *)
(* number times PAGE_SIZE, so page 0 is the null pointer.                  *)
(***************************************************************************)
EXTENDS Integers, Sequences, FiniteSets, FiniteSetsExt

CONSTANTS KernelStart,  (* where the kernel is loaded: 1 MB                *)
          KernelEnd     (* &kernel_end, which the linker does not align    *)

(* An operator whose comment begins with Slip is what a plausible mistake  *)
(* in the code would make of the operator after it; nothing uses it.       *)

PAGE_SIZE == 4096

ASSUME KernelAssumption ==
  /\ KernelStart \in Nat /\ KernelEnd \in Nat /\ KernelStart <= KernelEnd
  /\ KernelStart % PAGE_SIZE = 0

(* One entry of the multiboot memory map. *)
Entry == [addr : Nat, len : Nat, available : BOOLEAN]

(* A memory map whose regions end below limit. *)
IsMap(map, limit) ==
  /\ map \in Seq(Entry)
  /\ \A i \in DOMAIN map : map[i].addr + map[i].len <= limit

(* The allocator: the pages whose bit is set, and the two counters. *)
PmmState == [used : SUBSET Nat, total_pages : Nat, used_pages : Nat]

(* The statics of pmm.c before pmm_init, and after it when GRUB passed no  *)
(* memory map.                                                             *)
NoPages == [used |-> {}, total_pages |-> 0, used_pages |-> 0]

AvailableEntries(map) == {map[i] : i \in {i \in DOMAIN map : map[i].available}}

(* total_pages, from the end of the highest available region. *)
TotalPages(map) ==
  Max({0} \union {e.addr + e.len : e \in AvailableEntries(map)}) \div PAGE_SIZE

(* The pages that an available region marks free.  Both divisions round    *)
(* down.                                                                   *)
PagesOf(e) ==
  LET start_page == e.addr \div PAGE_SIZE
  IN  start_page .. (start_page + e.len \div PAGE_SIZE - 1)

(* bitmap_size, in bytes. *)
BitmapSize(total) == (total + 7) \div 8

(* Slip: the bitmap behind the kernel is forgotten. *)
ReserveKernelOnly(total) ==
  LET kernel_page == KernelStart \div PAGE_SIZE
      kernel_pages == (KernelEnd - KernelStart + PAGE_SIZE - 1) \div PAGE_SIZE
  IN  (kernel_page .. (kernel_page + kernel_pages - 1)) \intersect (0 .. (total - 1))

(* The pages of the kernel and of the bitmap placed behind it. *)
Reserved(total) ==
  LET kernel_page == KernelStart \div PAGE_SIZE
      kernel_pages == (KernelEnd - KernelStart + PAGE_SIZE - 1) \div PAGE_SIZE
      bitmap_pages == (BitmapSize(total) + PAGE_SIZE - 1) \div PAGE_SIZE
  IN  (kernel_page .. (kernel_page + kernel_pages + bitmap_pages - 1))
        \intersect (0 .. (total - 1))

(* pmm_init: all bits set, available regions cleared, the kernel set       *)
(* again; used_pages follows bit by bit.                                   *)
pmm_init(map) ==
  LET total == TotalPages(map)
      freed == UNION {PagesOf(e) : e \in AvailableEntries(map)}
      again == Reserved(total) \intersect freed
  IN  [total_pages |-> total,
       used |-> ((0 .. (total - 1)) \ freed) \union again,
       used_pages |-> total - Cardinality(freed) + Cardinality(again)]

FreePages(pm) == (0 .. (pm.total_pages - 1)) \ pm.used

(* The page pmm_alloc_page finds: the lowest free one. *)
FirstFree(pm) == CHOOSE i \in FreePages(pm) : \A j \in FreePages(pm) : i <= j

(* Slip: a full bitmap is searched one page too far. *)
AllocPastEnd(pm) ==
  LET i == IF FreePages(pm) = {} THEN pm.total_pages ELSE FirstFree(pm)
  IN  [pm EXCEPT !.used = @ \union {i}, !.used_pages = @ + 1]

(* What pmm_alloc_page does to the bitmap. *)
Alloc(pm) ==
  IF FreePages(pm) = {} THEN pm
  ELSE [pm EXCEPT !.used = @ \union {FirstFree(pm)}, !.used_pages = @ + 1]

(* What it returns: also 0 when page 0 is the one it found. *)
AllocResult(pm) == IF FreePages(pm) = {} THEN 0 ELSE FirstFree(pm) * PAGE_SIZE

(* Slip: the test for a free page is forgotten. *)
FreeUnchecked(pm, pfn) ==
  IF pfn >= pm.total_pages THEN pm
  ELSE [pm EXCEPT !.used = @ \ {pfn}, !.used_pages = @ - 1]

(* Slip: the last page counts as invalid. *)
FreeNotLast(pm, pfn) ==
  IF pfn >= pm.total_pages - 1 \/ pfn \notin pm.used THEN pm
  ELSE [pm EXCEPT !.used = @ \ {pfn}, !.used_pages = @ - 1]

(* What pmm_free_page does to the bitmap: nothing for a page that does not *)
(* exist or is free already.                                               *)
Free(pm, pfn) ==
  IF pfn >= pm.total_pages \/ pfn \notin pm.used THEN pm
  ELSE [pm EXCEPT !.used = @ \ {pfn}, !.used_pages = @ - 1]
===============================================================================
