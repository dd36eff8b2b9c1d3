--------------------------------- MODULE Memory ---------------------------------
(***************************************************************************)
(* The memory side of the boot: the boot information is parsed, its memory *)
(* map goes to the page allocator, and paging works on the pages of that.  *)
(* The order of the initialisations is kernel_main's (external).           *)
(***************************************************************************)
EXTENDS Paging, Multiboot

CONSTANTS Placements    (* whether pmm_init's bitmap may overwrite the     *)
                        (* boot information: "clear", "overlap"            *)

VARIABLE placement      (* external: where GRUB put it                     *)

memoryVars == <<pagingVars, mbVars, placement>>

MemoryInit ==
  /\ MbInit
  /\ placement \in Placements
  /\ mmap = MapPassed(mbi)
  /\ Init
  /\ PagingInit

Parse ==
  /\ multiboot2_parse
  /\ UNCHANGED <<pagingVars, placement>>

(* The map read again after the bitmap was written over it: no entry is    *)
(* available.                                                              *)
AllUsed(map) ==
  [used |-> 0 .. (TotalPages(map) - 1), total_pages |-> TotalPages(map),
   used_pages |-> TotalPages(map)]

(* pmm_init takes the highest address from the map, fills the bitmap with  *)
(* ones, behind the kernel, and reads the map again for the regions.  If   *)
(* the boot information lies there, and the map's header is overwritten,   *)
(* the second loop ends without having met an available entry; if the      *)
(* header is overwritten in part, it may run into memory that is not       *)
(* mapped.                                                                 *)
InitPmm ==
  /\ tag = Parsed /\ kernel_pml4 = 0 /\ pmm = NoPages
  /\ pmm' = IF placement = "clear" THEN pmm_init(multiboot2_get_mmap)
            ELSE AllUsed(multiboot2_get_mmap)
  /\ running' \in {TRUE, placement = "clear"}
  /\ UNCHANGED <<mmap, held, ret, kernel_pml4, cr3, tables, spaces, tlb, call>>
  /\ UNCHANGED <<mbVars, placement>>

Use ==
  /\ tag = Parsed /\ (pmm # NoPages \/ mmap = <<>>)
  /\ PagingNext
  /\ UNCHANGED <<mbVars, placement>>

MemoryNext == Parse \/ InitPmm \/ Use

MemorySpec == MemoryInit /\ [][MemoryNext]_memoryVars

--------------------------------------------------------------------------------

(* "Mark available regions as free": memory that the map calls available   *)
(* can be allocated, but for the kernel and the bitmap.                    *)
AvailableIsUsable ==
  pmm # NoPages =>
    \A e \in AvailableEntries(mmap) :
      PagesOf(e) \intersect pmm.used \subseteq Reserved(pmm.total_pages) \union held \union {0}
================================================================================
