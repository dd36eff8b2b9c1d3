--------------------------------- MODULE Paging ---------------------------------
(***************************************************************************)
(* kernel/mm/paging.c over the page allocator: processes map and unmap     *)
(* virtual pages and create address spaces, preempted between the steps of *)
(* a call, while others take and free pages for themselves.                *)
(*                                                                         *)
(* A virtual page is its four table indices, of which the last is also its *)
(* number within a 2 MB page; tables and frames are page numbers.  What    *)
(* the MMU does with the tables is external: it knows large pages, and NX  *)
(* bits, which boot.asm does not enable, make it fault; paging.c's walk    *)
(* knows neither.  The TLB is taken at its worst: it holds every           *)
(* translation that was valid since the last invlpg or CR3 load.           *)
(***************************************************************************)
EXTENDS Pmm

CONSTANTS
  Callers,        (* processes that call paging.c                          *)
  Virts,          (* the virtual pages they ask for                        *)
  Indices,        (* 0 .. 511 in the code                                  *)
  KernelHalf,     (* the indices 256 .. 511 of a PML4                      *)
  BootTables,     (* boot.asm's pml4, pdpt and pd, within the kernel       *)
  IdentityPages,  (* pages boot.asm maps: 512, 2 MB                        *)
  Devices,        (* frames that are not memory                            *)
  Flags,          (* the flags that callers pass                           *)
  Switchable,     (* the labels at which a caller may be preempted: all of *)
                  (* them in the code; fewer tell which steps matter       *)
  MayRemap,       (* whether callers map what is mapped already            *)
  MaxData,        (* bound: pages taken for other purposes                 *)
  MaxSpaces,      (* bound: address spaces created                         *)
  Unmapped

Bits == {"present", "huge", "nx"}
Labels == {"idle", "walk", "take", "fill", "copy", "flush"}

ASSUME PagingAssumption ==
  /\ Indices \subseteq Nat /\ IsFiniteSet(Indices)
  /\ KernelHalf \subseteq Indices /\ 0 \in Indices \ KernelHalf
  /\ Virts \subseteq Indices \X Indices \X Indices \X Indices
  /\ BootTables \in Seq(Nat) /\ Len(BootTables) = 3
  /\ \A i, j \in 1 .. 3 : BootTables[i] = BootTables[j] => i = j
  /\ \A i \in 1 .. 3 : /\ BootTables[i] # 0
                       /\ BootTables[i] * PAGE_SIZE >= KernelStart
                       /\ BootTables[i] * PAGE_SIZE < KernelEnd
  /\ IdentityPages \in Nat /\ Devices \subseteq Nat
  /\ \A f \in Devices : f >= AddressLimit \div PAGE_SIZE /\ \A i \in 1 .. 3 : f # BootTables[i]
  /\ Unmapped \notin Nat
  /\ Flags \subseteq SUBSET Bits /\ Switchable \subseteq Labels
  /\ MayRemap \in BOOLEAN /\ MaxData \in Nat /\ MaxSpaces \in Nat

(* An operator whose comment begins with Slip is what a plausible mistake  *)
(* in the code would make of the operator after it; nothing uses it.       *)

VARIABLES
  kernel_pml4,   (* 0 before paging_init                                   *)
  cr3,           (* external: the root the MMU uses                        *)
  tables,        (* memory: the pages used as tables, entry by entry       *)
  spaces,        (* history: what paging_create_address_space returned     *)
  tlb,           (* external: the translations it may hold                 *)
  running,       (* FALSE once a fault has ended in isr_handler's loop, or *)
                 (* the CPU has reset                                      *)
  call           (* each caller's arguments and locals                     *)

pagingVars == <<vars, kernel_pml4, cr3, tables, spaces, tlb, running, call>>

NoEntry == [page |-> 0, flags |-> {}]
EmptyTable == [i \in Indices |-> NoEntry]
Present(e) == "present" \in e.flags

NoCall == [pc |-> "idle", op |-> "map", virt |-> <<0, 0, 0, 0>>, frame |-> 0,
           flags |-> {}, level |-> 1, table |-> 0, page |-> 0]

BootRoot == BootTables[1]

(* boot.asm's entry: the next table, or the first 2 MB as one page. *)
BootEntry(i) ==
  [page |-> IF i < 3 THEN BootTables[i + 1] ELSE 0,
   flags |-> IF i < 3 THEN {"present"} ELSE {"present", "huge"}]

(* Page 0 taken for a table: the BIOS's vectors look like present entries. *)
BiosVectors == [i \in Indices |-> [page |-> 61440, flags |-> {"present"}]]

(* boot.asm's tables, and page 0, which a walk may come to.                *)
PagingInit ==
  /\ kernel_pml4 = 0
  /\ cr3 = BootRoot
  /\ tables = [p \in {0, BootTables[1], BootTables[2], BootTables[3]} |->
                 IF p = 0 THEN BiosVectors
                 ELSE [EmptyTable EXCEPT
                         ![0] = BootEntry(CHOOSE i \in 1 .. 3 : BootTables[i] = p)]]
  /\ spaces = {}
  /\ tlb = {}
  /\ running = TRUE
  /\ call = [c \in Callers |-> NoCall]

(* What the MMU makes of a virtual page. *)
Translate(root, v) ==
  LET found[l \in 0 .. 4] ==
        IF l = 0 THEN [page |-> root, flags |-> {"present"}]
        ELSE LET e == found[l - 1]
             IN  IF ~Present(e) \/ "huge" \in e.flags THEN e ELSE tables[e.page][v[l]]
      last == found[4]
  IN  IF ~Present(last) \/ "nx" \in last.flags THEN Unmapped
      ELSE IF "huge" \in last.flags THEN last.page + v[4] ELSE last.page

(* The translations a root has now, for the pages callers ask for. *)
Translations(root) ==
  {<<v, Translate(root, v)>> : v \in {v \in Virts : Translate(root, v) # Unmapped}}

(* Callers run, and are preempted by others, at switchable labels only.    *)
MayRun(c) == running /\ \A d \in Callers \ {c} : call[d].pc \in Switchable
OthersMayRun == running /\ \A d \in Callers : call[d].pc \in Switchable

TablePages == DOMAIN tables \ {0}

(* Pages that are tables, mapped, or about to be. *)
InUse ==
  TablePages \union {Translate(BootRoot, v) : v \in Virts}
    \union UNION {{call[c].frame, call[c].page} : c \in Callers}

(* Callers agree among themselves who works on a virtual page. *)
NobodyWorksOn(v) ==
  \A c \in Callers : call[c].pc # "idle" /\ call[c].op # "create" => call[c].virt # v

(* A caller goes on with its locals changed, or its call returns. *)
Continue(c, locals) == call' = [call EXCEPT ![c] = locals]
Return(c) == call' = [call EXCEPT ![c] = NoCall]

--------------------------------------------------------------------------------

paging_init ==
  /\ running /\ kernel_pml4 = 0
  /\ kernel_pml4' = cr3
  /\ UNCHANGED <<vars, cr3, tables, spaces, tlb, running, call>>

Begin(c, locals) ==
  /\ MayRun(c) /\ kernel_pml4 # 0 /\ call[c].pc = "idle"
  /\ Continue(c, locals)
  /\ UNCHANGED <<vars, kernel_pml4, cr3, tables, spaces, tlb, running>>

paging_map_page(c, v, f, flags) ==
  /\ NobodyWorksOn(v)
  /\ MayRemap \/ Translate(BootRoot, v) = Unmapped
  /\ f \in Devices \union (held \ TablePages)
  /\ Begin(c, [NoCall EXCEPT !.pc = "walk", !.op = "map", !.virt = v, !.frame = f,
                             !.flags = flags, !.table = kernel_pml4])

paging_unmap_page(c, v) ==
  /\ NobodyWorksOn(v)
  /\ Begin(c, [NoCall EXCEPT !.pc = "walk", !.op = "unmap", !.virt = v,
                             !.table = kernel_pml4])

paging_create_address_space(c) ==
  /\ Cardinality(spaces) < MaxSpaces
  /\ Begin(c, [NoCall EXCEPT !.pc = "walk", !.op = "create"])

(* Slip: the page directory is indexed with the bits of the page table.    *)
IndexShifted(v, level) == IF level = 3 THEN v[4] ELSE v[level]

(* pml4_index, pdpt_index, pd_index, pt_index. *)
Index(v, level) == v[level]

(* The entry a call's walk has come to. *)
EntryOf(c) == tables[call[c].table][Index(call[c].virt, call[c].level)]

Down(c, page) ==
  Continue(c, [call[c] EXCEPT !.pc = "walk", !.table = page, !.page = 0, !.level = @ + 1])

(* The entry is present: on to the table it leads to.  PAGE_HUGE is not    *)
(* looked at.                                                              *)
Descend(c) ==
  /\ MayRun(c) /\ call[c].pc = "walk" /\ call[c].op # "create" /\ call[c].level < 4
  /\ Present(EntryOf(c))
  /\ Down(c, EntryOf(c).page)
  /\ UNCHANGED <<vars, kernel_pml4, cr3, tables, spaces, tlb, running>>

(* paging_unmap_page returns if there is no entry. *)
NothingToUnmap(c) ==
  /\ MayRun(c) /\ call[c].pc = "walk" /\ call[c].op = "unmap" /\ call[c].level < 4
  /\ ~Present(EntryOf(c))
  /\ Return(c)
  /\ UNCHANGED <<vars, kernel_pml4, cr3, tables, spaces, tlb, running>>

(* Slip: a table is made even if the entry has one. *)
NeedsPageAlways(c) ==
  \/ call[c].op = "create"
  \/ (call[c].op = "map" /\ call[c].level < 4)

NeedsPage(c) ==
  \/ call[c].op = "create"
  \/ /\ call[c].op = "map" /\ call[c].level < 4
     /\ ~Present(EntryOf(c))

NoPage == -1

PageFound == IF FreePages(pmm) = {} THEN NoPage ELSE FirstFree(pmm)

(* pmm_alloc_page for a table or a PML4: the search for a clear bit ...    *)
Find(c) ==
  /\ MayRun(c) /\ call[c].pc = "walk" /\ NeedsPage(c)
  /\ IF PageFound = NoPage
     THEN Return(c) /\ ret' = 0
     ELSE /\ Continue(c, [call[c] EXCEPT !.pc = "take", !.page = PageFound])
          /\ UNCHANGED ret
  /\ UNCHANGED <<pmm, mmap, held, kernel_pml4, cr3, tables, spaces, tlb, running>>

(* Slip: the new table is not cleared; what was left there leads to it.    *)
Uncleared(page) == [i \in Indices |-> [page |-> page, flags |-> {"present"}]]

(* A page after the loop that clears it. *)
Cleared(page) == EmptyTable

(* ... setting the bit and, unless page 0 was found, clearing the page,    *)
(* which faults where memory is not mapped.                                *)
Take(c) ==
  /\ MayRun(c) /\ call[c].pc = "take"
  /\ pmm' = [pmm EXCEPT !.used = @ \union {call[c].page}, !.used_pages = @ + 1]
  /\ ret' = call[c].page * PAGE_SIZE
  /\ held' = held \union ({call[c].page} \ {0})
  /\ running' = (call[c].page < IdentityPages)
  /\ IF call[c].page = 0
     THEN Return(c) /\ UNCHANGED tables
     ELSE /\ tables' = [p \in DOMAIN tables \union {call[c].page} |->
                          IF p = call[c].page THEN Cleared(p) ELSE tables[p]]
          /\ Continue(c, [call[c] EXCEPT !.pc = IF call[c].op = "create"
                                                THEN "copy" ELSE "fill"])
  /\ UNCHANGED <<mmap, kernel_pml4, cr3, spaces, tlb>>

(* The TLB may load what a step makes valid. *)
Cache == tlb' = tlb \union Translations(cr3)'

(* get_or_create_table writes the entry and goes on in the new table.      *)
Fill(c) ==
  /\ MayRun(c) /\ call[c].pc = "fill"
  /\ tables' = [tables EXCEPT ![call[c].table][Index(call[c].virt, call[c].level)] =
                  [page |-> call[c].page, flags |-> {"present"}]]
  /\ Down(c, call[c].page)
  /\ UNCHANGED <<vars, kernel_pml4, cr3, spaces, running>>
  /\ Cache

(* The last level: paging_map_page writes the entry and returns, ...       *)
StoreMap(c) ==
  /\ MayRun(c) /\ call[c].pc = "walk" /\ call[c].op = "map" /\ call[c].level = 4
  /\ tables' = [tables EXCEPT ![call[c].table][Index(call[c].virt, 4)] =
                  [page |-> call[c].frame, flags |-> call[c].flags]]
  /\ Return(c)
  /\ UNCHANGED <<vars, kernel_pml4, cr3, spaces, running>>
  /\ Cache

(* Slip: paging_unmap_page returns without invlpg. *)
StoreUnmapOnly(c) ==
  /\ MayRun(c) /\ call[c].pc = "walk" /\ call[c].op = "unmap" /\ call[c].level = 4
  /\ tables' = [tables EXCEPT ![call[c].table][Index(call[c].virt, 4)] = NoEntry]
  /\ Return(c)
  /\ UNCHANGED <<vars, kernel_pml4, cr3, spaces, tlb, running>>

(* ... paging_unmap_page clears it ...                                     *)
StoreUnmap(c) ==
  /\ MayRun(c) /\ call[c].pc = "walk" /\ call[c].op = "unmap" /\ call[c].level = 4
  /\ tables' = [tables EXCEPT ![call[c].table][Index(call[c].virt, 4)] = NoEntry]
  /\ Continue(c, [call[c] EXCEPT !.pc = "flush"])
  /\ UNCHANGED <<vars, kernel_pml4, cr3, spaces, tlb, running>>

(* ... and executes invlpg. *)
Invlpg(c) ==
  /\ MayRun(c) /\ call[c].pc = "flush"
  /\ tlb' = {t \in tlb : t[1] # call[c].virt} \union Translations(cr3)
  /\ Return(c)
  /\ UNCHANGED <<vars, kernel_pml4, cr3, tables, spaces, running>>

(* The upper half of the current PML4 in a table that is otherwise clear.  *)
Copied(c) ==
  [i \in Indices |-> IF i \in KernelHalf THEN tables[kernel_pml4][i]
                     ELSE tables[call[c].page][i]]

CopyKernelHalf(c) ==
  /\ MayRun(c) /\ call[c].pc = "copy"
  /\ tables' = [tables EXCEPT ![call[c].page] = Copied(c)]
  /\ spaces' = spaces \union {call[c].page}
  /\ Return(c)
  /\ UNCHANGED <<vars, kernel_pml4, cr3, tlb, running>>

(* paging_switch_directory.  The CPU goes on only if the kernel it         *)
(* executes is mapped; otherwise it resets.                                *)
KernelPage == <<0, 0, 0, BootRoot>>

paging_switch_directory(pml4) ==
  /\ OthersMayRun /\ kernel_pml4 # 0
  /\ pml4 \in spaces \union {kernel_pml4}
  /\ kernel_pml4' = pml4 /\ cr3' = pml4
  /\ tlb' = Translations(pml4)
  /\ running' = (Translate(pml4, KernelPage) # Unmapped)
  /\ UNCHANGED <<vars, tables, spaces, call>>

(* Others take pages, and free those that are not in use. *)
TakeData ==
  /\ OthersMayRun
  /\ Cardinality(held \ TablePages) < MaxData
  /\ pmm_alloc_page
  /\ UNCHANGED <<kernel_pml4, cr3, tables, spaces, tlb, running, call>>

FreeData(pfn) ==
  /\ OthersMayRun
  /\ pmm_free_page(pfn)
  /\ UNCHANGED <<kernel_pml4, cr3, tables, spaces, tlb, running, call>>

PagingStep(c) ==
  \/ \E v \in Virts : \E f \in Devices \union held : \E flags \in Flags :
       paging_map_page(c, v, f, flags)
  \/ \E v \in Virts : paging_unmap_page(c, v)
  \/ paging_create_address_space(c)
  \/ Descend(c) \/ NothingToUnmap(c) \/ Find(c) \/ Take(c) \/ Fill(c)
  \/ StoreMap(c) \/ StoreUnmap(c) \/ Invlpg(c) \/ CopyKernelHalf(c)

PagingNext ==
  \/ paging_init
  \/ \E c \in Callers : PagingStep(c)
  \/ \E pml4 \in TablePages : paging_switch_directory(pml4)
  \/ TakeData
  \/ \E pfn \in (0 .. pmm.total_pages) \ InUse : FreeData(pfn)

--------------------------------------------------------------------------------

Locals ==
  [pc : Labels, op : {"map", "unmap", "create"}, virt : Virts \union {NoCall.virt},
   frame : Nat, flags : Flags \union {{}}, level : 1 .. 4, table : TablePages \union {0},
   page : Nat]

PagingTypeOK ==
  /\ {kernel_pml4, cr3} \subseteq TablePages \union {0} /\ cr3 # 0
  /\ TablePages \subseteq {BootTables[1], BootTables[2], BootTables[3]} \union
                           (1 .. pmm.total_pages - 1)
  /\ tables \in [TablePages \union {0} -> [Indices -> [page : Nat, flags : SUBSET Bits]]]
  /\ spaces \subseteq TablePages
  /\ tlb \subseteq Virts \X Nat
  /\ running \in BOOLEAN
  /\ call \in [Callers -> Locals]

(* The tables that are reached from the boot PML4, by level. *)
TablesAt ==
  LET at[l \in 1 .. 4] ==
        IF l = 1 THEN {BootRoot}
        ELSE {e.page : e \in {e \in UNION {{tables[t][i] : i \in Indices} : t \in at[l - 1]} :
                                Present(e) /\ "huge" \notin e.flags}}
  IN  at

Links(level) ==
  {l \in TablesAt[level] \X Indices :
     Present(tables[l[1]][l[2]]) /\ "huge" \notin tables[l[1]][l[2]].flags}

TablesInCalls ==
  {call[c].page : c \in {c \in Callers : call[c].pc \in {"fill", "copy"}}}

(* get_or_create_table builds a tree: no table has two parents or is on    *)
(* two levels; every page taken for a table is linked in (a call that runs *)
(* out of memory half-way loses none), a PML4 handed out, or still in a    *)
(* call; a table is never also a page that somebody mapped; and a created  *)
(* PML4 shares the kernel half's tables with the boot PML4 and nothing     *)
(* else.                                                                   *)
TablesAreATree ==
  /\ \A l \in 1 .. 3 : Cardinality(Links(l)) = Cardinality(TablesAt[l + 1])
  /\ \A l, m \in 1 .. 4 : l # m => TablesAt[l] \intersect TablesAt[m] = {}
  /\ running =>
       TablePages = (UNION {TablesAt[l] : l \in 1 .. 4}) \union spaces \union TablesInCalls
  /\ \A t \in TablesAt[4], i \in Indices :
       Present(tables[t][i]) => tables[t][i].page \notin TablePages
  /\ \A s \in spaces, i \in Indices :
       Present(tables[s][i]) => i \in KernelHalf /\ tables[s][i] = tables[BootRoot][i]

(* paging_map_page returns nothing: when it returns, the page is mapped as *)
(* asked, or there was no memory for a table (or page 0 was offered, which *)
(* is the null pointer).                                                   *)
MapTakesEffect ==
  [][\A c \in Callers :
       (call[c].op = "map" /\ call[c].pc # "idle" /\ call'[c].pc = "idle") =>
         IF call[c].level = 4
         THEN \E v \in Virts :
                /\ v = call[c].virt
                /\ Translate(cr3, v)' = IF "present" \in call[c].flags THEN call[c].frame
                                        ELSE Unmapped
         ELSE ret' = 0]_pagingVars

(* The CPU never uses a translation that the tables no longer hold, except *)
(* while paging_unmap_page is between clearing the entry and invlpg.       *)
TlbCoherent ==
  running =>
    \A t \in tlb :
      \/ Translate(cr3, t[1]) = t[2]
      \/ \E c \in Callers : call[c].pc = "flush" /\ call[c].virt = t[1]

(* Slip: the entry of the page directory is not tested. *)
WalkUntested(root, v) ==
  LET found[l \in 0 .. 4] ==
        IF l = 0 THEN [page |-> root, flags |-> {"present"}]
        ELSE LET e == found[l - 1]
             IN  IF Present(e) \/ l = 4 THEN tables[e.page][v[l]] ELSE NoEntry
  IN  found[4]

(* The entry paging_get_physical's walk ends at. *)
Walk(root, v) ==
  LET found[l \in 0 .. 4] ==
        IF l = 0 THEN [page |-> root, flags |-> {"present"}]
        ELSE LET e == found[l - 1]
             IN  IF Present(e) THEN tables[e.page][v[l]] ELSE NoEntry
  IN  found[4]

(* What it returns: the flags in the low bits are masked out, bit 63 is    *)
(* not; 0 if an entry is not present.                                      *)
paging_get_physical(v) ==
  IF Present(Walk(kernel_pml4, v))
  THEN [page |-> Walk(kernel_pml4, v).page,
        flags |-> Walk(kernel_pml4, v).flags \intersect {"nx"}]
  ELSE NoEntry

(* paging_get_physical returns the page that the MMU uses, 0 if none.      *)
GetPhysicalAgrees ==
  kernel_pml4 # 0 =>
    \A v \in Virts :
      paging_get_physical(v) =
        IF Translate(kernel_pml4, v) = Unmapped THEN NoEntry
        ELSE [page |-> Translate(kernel_pml4, v), flags |-> {}]

(* Callers may think of the tables as a map from virtual to physical pages *)
(* in which a call changes the page it is about and no other.              *)
Space == INSTANCE AddressSpace
           WITH space <- [v \in Virts |-> Translate(BootRoot, v)],
                Frames <- Devices \union (0 .. AddressLimit \div PAGE_SIZE)

ImplementsAddressSpace == Space!Spec

(* Whatever paging.c and the others do together, the page allocator sees   *)
(* calls it is made for: every step is a step of module Pmm or none of it, *)
(* so that Pmm's theorems hold here.                                       *)
ImplementsPmm == Spec

(* The CPU always finds the kernel mapped and no access faults: fails when *)
(* a table is taken beyond the first 2 MB, and at a switch to a created    *)
(* space.                                                                  *)
KeepsRunning == running

(* "Copy kernel mappings (top half)": all spaces map the upper half alike. *)
KernelHalfShared ==
  \A s \in spaces, i \in KernelHalf : tables[s][i] = tables[BootRoot][i]
================================================================================
