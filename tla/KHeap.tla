--------------------------------- MODULE KHeap ---------------------------------
(***************************************************************************)
(* The kernel heap of kernel/mm/kheap.c on top of the page allocator: a    *)
(* list of blocks, first fit, split on allocation, coalesced on free,      *)
(* expanded by whole pages when nothing fits.  Sizes are the real ones, in *)
(* bytes.                                                                  *)
(*                                                                         *)
(* The doubly linked list of headers is a sequence here: every function    *)
(* that changes next also changes the matching prev, and nobody walks the  *)
(* list backwards.  Callers are processes that may be preempted inside a   *)
(* call: between the search and what follows it, and, in kfree, before the *)
(* merging.  Nothing in the code keeps another call from changing, there,  *)
(* the header that the preempted one has chosen, nor the pages of the heap *)
(* from having a hole: torn remembers that one of both has happened.  What *)
(* a call does with a header that is no longer in the list, or in memory   *)
(* the heap does not own, is not modelled.                                 *)
(***************************************************************************)
EXTENDS PageFrames, SequencesExt

CONSTANTS Callers,       (* processes that use the heap                    *)
          MemoryMap,     (* the memory map GRUB passed                     *)
          Sizes,         (* the sizes callers ask kmalloc for              *)
          AlignedSizes,  (* the sizes they ask kmalloc_aligned for         *)
          Alignments,    (* and the alignments, powers of two              *)
          MaxLive,       (* bound: allocations alive at the same time      *)
          MaxDrift,      (* bound: no more calls when used_heap_size is    *)
                         (* wrong by more                                  *)
          OtherUsers,    (* does anybody else take pages once the heap     *)
                         (* exists?                                        *)
          KeepTorn       (* bound: does the model go on once torn holds?   *)

(* An operator whose comment begins with Slip is what a plausible mistake  *)
(* in the code would make of the operator after it; no action uses it.     *)

ASSUME KHeapAssumption ==
  /\ Sizes \subseteq Nat /\ AlignedSizes \subseteq Nat /\ Alignments \subseteq Nat

BLOCK_HEADER_SIZE == 32
HEAP_EXPAND_SIZE == 4 * PAGE_SIZE
MIN_BLOCK_SIZE == 16

VARIABLES
  blocks,           (* the list from heap_start: header address, usable    *)
                    (* size, is_free                                       *)
  total_heap_size,
  used_heap_size,   (* a size_t: a value below 0 reads as 2^64 more        *)
  pmm,              (* the page allocator                                  *)
  pages,            (* history: the pages expand_heap was given            *)
  live,             (* history: what callers hold: pointer, the size and   *)
                    (* the alignment they asked for                        *)
  call,             (* each caller's call: where it is, the header it has  *)
                    (* found, what was asked                               *)
  torn              (* history: did the pages of the heap get a hole, or   *)
                    (* was a header changed that a preempted call had      *)
                    (* chosen?                                             *)

heap == <<blocks, total_heap_size, used_heap_size, pmm, pages, live>>
vars == <<heap, call, torn>>

Block == [addr : Nat, size : Nat, is_free : BOOLEAN]

align_up(size, alignment) == ((size + alignment - 1) \div alignment) * alignment

--------------------------------------------------------------------------------

(* One turn of the loop of expand_heap, unless it has returned. *)
TakePage(t) ==
  IF t.failed THEN t
  ELSE [pm |-> Alloc(t.pm),
        got |-> IF AllocResult(t.pm) = 0 THEN t.got ELSE Append(t.got, AllocResult(t.pm)),
        failed |-> AllocResult(t.pm) = 0]

(* The loop: n pages, or fewer when one call fails; pages obtained before  *)
(* the failure are not given back.                                         *)
TakePages(pm, n) ==
  LET taken[i \in 0 .. n] == IF i = 0 THEN [pm |-> pm, got |-> <<>>, failed |-> FALSE]
                             ELSE TakePage(taken[i - 1])
  IN  taken[n]

(* Slip: rounded down to a page. *)
ExpandSizeDown(min_size) ==
  IF min_size > HEAP_EXPAND_SIZE THEN (min_size \div PAGE_SIZE) * PAGE_SIZE
  ELSE HEAP_EXPAND_SIZE

(* How much expand_heap asks for. *)
ExpandSize(min_size) ==
  IF min_size > HEAP_EXPAND_SIZE THEN align_up(min_size, PAGE_SIZE)
  ELSE HEAP_EXPAND_SIZE

(* Slip: the header is not subtracted. *)
NewBlockNoHeader(addr, expand_size) ==
  [addr |-> addr, size |-> expand_size, is_free |-> TRUE]

(* One block over all the pages, which starts at the first of them. *)
NewBlock(addr, expand_size) ==
  [addr |-> addr, size |-> expand_size - BLOCK_HEADER_SIZE, is_free |-> TRUE]

(* split_block: the rest becomes a free block behind block k if it is      *)
(* worth it.                                                               *)
Split(bs, k, size) ==
  IF bs[k].size < size + BLOCK_HEADER_SIZE + MIN_BLOCK_SIZE THEN bs
  ELSE InsertAt([bs EXCEPT ![k].size = size], k + 1,
                [addr |-> bs[k].addr + BLOCK_HEADER_SIZE + size,
                 size |-> bs[k].size - size - BLOCK_HEADER_SIZE,
                 is_free |-> TRUE])

(* Slip: the swallowed header is not counted. *)
MergeNoHeader(bs, k) ==
  RemoveAt([bs EXCEPT ![k].size = @ + bs[k + 1].size], k + 1)

(* Block k swallows its successor in the list. *)
Merge(bs, k) ==
  RemoveAt([bs EXCEPT ![k].size = @ + BLOCK_HEADER_SIZE + bs[k + 1].size], k + 1)

(* Slip: only the successor is considered. *)
CoalesceForward(bs, k) ==
  IF k < Len(bs) /\ bs[k + 1].is_free THEN Merge(bs, k) ELSE bs

(* coalesce_blocks: first with the successor in the list, then with the    *)
(* predecessor.                                                            *)
Coalesce(bs, k) ==
  LET merged == IF k < Len(bs) /\ bs[k + 1].is_free THEN Merge(bs, k) ELSE bs
  IN  IF k > 1 /\ merged[k - 1].is_free THEN Merge(merged, k - 1) ELSE merged

--------------------------------------------------------------------------------

NoCall == [pc |-> "none", block |-> 0, size |-> 0, asked |-> 0, alignment |-> 1]

Init ==
  /\ call = [c \in Callers |-> NoCall]
  /\ blocks = <<>>
  /\ total_heap_size = 0
  /\ used_heap_size = 0
  /\ pmm = pmm_init(MemoryMap)
  /\ pages = {}
  /\ live = {}
  /\ torn = FALSE

(* expand_heap, when every page could be had. *)
Expanded(min_size, t) ==
  /\ t = TakePages(pmm, ExpandSize(min_size) \div PAGE_SIZE)
  /\ ~t.failed
  /\ pmm' = t.pm
  /\ pages' = pages \union {a \div PAGE_SIZE : a \in ToSet(t.got)}
  /\ total_heap_size' = total_heap_size + ExpandSize(min_size)

(* expand_heap, when some page could not. *)
ExpandFails(min_size) ==
  LET t == TakePages(pmm, ExpandSize(min_size) \div PAGE_SIZE)
  IN  /\ t.failed
      /\ pmm' = t.pm
      /\ UNCHANGED <<blocks, total_heap_size, used_heap_size, pages, live>>

(* kheap_init, called once and before kmalloc.  If it fails, kmalloc       *)
(* expands the empty heap later.                                           *)
kheap_init ==
  /\ blocks = <<>> /\ \A c \in Callers : call[c] = NoCall
  /\ UNCHANGED call
  /\ \/ \E t \in {TakePages(pmm, ExpandSize(HEAP_EXPAND_SIZE) \div PAGE_SIZE)} :
          /\ Expanded(HEAP_EXPAND_SIZE, t)
          /\ blocks' = <<NewBlock(t.got[1], ExpandSize(HEAP_EXPAND_SIZE))>>
          /\ UNCHANGED <<used_heap_size, live>>
     \/ ExpandFails(HEAP_EXPAND_SIZE)

(* Slip: the search does not look at is_free. *)
FitsInUse(k, size) == blocks[k].size >= size

(* Block k can be handed out for size bytes. *)
Fits(k, size) == blocks[k].is_free /\ blocks[k].size >= size

(* Block k of bs is handed out for a request of `asked' bytes, `size' when *)
(* rounded.                                                                *)
HandOut(bs, k, size, asked, alignment) ==
  /\ blocks' = [Split(bs, k, size) EXCEPT ![k].is_free = FALSE]
  /\ used_heap_size' = used_heap_size + size + BLOCK_HEADER_SIZE
  /\ live' = live \union {[ptr |-> bs[k].addr + BLOCK_HEADER_SIZE,
                           size |-> asked, alignment |-> alignment]}

(* Bounds of the model. *)
UsedBytes ==
  FoldLeft(LAMBDA sum, b : IF b.is_free THEN sum
                           ELSE sum + BLOCK_HEADER_SIZE + b.size, 0, blocks)

WithinBounds ==
  /\ Cardinality(live) + Cardinality({c \in Callers : call[c].pc \in {"expand", "take"}}) < MaxLive
  /\ used_heap_size \in (UsedBytes - MaxDrift) .. (UsedBytes + MaxDrift)

Goes(c, pc, block, size, asked, alignment) ==
  call' = [call EXCEPT ![c] = [pc |-> pc, block |-> block, size |-> size,
                               asked |-> asked, alignment |-> alignment]]

Returns(c) == call' = [call EXCEPT ![c] = NoCall]

(* The place in the list of the header that a caller has found, if it is   *)
(* still in the list.                                                      *)
Place(c) == {k \in DOMAIN blocks : blocks[k].addr = call[c].block}

(* kmalloc walks the list to the first free block that is large enough.    *)
Search(c, size, asked, alignment) ==
  /\ call[c] = NoCall /\ WithinBounds
  /\ \/ \E k \in DOMAIN blocks :
          /\ Fits(k, size)
          /\ \A j \in 1 .. (k - 1) : ~Fits(j, size)
          /\ Goes(c, "take", blocks[k].addr, size, asked, alignment)
     \/ /\ \A k \in DOMAIN blocks : ~Fits(k, size)
        /\ Goes(c, "expand", 0, size, asked, alignment)
  /\ UNCHANGED heap

(* It splits the block and marks it. *)
Take(c) ==
  /\ call[c].pc = "take"
  /\ \E k \in Place(c) :
       HandOut(blocks, k, call[c].size, call[c].asked, call[c].alignment)
  /\ Returns(c)
  /\ UNCHANGED <<total_heap_size, pmm, pages>>

(* It has found none and expands the heap: the new block is the last. *)
AllocExpand(c) ==
  LET min_size == call[c].size + BLOCK_HEADER_SIZE
      t == TakePages(pmm, ExpandSize(min_size) \div PAGE_SIZE)
  IN  /\ call[c].pc = "expand"
      /\ \/ /\ Expanded(min_size, t)
            /\ HandOut(Append(blocks, NewBlock(t.got[1], ExpandSize(min_size))),
                       Len(blocks) + 1, call[c].size, call[c].asked, call[c].alignment)
         \/ ExpandFails(min_size)
      /\ Returns(c)

(* kmalloc of nothing returns the null pointer. *)
kmalloc(c, size) ==
  \/ size = 0 /\ UNCHANGED <<heap, call>>
  \/ size # 0 /\ Search(c, align_up(size, 8), size, 1)

(* kmalloc_aligned: more memory is asked of kmalloc, but its pointer is    *)
(* returned as it is.  Nothing is returned for an alignment that is not a  *)
(* power of two.                                                           *)
kmalloc_aligned(c, size, alignment) ==
  IF \E n \in 0..30 : alignment = 2 ^ n
  THEN Search(c, align_up(size + alignment + BLOCK_HEADER_SIZE, 8), size, alignment)
  ELSE UNCHANGED <<heap, call>>

Pointer(b) == b.addr + BLOCK_HEADER_SIZE

(* kfree: the block of the pointer is marked free.  Nothing happens for    *)
(* the null pointer, nor for a block that is free already.                 *)
kfree(c, ptr) ==
  /\ call[c] = NoCall
  /\ \/ /\ ptr = 0 \/ \E k \in DOMAIN blocks : Pointer(blocks[k]) = ptr /\ blocks[k].is_free
        /\ UNCHANGED <<heap, call>>
     \/ \E k \in DOMAIN blocks, a \in live :
          /\ Pointer(blocks[k]) = ptr /\ ~blocks[k].is_free /\ a.ptr = ptr
          /\ blocks' = [blocks EXCEPT ![k].is_free = TRUE]
          /\ used_heap_size' = used_heap_size - (blocks[k].size + BLOCK_HEADER_SIZE)
          /\ live' = live \ {a}
          /\ Goes(c, "coalesce", blocks[k].addr, 0, 0, 1)
          /\ UNCHANGED <<total_heap_size, pmm, pages>>

(* It is merged with its neighbours in the list. *)
coalesce_blocks(c) ==
  /\ call[c].pc = "coalesce"
  /\ \E k \in Place(c) : blocks' = Coalesce(blocks, k)
  /\ Returns(c)
  /\ UNCHANGED <<total_heap_size, used_heap_size, pmm, pages, live>>

(* Another part of the kernel takes a page: before the heap exists, or at  *)
(* any time.                                                               *)
OtherPageUser ==
  /\ OtherUsers \/ blocks = <<>>
  /\ pmm' = Alloc(pmm)
  /\ UNCHANGED <<call, blocks, total_heap_size, used_heap_size, pages, live>>

(* The pages of the heap follow each other. *)
Unbroken == \A p, q \in pages : (p .. q) \subseteq pages

(* What a call that was preempted inside kmalloc or kfree has chosen.      *)
Chosen(c) == {blocks[k] : k \in Place(c)}

(* The step changes it under the call. *)
Disturbs ==
  \E c \in Callers :
    call[c].pc \in {"take", "coalesce"} /\ call'[c] = call[c] /\ Chosen(c)' # Chosen(c)

Step ==
  \/ kheap_init
  \/ \E c \in Callers :
       \/ \E size \in Sizes : kmalloc(c, size)
       \/ \E size \in AlignedSizes, alignment \in Alignments : kmalloc_aligned(c, size, alignment)
       \/ Take(c) \/ AllocExpand(c)
       \/ \E ptr \in {0} \union {Pointer(b) : b \in ToSet(blocks)} : kfree(c, ptr)
       \/ coalesce_blocks(c)
  \/ OtherPageUser

(* A bound: the model rests once torn holds. *)
Rest == torn /\ ~KeepTorn /\ UNCHANGED vars

Next ==
  \/ /\ KeepTorn \/ ~torn
     /\ Step
     /\ torn' = (torn \/ ~Unbroken' \/ Disturbs)
  \/ Rest

Spec == Init /\ [][Next]_vars

--------------------------------------------------------------------------------

TypeOK ==
  /\ blocks \in Seq(Block)
  /\ total_heap_size \in Nat /\ used_heap_size \in Int
  /\ pmm \in PmmState
  /\ pages \subseteq Nat
  /\ live \subseteq [ptr : Nat, size : Nat, alignment : Nat]
  /\ \A c \in Callers :
       call[c] \in [pc : {"none", "expand", "take", "coalesce"}, block : Nat, size : Nat,
                   asked : Nat, alignment : Nat]
  /\ torn \in BOOLEAN

EndOf(b) == b.addr + BLOCK_HEADER_SIZE + b.size

(* Every byte of every block, header included, lies in a page that         *)
(* expand_heap got from the page allocator: neither an expansion nor a     *)
(* merge reaches into memory that is somebody else's.                      *)
OwnedMemory ==
  \A k \in DOMAIN blocks :
    (blocks[k].addr \div PAGE_SIZE) .. ((EndOf(blocks[k]) - 1) \div PAGE_SIZE)
      \subseteq pages

(* The bytes that a list of blocks takes, headers included. *)
BytesOf(bs) ==
  LET sum[k \in 0 .. Len(bs)] ==
        IF k = 0 THEN 0 ELSE sum[k - 1] + BLOCK_HEADER_SIZE + bs[k].size
  IN  sum[Len(bs)]

(* The blocks tile the heap: none overlaps another and together they are   *)
(* as large as all expansions, through any sequence of splits and merges.  *)
HeapTiled ==
  /\ \A j, k \in DOMAIN blocks :
       j < k => \/ EndOf(blocks[j]) <= blocks[k].addr
                \/ EndOf(blocks[k]) <= blocks[j].addr
  /\ total_heap_size = BytesOf(blocks)

(* Free memory is not fragmented more than necessary: of two successive    *)
(* blocks one is in use, unless a call is about to merge one of them.      *)
Coalesced ==
  \A k \in 1 .. (Len(blocks) - 1) :
    blocks[k].is_free /\ blocks[k + 1].is_free =>
      \E c \in Callers : /\ call[c].pc = "coalesce"
                        /\ call[c].block \in {blocks[k].addr, blocks[k + 1].addr}

(* The blocks in use are exactly what callers hold, and each is at least   *)
(* as large as its caller asked: nothing is lost, nothing too short.       *)
InUse == {k \in DOMAIN blocks : ~blocks[k].is_free}

AllocationsFit ==
  /\ Cardinality(InUse) = Cardinality(live)
  /\ \A a \in live : \E k \in InUse :
       blocks[k].addr + BLOCK_HEADER_SIZE = a.ptr /\ blocks[k].size >= a.size

(* kmalloc and kfree are an allocator: what callers hold never overlaps. *)
A == INSTANCE Allocator
       WITH allocated <- {[ptr |-> a.ptr, size |-> a.size] : a \in live}

ImplementsAllocator == A!Spec

(* Until the heap is torn, all of this holds wherever calls are preempted. *)
OwnedUntilTorn == torn \/ OwnedMemory

TiledUntilTorn == torn \/ HeapTiled

CoalescedUntilTorn == torn \/ Coalesced

FitUntilTorn == torn \/ AllocationsFit

AllocatorUntilTorn == A!Init /\ [][torn' \/ A!Next]_live

(* kheap_print_stats prints how much of the heap is in use: the blocks in  *)
(* use, with their headers.                                                *)
UsedSizeAccurate == used_heap_size = UsedBytes

(* kmalloc_aligned returns memory aligned as asked. *)
AlignedAsAsked == \A a \in live : a.ptr % a.alignment = 0
================================================================================
