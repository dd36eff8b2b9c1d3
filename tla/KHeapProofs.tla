------------------------------ MODULE KHeapProofs ------------------------------
(***************************************************************************)
(* Theorems about KHeap, for every memory map, every set of callers, sizes *)
(* and alignments, wherever calls are preempted.  Each says what holds     *)
(* until the heap is torn: until its pages get a hole, or a call changes a *)
(* header that a preempted one has chosen.  The runs heap_hole and         *)
(* MCKHeap_merge, MCKHeap_race show what happens then.                     *)
(***************************************************************************)
EXTENDS KHeap, FiniteSetTheorems, SequenceTheorems, WellFoundedInduction, TLAPS

(* A list of blocks without gaps from one address to another. *)
Laid(bs, first, end) ==
  /\ bs = <<>> => end = first
  /\ bs # <<>> => bs[1].addr = first /\ EndOf(bs[Len(bs)]) = end
  /\ \A k \in 1 .. (Len(bs) - 1) : bs[k + 1].addr = EndOf(bs[k])

(* The heap is m pages from page s on, and free pages lie behind it. *)
HeapPages(s, m) ==
  /\ Laid(blocks, s * PAGE_SIZE, (s + m) * PAGE_SIZE)
  /\ pages = s .. (s + m - 1)
  /\ total_heap_size = m * PAGE_SIZE
  /\ \A p \in FreePages(pmm) \ {0} : p >= s + m

(* What callers hold are the blocks in use. *)
Used(bs) == {bs[k] : k \in {k \in DOMAIN bs : ~bs[k].is_free}}

HeldIs(held, used) ==
  /\ \A a \in held : \E b \in used : b.addr + BLOCK_HEADER_SIZE = a.ptr /\ b.size >= a.size
  /\ \A b \in used : \E a \in held : b.addr + BLOCK_HEADER_SIZE = a.ptr
  /\ \A a, b \in held : a.ptr = b.ptr => a = b

(* Of two successive free blocks the address of one is in C. *)
PairsIn(bs, C) ==
  \A j \in 1 .. (Len(bs) - 1) :
    bs[j].is_free /\ bs[j + 1].is_free => bs[j].addr \in C \/ bs[j + 1].addr \in C

(* The blocks that calls of these callers are about to merge. *)
MergedBy(cs) == {call[d].block : d \in {d \in cs : call[d].pc = "coalesce"}}

(* What a call relies on: r is its record. *)
CallOk(r, bs) ==
  /\ r.pc = "none" => r = NoCall
  /\ r.pc \in {"expand", "take"} => r.size >= r.asked
  /\ r.pc = "take" =>
       \E k \in 1 .. Len(bs) : bs[k].addr = r.block /\ bs[k].is_free /\ bs[k].size >= r.size
  /\ r.pc = "coalesce" =>
       \E k \in 1 .. Len(bs) : bs[k].addr = r.block /\ bs[k].is_free

Calls ==
  /\ \A c \in Callers : CallOk(call[c], blocks)
  /\ PairsIn(blocks, MergedBy(Callers))

CallRecord ==
  [pc : {"none", "expand", "take", "coalesce"}, block : Nat, size : Nat, asked : Nat, alignment : Nat]

(* The bitmap as the page allocator's functions use it. *)
IsBitmap(pm) ==
  pm = [used |-> pm.used, total_pages |-> pm.total_pages, used_pages |-> pm.used_pages]

Typed ==
  /\ blocks \in Seq(Block)
  /\ total_heap_size \in Nat
  /\ live \subseteq [ptr : Nat, size : Nat, alignment : Nat]
  /\ call \in [Callers -> CallRecord]
  /\ IsBitmap(pmm)

IInv ==
  /\ Typed
  /\ \E s \in Nat \ {0}, m \in Nat : HeapPages(s, m)
  /\ HeldIs(live, Used(blocks))
  /\ Calls
-------------------------------------------------------------------------------

(* Every non-empty set of naturals has a least element.  Inductions are    *)
(* proofs about the least counterexample.                                  *)
LEMMA Least ==
  ASSUME NEW T \in SUBSET Nat, T # {}
  PROVE  \E x \in T : \A y \in T : x <= y
  <1> DEFINE R == OpToRel(<, Nat)
  <1>1. IsWellFoundedOn(R, Nat)
    BY NatLessThanWellFounded
  <1>2. \A x, y \in Nat : (y < x) => <<y, x>> \in R
    BY DEF OpToRel
  <1> HIDE DEF R
  <1>3. PICK x \in T : \A y \in T : ~(<<y, x>> \in R)
    BY <1>1, WFMin
  <1>4. \A y \in T : ~(y < x)
    BY <1>2, <1>3, Zenon
  <1> QED BY <1>4

(* An allocation takes the first free page and no other. *)
LEMMA AllocFrees ==
  ASSUME NEW pm, IsBitmap(pm), FreePages(pm) # {}
  PROVE  /\ IsBitmap(Alloc(pm))
         /\ FreePages(Alloc(pm)) = FreePages(pm) \ {FirstFree(pm)}
  <1> DEFINE i == FirstFree(pm)
  <1>1. Alloc(pm) = [pm EXCEPT !.used = @ \union {i}, !.used_pages = @ + 1]
    BY DEF Alloc
  <1> HIDE DEF i
  <1>2. /\ IsBitmap(Alloc(pm))
        /\ Alloc(pm).used = pm.used \union {i} /\ Alloc(pm).total_pages = pm.total_pages
    BY <1>1 DEF IsBitmap
  <1> QED BY <1>2 DEF FreePages, i

(* n pages from page z on, each behind the one before it and in front of   *)
(* all that are free.                                                      *)
Rising(g, z, n, free) ==
  /\ g \in Seq(Nat) /\ Len(g) = n
  /\ \A i \in 1 .. n : g[i] >= z
  /\ \A i, j \in 1 .. n : i < j => g[i] < g[j]
  /\ \A i \in 1 .. n, p \in free \ {0} : g[i] < p

AddressesOf(got, g, n) ==
  /\ got \in Seq(Nat) /\ Len(got) = n
  /\ \A i \in 1 .. n : got[i] = g[i] * PAGE_SIZE

(* The loop of expand_heap after n turns, when no page below z but 0 was   *)
(* free: it has n pages, or has failed, for lack of pages or at page 0.    *)
Taken(t, z, n) ==
  /\ t = [pm |-> t.pm, got |-> t.got, failed |-> t.failed]
  /\ IsBitmap(t.pm)
  /\ t.failed \in BOOLEAN
  /\ \A p \in FreePages(t.pm) \ {0} : p >= z
  /\ ~t.failed => \E g : Rising(g, z, n, FreePages(t.pm)) /\ AddressesOf(t.got, g, n)

LEMMA OneTurn ==
  ASSUME NEW t, NEW z \in Nat, NEW n \in Nat, Taken(t, z, n)
  PROVE  Taken(TakePage(t), z, n + 1)
  <1> DEFINE u == TakePage(t)
             free == FreePages(t.pm)
             r == AllocResult(t.pm)
  <1>1. CASE t.failed
    <2>1. u = t
      BY <1>1 DEF TakePage
    <2> QED BY <1>1, <2>1 DEF Taken
  <1>2. CASE ~t.failed /\ free = {}
    <2>1. r = 0 /\ Alloc(t.pm) = t.pm
      BY <1>2 DEF AllocResult, Alloc
    <2>2. u = [pm |-> t.pm, got |-> t.got, failed |-> TRUE]
      BY <1>2, <2>1 DEF TakePage
    <2> HIDE DEF free, u, r
    <2>3. u.pm = t.pm /\ u.failed = TRUE /\ u.got = t.got
      BY <2>2
    <2> QED BY <2>2, <2>3 DEF Taken, u
  <1>3. CASE ~t.failed /\ free # {}
    <2> DEFINE q == FirstFree(t.pm)
    <2>1. q \in free /\ q \in Nat /\ \A i \in free : q <= i
      <3>1. free \in SUBSET Nat
        BY DEF FreePages
      <3> HIDE DEF free
      <3>2. \E i \in free : \A j \in free : i <= j
        BY <1>3, <3>1, Least
      <3>3. q \in free /\ \A i \in free : q <= i
        BY <3>2 DEF FirstFree, free
      <3> QED BY <3>1, <3>3
    <2>2. IsBitmap(Alloc(t.pm)) /\ FreePages(Alloc(t.pm)) = free \ {q}
      BY <1>3, AllocFrees DEF Taken
    <2>3. r = q * PAGE_SIZE
      BY <1>3 DEF AllocResult
    <2> HIDE DEF q
    <2>4. r \in Nat /\ (r = 0 <=> q = 0)
      BY <2>1, <2>3 DEF PAGE_SIZE
    <2>5. \A p \in FreePages(Alloc(t.pm)) \ {0} : p >= z
      BY <2>2 DEF Taken
    <2>6. u = [pm |-> Alloc(t.pm), got |-> IF r = 0 THEN t.got ELSE Append(t.got, r),
               failed |-> r = 0]
      BY <1>3 DEF TakePage
    <2> HIDE DEF free, r, u
    <2>7. /\ u.pm = Alloc(t.pm) /\ u.failed = (r = 0)
          /\ u.got = IF r = 0 THEN t.got ELSE Append(t.got, r)
          /\ u = [pm |-> u.pm, got |-> u.got, failed |-> u.failed]
      BY <2>6
    <2>8. ASSUME q # 0
          PROVE  \E g : Rising(g, z, n + 1, free \ {q}) /\ AddressesOf(Append(t.got, r), g, n + 1)
      <3>1. PICK g : Rising(g, z, n, free) /\ AddressesOf(t.got, g, n)
        BY <1>3 DEF Taken, free
      <3> DEFINE h == Append(g, q)
                 a == Append(t.got, r)
      <3>2. /\ g \in Seq(Nat) /\ Len(g) = n
            /\ t.got \in Seq(Nat) /\ Len(t.got) = n
        BY <3>1 DEF Rising, AddressesOf
      <3>3. /\ h \in Seq(Nat) /\ Len(h) = n + 1 /\ h[n + 1] = q
            /\ \A i \in 1 .. n : h[i] = g[i]
        BY <2>1, <3>2
      <3>4. /\ a \in Seq(Nat) /\ Len(a) = n + 1 /\ a[n + 1] = r
            /\ \A i \in 1 .. n : a[i] = t.got[i]
        BY <2>4, <3>2
      <3> HIDE DEF h, a
      <3>5. \A i \in 1 .. (n + 1) : i \in 1 .. n \/ i = n + 1
        OBVIOUS
      <3>6. /\ \A i \in 1 .. n : g[i] \in Nat /\ g[i] >= z /\ g[i] < q
            /\ \A i, j \in 1 .. n : i < j => g[i] < g[j]
            /\ \A i \in 1 .. n, p \in free \ {0} : g[i] < p
        BY <2>1, <2>8, <3>1, <3>2 DEF Rising
      <3>7. q >= z
        BY <2>1, <2>8 DEF Taken, free
      <3>8. ASSUME NEW i \in 1 .. (n + 1) PROVE h[i] >= z
        BY <3>3, <3>5, <3>6, <3>7
      <3>9. ASSUME NEW i \in 1 .. (n + 1), NEW j \in 1 .. (n + 1), i < j PROVE h[i] < h[j]
        <4>1. i \in 1 .. n
          BY <3>9
        <4> QED BY <3>3, <3>5, <3>6, <3>9, <4>1
      <3>10. ASSUME NEW i \in 1 .. (n + 1), NEW p \in (free \ {q}) \ {0} PROVE h[i] < p
        <4>1. p \in free /\ p # q /\ q <= p /\ p \in Nat
          <5>1. free \subseteq Nat
            BY DEF free, FreePages
          <5> QED BY <2>1, <5>1
        <4>2. q < p
          BY <2>1, <4>1
        <4> QED BY <3>3, <3>5, <3>6, <4>1, <4>2
      <3>11. Rising(h, z, n + 1, free \ {q})
        BY <3>3, <3>8, <3>9, <3>10 DEF Rising
      <3>12. ASSUME NEW i \in 1 .. (n + 1) PROVE a[i] = h[i] * PAGE_SIZE
        BY <2>3, <3>1, <3>3, <3>4, <3>5 DEF AddressesOf
      <3>13. AddressesOf(a, h, n + 1)
        BY <3>4, <3>12 DEF AddressesOf
      <3> QED BY <3>11, <3>13 DEF a
    <2> QED BY <2>2, <2>4, <2>5, <2>7, <2>8 DEF Taken, u
  <1> QED BY <1>1, <1>2, <1>3 DEF Taken

(* The recursive function of TakePages is one. *)
TakesFrom(f, base, n) == f = [i \in 0 .. n |-> IF i = 0 THEN base ELSE TakePage(f[i - 1])]

LEMMA TakenExists ==
  ASSUME NEW base, NEW n \in Nat
  PROVE  \E f : TakesFrom(f, base, n)
  <1> USE DEF TakesFrom
  <1> DEFINE Has(m) == \E f : TakesFrom(f, base, m)
             Bad == {m \in Nat : ~Has(m)}
  <1>1. Has(0)
    <2> DEFINE f == [i \in 0 .. 0 |-> base]
    <2>1. f = [i \in 0 .. 0 |-> IF i = 0 THEN base ELSE TakePage(f[i - 1])]
      OBVIOUS
    <2> HIDE DEF f
    <2> QED BY <2>1
  <1>2. ASSUME NEW m \in Nat, Has(m)
        PROVE  Has(m + 1)
    <2>1. PICK f : f = [i \in 0 .. m |-> IF i = 0 THEN base ELSE TakePage(f[i - 1])]
      BY <1>2
    <2> DEFINE g == [i \in 0 .. (m + 1) |-> IF i = m + 1 THEN TakePage(f[m]) ELSE f[i]]
    <2>2. ASSUME NEW i \in 0 .. (m + 1)
          PROVE  g[i] = IF i = 0 THEN base ELSE TakePage(g[i - 1])
      <3>1. CASE i = m + 1
        <4>1. g[i] = TakePage(f[m]) /\ g[i - 1] = f[m] /\ i # 0
          BY <3>1
        <4> QED BY <4>1
      <3>2. CASE i # m + 1
        <4>1. i \in 0 .. m
          BY <3>2
        <4>2. g[i] = f[i]
          BY <3>2
        <4>3. f[i] = IF i = 0 THEN base ELSE TakePage(f[i - 1])
          BY <2>1, <4>1
        <4>4. i # 0 => g[i - 1] = f[i - 1]
          BY <4>1
        <4> HIDE DEF g
        <4> QED BY <4>2, <4>3, <4>4
      <3> QED BY <3>1, <3>2
    <2>3. g = [i \in 0 .. (m + 1) |-> g[i]]
      OBVIOUS
    <2> HIDE DEF g
    <2>4. g = [i \in 0 .. (m + 1) |-> IF i = 0 THEN base ELSE TakePage(g[i - 1])]
      BY <2>2, <2>3
    <2> QED BY <2>4
  <1> HIDE DEF Has
  <1>3. Bad = {}
    <2> SUFFICES ASSUME Bad # {} PROVE FALSE
      OBVIOUS
    <2>1. PICK m \in Bad : \A y \in Bad : m <= y
      <3>1. Bad \in SUBSET Nat
        OBVIOUS
      <3> HIDE DEF Bad
      <3> QED BY <3>1, Least
    <2>2. m \in Nat /\ ~Has(m) /\ m # 0
      BY <1>1
    <2>3. m - 1 \in Nat /\ m - 1 \notin Bad
      BY <2>1, <2>2
    <2>4. Has(m - 1)
      BY <2>3
    <2>5. Has((m - 1) + 1)
      BY <1>2, <2>3, <2>4
    <2>6. (m - 1) + 1 = m
      BY <2>2
    <2> QED BY <2>2, <2>5, <2>6
  <1> QED BY <1>3 DEF Has

(* The pages of an expansion are in order. *)
LEMMA TakePagesTaken ==
  ASSUME NEW pm, IsBitmap(pm), NEW z \in Nat,
         \A p \in FreePages(pm) \ {0} : p >= z, NEW n \in Nat
  PROVE  Taken(TakePages(pm, n), z, n)
  <1> DEFINE base == [pm |-> pm, got |-> <<>>, failed |-> FALSE]
             f == CHOOSE g : TakesFrom(g, base, n)
             Bad == {m \in 0 .. n : ~Taken(f[m], z, m)}
  <1>1. TakePages(pm, n) = f[n]
    BY DEF TakePages, TakesFrom
  <1> HIDE DEF base
  <1>2. \E g : TakesFrom(g, base, n)
    BY TakenExists
  <1>3. TakesFrom(f, base, n)
    BY <1>2
  <1> HIDE DEF f
  <1>4. /\ f[0] = base
        /\ \A i \in 1 .. n : f[i] = TakePage(f[i - 1])
    BY <1>3 DEF TakesFrom
  <1>5. Taken(f[0], z, 0)
    <2>1. /\ base.pm = pm /\ base.got = <<>> /\ base.failed = FALSE
          /\ base = [pm |-> base.pm, got |-> base.got, failed |-> base.failed]
      BY DEF base
    <2>2. Rising(<<>>, z, 0, FreePages(pm)) /\ AddressesOf(<<>>, <<>>, 0)
      BY DEF Rising, AddressesOf
    <2> QED BY <1>4, <2>1, <2>2 DEF Taken
  <1>6. Bad = {}
    <2> SUFFICES ASSUME Bad # {} PROVE FALSE
      OBVIOUS
    <2>1. PICK m \in Bad : \A y \in Bad : m <= y
      <3>1. Bad \in SUBSET Nat
        OBVIOUS
      <3> HIDE DEF Bad
      <3> QED BY <3>1, Least
    <2>2. m \in 1 .. n /\ ~Taken(f[m], z, m)
      BY <1>5
    <2>3. m - 1 \in 0 .. n /\ m - 1 \notin Bad /\ m - 1 \in Nat /\ (m - 1) + 1 = m
      BY <2>1, <2>2
    <2>4. Taken(f[m - 1], z, m - 1)
      BY <2>3
    <2>5. Taken(TakePage(f[m - 1]), z, (m - 1) + 1)
      BY <2>3, <2>4, OneTurn
    <2> QED BY <1>4, <2>2, <2>3, <2>5
  <1> QED BY <1>1, <1>6
-------------------------------------------------------------------------------

(* Blocks that are laid without gaps are in order, from the first address  *)
(* to the last.                                                            *)
LEMMA BlockTypes ==
  ASSUME NEW bs \in Seq(Block), NEW k \in 1 .. Len(bs)
  PROVE  /\ bs[k] \in Block /\ bs[k].addr \in Nat /\ bs[k].size \in Nat /\ bs[k].is_free \in BOOLEAN
         /\ EndOf(bs[k]) \in Nat /\ EndOf(bs[k]) = bs[k].addr + 32 + bs[k].size
  <1>1. bs[k] \in Block
    OBVIOUS
  <1> QED BY <1>1 DEF Block, EndOf, BLOCK_HEADER_SIZE

LEMMA LaidNext ==
  ASSUME NEW bs, NEW first, NEW end, Laid(bs, first, end), NEW k \in 1 .. (Len(bs) - 1)
  PROVE  bs[k + 1].addr = EndOf(bs[k])
  BY DEF Laid

LEMMA LaidOrder ==
  ASSUME NEW bs \in Seq(Block), NEW first, NEW end, Laid(bs, first, end),
         NEW j \in 1 .. Len(bs), NEW k \in 1 .. Len(bs), j < k
  PROVE  EndOf(bs[j]) <= bs[k].addr
  <1> DEFINE Bad == {i \in 1 .. Len(bs) : j < i /\ ~(EndOf(bs[j]) <= bs[i].addr)}
  <1>1. Bad = {}
    <2> SUFFICES ASSUME Bad # {} PROVE FALSE
      OBVIOUS
    <2>1. PICK i \in Bad : \A y \in Bad : i <= y
      <3>1. Bad \in SUBSET Nat
        OBVIOUS
      <3> HIDE DEF Bad
      <3> QED BY <3>1, Least
    <2>2. i \in 2 .. Len(bs) /\ i - 1 \in 1 .. (Len(bs) - 1) /\ (i - 1) + 1 = i /\ j <= i - 1
      OBVIOUS
    <2>3. bs[i].addr = EndOf(bs[i - 1])
      BY <2>2, LaidNext
    <2>4. EndOf(bs[j]) <= bs[i - 1].addr \/ j = i - 1
      <3>1. i - 1 \notin Bad
        BY <2>1, <2>2
      <3> QED BY <2>2, <3>1
    <2>5. /\ bs[i - 1].addr \in Nat /\ EndOf(bs[i - 1]) \in Nat /\ bs[i].addr \in Nat
          /\ bs[i - 1].addr <= EndOf(bs[i - 1]) /\ EndOf(bs[j]) \in Nat
      <3>1. i - 1 \in 1 .. Len(bs) /\ i \in 1 .. Len(bs)
        BY <2>2
      <3> HIDE DEF Bad
      <3>2. /\ bs[i - 1].addr \in Nat /\ bs[i - 1].size \in Nat /\ EndOf(bs[i - 1]) \in Nat
            /\ EndOf(bs[i - 1]) = bs[i - 1].addr + 32 + bs[i - 1].size
        BY <3>1, BlockTypes
      <3>3. bs[i].addr \in Nat
        BY <3>1, BlockTypes
      <3>4. EndOf(bs[j]) \in Nat
        BY BlockTypes
      <3> QED BY <2>2, <3>2, <3>3, <3>4
    <2>6. ~(EndOf(bs[j]) <= bs[i].addr)
      BY <2>1
    <2>7. EndOf(bs[j]) <= bs[i].addr
      <3> HIDE DEF Bad
      <3>1. CASE j = i - 1
        BY <2>3, <2>5, <3>1
      <3>2. CASE EndOf(bs[j]) <= bs[i - 1].addr
        BY <2>3, <2>5, <3>2
      <3> QED BY <2>4, <3>1, <3>2
    <2> QED BY <2>6, <2>7
  <1> QED BY <1>1

LEMMA LaidWithin ==
  ASSUME NEW bs \in Seq(Block), NEW first \in Nat, NEW end \in Nat, Laid(bs, first, end),
         NEW k \in 1 .. Len(bs)
  PROVE  first <= bs[k].addr /\ EndOf(bs[k]) <= end
  <1> DEFINE n == Len(bs)
  <1>1. n \in Nat /\ 1 \in 1 .. n /\ n \in 1 .. n /\ bs # <<>>
    OBVIOUS
  <1>2. bs[1].addr = first /\ EndOf(bs[n]) = end
    BY <1>1 DEF Laid
  <1> HIDE DEF n
  <1>3. first <= bs[k].addr
    <2>1. CASE k = 1
      BY <1>2, <2>1
    <2>2. CASE k # 1
      <3>1. EndOf(bs[1]) <= bs[k].addr
        BY <1>1, <2>2, LaidOrder DEF n
      <3>2. /\ bs[1].addr \in Nat /\ bs[1].size \in Nat
            /\ EndOf(bs[1]) = bs[1].addr + 32 + bs[1].size
        BY <1>1, BlockTypes DEF n
      <3>3. bs[k].addr \in Nat
        BY BlockTypes
      <3> QED BY <1>2, <3>1, <3>2, <3>3
    <2> QED BY <2>1, <2>2
  <1>4. EndOf(bs[k]) <= end
    <2>1. CASE k = n
      BY <1>2, <2>1
    <2>2. CASE k # n
      <3>1. EndOf(bs[k]) <= bs[n].addr
        BY <1>1, <2>2, LaidOrder DEF n
      <3>2. /\ bs[n].addr \in Nat /\ bs[n].size \in Nat
            /\ EndOf(bs[n]) = bs[n].addr + 32 + bs[n].size
        BY <1>1, BlockTypes DEF n
      <3>3. EndOf(bs[k]) \in Nat
        BY BlockTypes
      <3> QED BY <1>2, <3>1, <3>2, <3>3
    <2> QED BY <2>1, <2>2
  <1> QED BY <1>3, <1>4

(* An address belongs to one block. *)
LEMMA OnePlace ==
  ASSUME NEW bs \in Seq(Block), NEW first, NEW end, Laid(bs, first, end),
         NEW j \in 1 .. Len(bs), NEW k \in 1 .. Len(bs), bs[j].addr = bs[k].addr
  PROVE  j = k
  <1>1. ASSUME NEW i \in 1 .. Len(bs), NEW l \in 1 .. Len(bs), i < l
        PROVE  bs[i].addr # bs[l].addr
    <2>1. EndOf(bs[i]) <= bs[l].addr
      BY <1>1, LaidOrder
    <2>2. /\ bs[i].addr \in Nat /\ bs[i].size \in Nat /\ bs[l].addr \in Nat
          /\ EndOf(bs[i]) = bs[i].addr + 32 + bs[i].size
      BY BlockTypes
    <2> QED BY <2>1, <2>2
  <1>2. j < k \/ k < j \/ j = k
    OBVIOUS
  <1> QED BY <1>1, <1>2

(* The bytes of blocks that are laid without gaps. *)
SumsOf(f, bs, n) ==
  f = [k \in 0 .. n |-> IF k = 0 THEN 0 ELSE f[k - 1] + BLOCK_HEADER_SIZE + bs[k].size]

LEMMA SumExists ==
  ASSUME NEW bs, NEW n \in Nat
  PROVE  \E f : SumsOf(f, bs, n)
  <1> USE DEF SumsOf
  <1> DEFINE Has(m) == \E f : SumsOf(f, bs, m)
             Bad == {m \in Nat : ~Has(m)}
  <1>1. Has(0)
    <2> DEFINE f == [i \in 0 .. 0 |-> 0]
    <2>1. f = [k \in 0 .. 0 |-> IF k = 0 THEN 0 ELSE f[k - 1] + BLOCK_HEADER_SIZE + bs[k].size]
      OBVIOUS
    <2> HIDE DEF f
    <2> QED BY <2>1
  <1>2. ASSUME NEW m \in Nat, Has(m)
        PROVE  Has(m + 1)
    <2>1. PICK f : SumsOf(f, bs, m)
      BY <1>2
    <2> DEFINE new == f[m] + BLOCK_HEADER_SIZE + bs[m + 1].size
               g == [i \in 0 .. (m + 1) |-> IF i = m + 1 THEN new ELSE f[i]]
    <2>2. ASSUME NEW i \in 0 .. (m + 1)
          PROVE  g[i] = IF i = 0 THEN 0 ELSE g[i - 1] + BLOCK_HEADER_SIZE + bs[i].size
      <3>1. CASE i = m + 1
        <4>1. g[i] = new /\ g[i - 1] = f[m] /\ i # 0
          BY <3>1
        <4> HIDE DEF g
        <4> QED BY <3>1, <4>1
      <3>2. CASE i # m + 1
        <4>1. i \in 0 .. m
          BY <3>2
        <4>2. g[i] = f[i]
          BY <3>2
        <4>3. f[i] = IF i = 0 THEN 0 ELSE f[i - 1] + BLOCK_HEADER_SIZE + bs[i].size
          BY <2>1, <4>1
        <4>4. i # 0 => g[i - 1] = f[i - 1]
          BY <4>1
        <4> HIDE DEF g
        <4> QED BY <4>2, <4>3, <4>4
      <3> QED BY <3>1, <3>2
    <2>3. g = [i \in 0 .. (m + 1) |-> g[i]]
      OBVIOUS
    <2> HIDE DEF g
    <2>4. g = [k \in 0 .. (m + 1) |->
                 IF k = 0 THEN 0 ELSE g[k - 1] + BLOCK_HEADER_SIZE + bs[k].size]
      BY <2>2, <2>3
    <2> QED BY <2>4
  <1> HIDE DEF Has
  <1>3. Bad = {}
    <2> SUFFICES ASSUME Bad # {} PROVE FALSE
      OBVIOUS
    <2>1. PICK m \in Bad : \A y \in Bad : m <= y
      <3>1. Bad \in SUBSET Nat
        OBVIOUS
      <3> HIDE DEF Bad
      <3> QED BY <3>1, Least
    <2>2. m \in Nat /\ ~Has(m) /\ m # 0
      BY <1>1
    <2>3. m - 1 \in Nat /\ m - 1 \notin Bad
      BY <2>1, <2>2
    <2>4. Has(m - 1)
      BY <2>3
    <2>5. Has((m - 1) + 1)
      BY <1>2, <2>3, <2>4
    <2>6. (m - 1) + 1 = m
      BY <2>2
    <2> QED BY <2>2, <2>5, <2>6
  <1> QED BY <1>3 DEF Has

LEMMA LaidBytes ==
  ASSUME NEW bs \in Seq(Block), NEW first \in Nat, NEW end \in Nat, Laid(bs, first, end)
  PROVE  BytesOf(bs) = end - first
  <1> DEFINE n == Len(bs)
             f == CHOOSE g : SumsOf(g, bs, n)
             Bad == {k \in 1 .. n : f[k] # EndOf(bs[k]) - first}
  <1>1. n \in Nat /\ BytesOf(bs) = f[n]
    BY DEF BytesOf, SumsOf
  <1>2. SumsOf(f, bs, n)
    <2>1. \E g : SumsOf(g, bs, n)
      BY <1>1, SumExists
    <2> QED BY <2>1
  <1> HIDE DEF f
  <1>3. /\ f[0] = 0
        /\ \A k \in 1 .. n : f[k] = f[k - 1] + 32 + bs[k].size
    BY <1>1, <1>2 DEF SumsOf, BLOCK_HEADER_SIZE
  <1>4. CASE n = 0
    <2>1. bs = <<>>
      BY <1>4
    <2> QED BY <1>1, <1>3, <1>4, <2>1 DEF Laid
  <1>5. CASE n # 0
    <2>1. bs # <<>> /\ 1 \in 1 .. n
      BY <1>1, <1>5
    <2>2. bs[1].addr = first /\ EndOf(bs[n]) = end
      BY <2>1 DEF Laid
    <2>3. \A k \in 1 .. n : /\ bs[k].addr \in Nat /\ bs[k].size \in Nat
                            /\ EndOf(bs[k]) = bs[k].addr + 32 + bs[k].size
      BY BlockTypes
    <2>4. \A k \in 1 .. (n - 1) : bs[k + 1].addr = EndOf(bs[k])
      BY LaidNext
    <2>5. Bad = {}
      <3> SUFFICES ASSUME Bad # {} PROVE FALSE
        OBVIOUS
      <3>1. PICK k \in Bad : \A y \in Bad : k <= y
        <4>1. Bad \in SUBSET Nat
          OBVIOUS
        <4> HIDE DEF Bad
        <4> QED BY <4>1, Least
      <3>2. k \in 1 .. n /\ f[k] # EndOf(bs[k]) - first
        OBVIOUS
      <3>3. k # 1 => k - 1 \in 1 .. n /\ f[k - 1] = EndOf(bs[k - 1]) - first
        <4>1. k # 1 => k - 1 \in 1 .. n /\ k - 1 \notin Bad
          BY <1>1, <3>1, <3>2
        <4> QED BY <4>1
      <3> HIDE DEF Bad, n
      <3>4. CASE k = 1
        <4>1. f[1] = 0 + 32 + bs[1].size
          BY <1>3, <2>1
        <4> QED BY <2>1, <2>2, <2>3, <3>2, <3>4, <4>1
      <3>5. CASE k # 1
        <4>1. f[k] = (EndOf(bs[k - 1]) - first) + 32 + bs[k].size
          BY <1>3, <3>2, <3>3, <3>5
        <4>2. bs[k].addr = EndOf(bs[k - 1])
          <5>1. k - 1 \in 1 .. (n - 1) /\ (k - 1) + 1 = k
            BY <1>1, <3>2, <3>5
          <5> QED BY <2>4, <5>1
        <4>3. bs[k - 1].addr \in Nat /\ EndOf(bs[k - 1]) \in Nat
          BY <2>3, <3>3, <3>5
        <4> QED BY <2>3, <3>2, <4>1, <4>2, <4>3
      <3> QED BY <3>4, <3>5
    <2>6. f[n] = EndOf(bs[n]) - first
      <3>1. n \in 1 .. n /\ n \notin Bad
        BY <1>1, <1>5, <2>5
      <3> QED BY <3>1
    <2> QED BY <1>1, <2>2, <2>6
  <1> QED BY <1>4, <1>5
-------------------------------------------------------------------------------

(* Inserting behind, and removing behind, the k-th element of a sequence. *)
Inserted(t, s, k, e) ==
  /\ Len(t) = Len(s) + 1
  /\ \A j \in 1 .. k : t[j] = s[j]
  /\ t[k + 1] = e
  /\ \A j \in (k + 2) .. (Len(s) + 1) : t[j] = s[j - 1]

Removed(t, s, k) ==
  /\ Len(t) = Len(s) - 1
  /\ \A j \in 1 .. k : t[j] = s[j]
  /\ \A j \in (k + 1) .. (Len(s) - 1) : t[j] = s[j + 1]

LEMMA InsertShape ==
  ASSUME NEW S, NEW s \in Seq(S), NEW k \in 1 .. Len(s), NEW e \in S
  PROVE  /\ InsertAt(s, k + 1, e) \in Seq(S)
         /\ Inserted(InsertAt(s, k + 1, e), s, k, e)
  <1> DEFINE n == Len(s)
             left == SubSeq(s, 1, k)
             right == SubSeq(s, k + 1, n)
             front == left \o <<e>>
             t == InsertAt(s, k + 1, e)
  <1>1. n \in Nat /\ k \in 1 .. n /\ k \in Nat
    OBVIOUS
  <1>2. (k + 1) - 1 = k
    BY <1>1
  <1>3. t = front \o right
    BY <1>2 DEF InsertAt
  <1> HIDE DEF t
  <1>4. left \in Seq(S) /\ Len(left) = k /\ \A j \in 1 .. k : left[j] = s[j]
    BY <1>1
  <1>5. /\ right \in Seq(S) /\ Len(right) = n - k
        /\ \A j \in 1 .. (n - k) : right[j] = s[k + j]
    BY <1>1
  <1> HIDE DEF left, right
  <1>6. /\ front \in Seq(S) /\ Len(front) = k + 1
        /\ \A j \in 1 .. k : front[j] = left[j]
        /\ front[k + 1] = e
    BY <1>1, <1>4
  <1> HIDE DEF front, n
  <1>7. t \in Seq(S) /\ Len(t) = (k + 1) + (n - k)
    <2>1. t \in Seq(S) /\ Len(t) = Len(front) + Len(right)
      BY <1>3, <1>5, <1>6, ConcatProperties
    <2> QED BY <1>5, <1>6, <2>1
  <1>8. \A j \in 1 .. (k + 1) : t[j] = front[j]
    BY <1>1, <1>3, <1>5, <1>6
  <1>9. ASSUME NEW j \in (k + 2) .. (n + 1)
        PROVE  t[j] = right[j - (k + 1)]
    <2>1. j \in 1 .. ((k + 1) + (n - k)) /\ ~(j <= k + 1)
      BY <1>1
    <2>2. t[j] = IF j <= Len(front) THEN front[j] ELSE right[j - Len(front)]
      BY <1>3, <1>5, <1>6, <2>1, ConcatProperties
    <2> QED BY <1>6, <2>1, <2>2
  <1>10. ASSUME NEW j \in (k + 2) .. (n + 1)
         PROVE  t[j] = s[j - 1]
    <2> DEFINE i == j - (k + 1)
    <2>1. i \in 1 .. (n - k) /\ k + i = j - 1
      BY <1>1
    <2>2. t[j] = right[i]
      BY <1>9
    <2> HIDE DEF i
    <2> QED BY <1>5, <2>1, <2>2
  <1>11. Len(t) = n + 1
    BY <1>1, <1>7
  <1>12. \A j \in 1 .. k : t[j] = s[j]
    BY <1>1, <1>4, <1>6, <1>8
  <1>13. t[k + 1] = e
    BY <1>1, <1>6, <1>8
  <1> QED BY <1>7, <1>10, <1>11, <1>12, <1>13 DEF n, t, Inserted

LEMMA RemoveShape ==
  ASSUME NEW S, NEW s \in Seq(S), NEW k \in 1 .. (Len(s) - 1)
  PROVE  /\ RemoveAt(s, k + 1) \in Seq(S)
         /\ Removed(RemoveAt(s, k + 1), s, k)
  <1> DEFINE n == Len(s)
             left == SubSeq(s, 1, k)
             right == SubSeq(s, k + 2, n)
             t == RemoveAt(s, k + 1)
  <1>1. n \in Nat /\ k \in 1 .. n /\ k \in Nat /\ k < n
    OBVIOUS
  <1>2. (k + 1) - 1 = k /\ (k + 1) + 1 = k + 2
    BY <1>1
  <1>3. t = left \o right
    BY <1>2 DEF RemoveAt
  <1> HIDE DEF t
  <1>4. left \in Seq(S) /\ Len(left) = k /\ \A j \in 1 .. k : left[j] = s[j]
    BY <1>1
  <1>5. /\ right \in Seq(S) /\ Len(right) = n - k - 1
        /\ \A j \in 1 .. (n - k - 1) : right[j] = s[k + 1 + j]
    BY <1>1
  <1> HIDE DEF left, right, n
  <1>6. t \in Seq(S) /\ Len(t) = k + (n - k - 1)
    BY <1>3, <1>4, <1>5, ConcatProperties
  <1>7. Len(t) = n - 1
    BY <1>1, <1>6
  <1>8. \A j \in 1 .. k : t[j] = s[j]
    BY <1>1, <1>3, <1>4, <1>5
  <1>9. \A j \in (k + 1) .. (n - 1) : t[j] = right[j - k]
    BY <1>1, <1>3, <1>4, <1>5
  <1>10. ASSUME NEW j \in (k + 1) .. (n - 1)
         PROVE  t[j] = s[j + 1]
    <2> DEFINE i == j - k
    <2>1. i \in 1 .. (n - k - 1) /\ k + 1 + i = j + 1
      BY <1>1
    <2>2. t[j] = right[i]
      BY <1>9
    <2> HIDE DEF i
    <2> QED BY <1>5, <2>1, <2>2
  <1> QED BY <1>6, <1>7, <1>8, <1>10 DEF n, t, Removed

(* A block that is marked. *)
LEMMA MarkedBlock ==
  ASSUME NEW b \in Block, NEW f \in BOOLEAN
  PROVE  [b EXCEPT !.is_free = f] = [addr |-> b.addr, size |-> b.size, is_free |-> f]
  <1> DEFINE u == [b EXCEPT !.is_free = f]
             v == [addr |-> b.addr, size |-> b.size, is_free |-> f]
  <1>1. b \in [{"addr", "size", "is_free"} -> Nat \union BOOLEAN]
    BY DEF Block
  <1>2. DOMAIN u = {"addr", "size", "is_free"} /\ DOMAIN v = {"addr", "size", "is_free"}
    BY <1>1
  <1>3. u["addr"] = v["addr"] /\ u["size"] = v["size"] /\ u["is_free"] = v["is_free"]
    BY <1>1
  <1> QED BY <1>2, <1>3

LEMMA ResizedBlock ==
  ASSUME NEW b \in Block, NEW n \in Nat
  PROVE  [b EXCEPT !.size = n] = [addr |-> b.addr, size |-> n, is_free |-> b.is_free]
  <1> DEFINE u == [b EXCEPT !.size = n]
             v == [addr |-> b.addr, size |-> n, is_free |-> b.is_free]
  <1>1. b \in [{"addr", "size", "is_free"} -> Nat \union BOOLEAN]
    BY DEF Block
  <1>2. DOMAIN u = {"addr", "size", "is_free"} /\ DOMAIN v = {"addr", "size", "is_free"}
    BY <1>1
  <1>3. u["addr"] = v["addr"] /\ u["size"] = v["size"] /\ u["is_free"] = v["is_free"]
    BY <1>1
  <1> QED BY <1>2, <1>3

(* A list whose k-th block alone differs, in its size or in whether it is free. *)
LEMMA ChangeShape ==
  ASSUME NEW bs \in Seq(Block), NEW k \in 1 .. Len(bs), NEW b \in Block, NEW t,
         t = [bs EXCEPT ![k] = b]
  PROVE  /\ t \in Seq(Block) /\ Len(t) = Len(bs) /\ t[k] = b
         /\ \A j \in 1 .. Len(bs) : j # k => t[j] = bs[j]
  OBVIOUS

(* Block k is handed out. *)
HandedOut(bs, k, size) == [Split(bs, k, size) EXCEPT ![k].is_free = FALSE]

(* What split_block leaves: the block itself, or the block cut to size and *)
(* a free block of the rest behind it.                                     *)
Marked(t, bs, k) ==
  /\ Len(t) = Len(bs)
  /\ t[k] = [addr |-> bs[k].addr, size |-> bs[k].size, is_free |-> FALSE]
  /\ \A j \in (k + 1) .. Len(bs) : t[j] = bs[j]

Cut(t, bs, k, size) ==
  /\ Len(t) = Len(bs) + 1
  /\ t[k] = [addr |-> bs[k].addr, size |-> size, is_free |-> FALSE]
  /\ \E rest \in Nat :
       /\ bs[k].size = size + 32 + rest
       /\ t[k + 1] = [addr |-> bs[k].addr + 32 + size, size |-> rest, is_free |-> TRUE]
  /\ \A j \in (k + 2) .. (Len(bs) + 1) : t[j] = bs[j - 1]

LEMMA HandedOutShape ==
  ASSUME NEW bs \in Seq(Block), NEW k \in 1 .. Len(bs), NEW size \in Nat, bs[k].size >= size
  PROVE  /\ HandedOut(bs, k, size) \in Seq(Block)
         /\ \A j \in 1 .. (k - 1) : HandedOut(bs, k, size)[j] = bs[j]
         /\ \/ Marked(HandedOut(bs, k, size), bs, k)
            \/ Cut(HandedOut(bs, k, size), bs, k, size)
  <1> DEFINE t == HandedOut(bs, k, size)
  <1>1. /\ bs[k] \in Block /\ bs[k].addr \in Nat /\ bs[k].size \in Nat
        /\ bs[k] = [addr |-> bs[k].addr, size |-> bs[k].size, is_free |-> bs[k].is_free]
        /\ bs[k].is_free \in BOOLEAN
    BY BlockTypes DEF Block
  <1>2. CASE bs[k].size < size + BLOCK_HEADER_SIZE + MIN_BLOCK_SIZE
    <2> DEFINE b == [addr |-> bs[k].addr, size |-> bs[k].size, is_free |-> FALSE]
    <2>1. t = [bs EXCEPT ![k].is_free = FALSE]
      BY <1>2 DEF HandedOut, Split
    <2>2. t = [bs EXCEPT ![k] = b]
      BY <1>1, <2>1
    <2>3. b \in Block
      BY <1>1 DEF Block
    <2> HIDE DEF b
    <2>4. /\ t \in Seq(Block) /\ Len(t) = Len(bs) /\ t[k] = b
          /\ \A j \in 1 .. Len(bs) : j # k => t[j] = bs[j]
      BY <2>2, <2>3, ChangeShape
    <2>5. \A j \in 1 .. (k - 1) : t[j] = bs[j]
      BY <2>4
    <2> HIDE DEF t
    <2> QED BY <2>4, <2>5 DEF b, Marked, t
  <1>3. CASE ~(bs[k].size < size + BLOCK_HEADER_SIZE + MIN_BLOCK_SIZE)
    <2> DEFINE cut == [addr |-> bs[k].addr, size |-> size, is_free |-> bs[k].is_free]
               rest == bs[k].size - size - 32
               behind == [addr |-> bs[k].addr + 32 + size, size |-> rest, is_free |-> TRUE]
               cs == [bs EXCEPT ![k] = cut]
               split == InsertAt(cs, k + 1, behind)
               b == [addr |-> bs[k].addr, size |-> size, is_free |-> FALSE]
    <2>1. rest \in Nat /\ bs[k].size = size + 32 + rest
      BY <1>1, <1>3 DEF BLOCK_HEADER_SIZE, MIN_BLOCK_SIZE
    <2>2. [bs EXCEPT ![k].size = size] = cs
      <3>1. cut = [bs[k] EXCEPT !.size = size]
        BY <1>1
      <3>2. [bs EXCEPT ![k].size = size] = [bs EXCEPT ![k] = [bs[k] EXCEPT !.size = size]]
        OBVIOUS
      <3> HIDE DEF cut
      <3> QED BY <3>1, <3>2
    <2>3. Split(bs, k, size) = split
      BY <1>3, <2>2 DEF Split, BLOCK_HEADER_SIZE
    <2>4. cut \in Block /\ behind \in Block /\ b \in Block
      <3>1. cut \in Block
        BY <1>1 DEF Block
      <3>2. behind \in Block
        <4>1. bs[k].addr + 32 + size \in Nat
          BY <1>1
        <4> HIDE DEF rest
        <4> QED BY <2>1, <4>1 DEF Block
      <3>3. b \in Block
        BY <1>1 DEF Block
      <3> QED BY <3>1, <3>2, <3>3
    <2>5. /\ cs \in Seq(Block) /\ Len(cs) = Len(bs) /\ cs[k] = cut
          /\ \A j \in 1 .. Len(bs) : j # k => cs[j] = bs[j]
      BY <2>4, ChangeShape
    <2> HIDE DEF cs, behind, rest
    <2>6. /\ split \in Seq(Block) /\ Len(split) = Len(cs) + 1
          /\ \A j \in 1 .. k : split[j] = cs[j]
          /\ split[k + 1] = behind
          /\ \A j \in (k + 2) .. (Len(cs) + 1) : split[j] = cs[j - 1]
      <3>1. k \in 1 .. Len(cs) /\ cs \in Seq(Block) /\ behind \in Block
        BY <2>4, <2>5
      <3>2. split \in Seq(Block) /\ Inserted(split, cs, k, behind)
        BY <3>1, InsertShape
      <3> QED BY <3>2 DEF Inserted
    <2> HIDE DEF split
    <2>7. k \in 1 .. Len(split) /\ split[k] = cut
      BY <2>5, <2>6
    <2>8. t = [split EXCEPT ![k] = b]
      <3>1. t = [split EXCEPT ![k].is_free = FALSE]
        BY <2>3 DEF HandedOut
      <3>2. b = [cut EXCEPT !.is_free = FALSE]
        <4>1. cut.addr = bs[k].addr /\ cut.size = size
          OBVIOUS
        <4> HIDE DEF cut
        <4>2. [cut EXCEPT !.is_free = FALSE]
                = [addr |-> cut.addr, size |-> cut.size, is_free |-> FALSE]
          BY <2>4, MarkedBlock
        <4> QED BY <4>1, <4>2
      <3>3. [split EXCEPT ![k].is_free = FALSE] = [split EXCEPT ![k] = [split[k] EXCEPT !.is_free = FALSE]]
        OBVIOUS
      <3> HIDE DEF b, cut
      <3> QED BY <2>7, <3>1, <3>2, <3>3
    <2> HIDE DEF b, cut
    <2>9. /\ t \in Seq(Block) /\ Len(t) = Len(split) /\ t[k] = b
          /\ \A j \in 1 .. Len(split) : j # k => t[j] = split[j]
      BY <2>4, <2>6, <2>7, <2>8, ChangeShape
    <2>10. \A j \in 1 .. (k - 1) : t[j] = bs[j]
      BY <2>5, <2>6, <2>9
    <2>11. t[k + 1] = behind
      BY <2>5, <2>6, <2>9
    <2>12. ASSUME NEW j \in (k + 2) .. (Len(bs) + 1)
           PROVE  t[j] = bs[j - 1]
      <3>1. j \in 1 .. Len(split) /\ j # k /\ j - 1 \in 1 .. Len(bs) /\ j - 1 # k
        BY <2>5, <2>6
      <3>2. t[j] = split[j] /\ split[j] = cs[j - 1] /\ cs[j - 1] = bs[j - 1]
        BY <2>5, <2>6, <2>9, <3>1
      <3> QED BY <3>2
    <2>13. Len(t) = Len(bs) + 1
      BY <2>5, <2>6, <2>9
    <2> HIDE DEF t
    <2>14. Cut(t, bs, k, size)
      BY <2>1, <2>9, <2>11, <2>12, <2>13 DEF b, behind, Cut
    <2> QED BY <2>9, <2>10, <2>14 DEF t
  <1> QED BY <1>2, <1>3

(* A block is handed out: the blocks still tile the heap ... *)
LEMMA HandOutLaid ==
  ASSUME NEW bs \in Seq(Block), NEW k \in 1 .. Len(bs), NEW size \in Nat, bs[k].size >= size,
         NEW first, NEW end, Laid(bs, first, end)
  PROVE  /\ HandedOut(bs, k, size) \in Seq(Block) /\ HandedOut(bs, k, size) # <<>>
         /\ Laid(HandedOut(bs, k, size), first, end)
  <1> DEFINE t == HandedOut(bs, k, size)
             n == Len(bs)
  <1>1. /\ bs[k].addr \in Nat /\ bs[k].size \in Nat /\ n \in Nat /\ k \in 1 .. n
        /\ EndOf(bs[k]) = bs[k].addr + 32 + bs[k].size
    BY BlockTypes
  <1>2. t \in Seq(Block) /\ \A j \in 1 .. (k - 1) : t[j] = bs[j]
    BY HandedOutShape
  <1>3. bs # <<>> /\ bs[1].addr = first /\ EndOf(bs[n]) = end
    BY <1>1 DEF Laid
  <1>4. \A j \in 1 .. (n - 1) : bs[j + 1].addr = EndOf(bs[j])
    BY LaidNext
  <1>5. CASE Marked(t, bs, k)
    <2>0. /\ Len(t) = n
          /\ t[k] = [addr |-> bs[k].addr, size |-> bs[k].size, is_free |-> FALSE]
          /\ \A j \in (k + 1) .. n : t[j] = bs[j]
      BY <1>5 DEF Marked
    <2> HIDE DEF t, n
    <2>1. t[k].addr = bs[k].addr /\ EndOf(t[k]) = EndOf(bs[k])
      BY <1>1, <2>0 DEF EndOf, BLOCK_HEADER_SIZE
    <2>2. ASSUME NEW j \in 1 .. n
          PROVE  t[j].addr = bs[j].addr /\ EndOf(t[j]) = EndOf(bs[j])
      <3>1. j \in 1 .. (k - 1) \/ j = k \/ j \in (k + 1) .. n
        BY <1>1
      <3> QED BY <1>2, <2>0, <2>1, <3>1
    <2>3. t # <<>> /\ 1 \in 1 .. n /\ n \in 1 .. n
      BY <1>1, <1>2, <2>0
    <2>4. t[1].addr = first /\ EndOf(t[n]) = end
      BY <1>3, <2>2, <2>3
    <2>5. ASSUME NEW j \in 1 .. (n - 1)
          PROVE  t[j + 1].addr = EndOf(t[j])
      <3>1. j \in 1 .. n /\ j + 1 \in 1 .. n
        BY <1>1
      <3> QED BY <1>4, <2>2, <3>1
    <2>6. Laid(t, first, end)
      BY <2>0, <2>3, <2>4, <2>5 DEF Laid
    <2> QED BY <1>2, <2>3, <2>6 DEF t
  <1>6. CASE Cut(t, bs, k, size)
    <2>0. /\ Len(t) = n + 1
          /\ t[k] = [addr |-> bs[k].addr, size |-> size, is_free |-> FALSE]
          /\ \E rest \in Nat :
               /\ bs[k].size = size + 32 + rest
               /\ t[k + 1] = [addr |-> bs[k].addr + 32 + size, size |-> rest, is_free |-> TRUE]
          /\ \A i \in (k + 2) .. (n + 1) : t[i] = bs[i - 1]
      BY <1>6 DEF Cut
    <2>1. PICK rest \in Nat :
            /\ bs[k].size = size + 32 + rest
            /\ t[k + 1] = [addr |-> bs[k].addr + 32 + size, size |-> rest, is_free |-> TRUE]
      BY <2>0
    <2> HIDE DEF t, n
    <2>2. /\ t[k].addr = bs[k].addr /\ EndOf(t[k]) = bs[k].addr + 32 + size
          /\ t[k + 1].addr = bs[k].addr + 32 + size
          /\ EndOf(t[k + 1]) = EndOf(bs[k])
      BY <1>1, <2>0, <2>1 DEF EndOf, BLOCK_HEADER_SIZE
    <2>3. ASSUME NEW j \in 1 .. k
          PROVE  t[j].addr = bs[j].addr
      <3>1. j \in 1 .. (k - 1) \/ j = k
        BY <1>1
      <3> QED BY <1>2, <2>2, <3>1
    <2>4. ASSUME NEW j \in (k + 1) .. (n + 1)
          PROVE  EndOf(t[j]) = EndOf(bs[j - 1])
      <3>1. CASE j = k + 1
        <4>1. j - 1 = k
          BY <1>1, <3>1
        <4> QED BY <2>2, <3>1, <4>1
      <3>2. CASE j # k + 1
        <4>1. j \in (k + 2) .. (n + 1)
          BY <1>1, <3>2
        <4> QED BY <2>0, <4>1
      <3> QED BY <3>1, <3>2
    <2>5. t # <<>> /\ t[1].addr = first
      <3>1. 1 \in 1 .. k
        BY <1>1
      <3> QED BY <1>1, <1>3, <2>0, <2>3, <3>1
    <2>6. EndOf(t[n + 1]) = end
      <3>1. n + 1 \in (k + 1) .. (n + 1) /\ (n + 1) - 1 = n
        BY <1>1
      <3>2. EndOf(t[n + 1]) = EndOf(bs[(n + 1) - 1])
        BY <2>4, <3>1
      <3> QED BY <1>3, <3>1, <3>2
    <2>7. ASSUME NEW j \in 1 .. n
          PROVE  t[j + 1].addr = EndOf(t[j])
      <3>1. CASE j \in 1 .. (k - 1)
        <4>1. j + 1 \in 1 .. k /\ j \in 1 .. (n - 1)
          BY <1>1, <3>1
        <4>2. t[j + 1].addr = bs[j + 1].addr
          BY <2>3, <4>1
        <4> QED BY <1>2, <1>4, <3>1, <4>1, <4>2
      <3>2. CASE j = k
        BY <2>2, <3>2
      <3>3. CASE j \in (k + 1) .. n
        <4>1. j + 1 \in (k + 2) .. (n + 1) /\ (j + 1) - 1 = j /\ j \in (k + 1) .. (n + 1)
          BY <1>1, <3>3
        <4>2. t[j + 1] = bs[j]
          BY <2>0, <4>1
        <4>3. EndOf(t[j]) = EndOf(bs[j - 1])
          BY <2>4, <4>1
        <4>4. j - 1 \in 1 .. (n - 1) /\ (j - 1) + 1 = j
          BY <1>1, <3>3
        <4>5. bs[j].addr = EndOf(bs[j - 1])
          BY <1>4, <4>4
        <4> QED BY <4>2, <4>3, <4>5
      <3>4. j \in 1 .. (k - 1) \/ j = k \/ j \in (k + 1) .. n
        BY <1>1
      <3> QED BY <3>1, <3>2, <3>3, <3>4
    <2>8. (n + 1) - 1 = n
      BY <1>1
    <2>9. Laid(t, first, end)
      BY <2>0, <2>5, <2>6, <2>7, <2>8 DEF Laid
    <2> QED BY <1>2, <2>5, <2>9 DEF t
  <1>7. Marked(t, bs, k) \/ Cut(t, bs, k, size)
    BY HandedOutShape
  <1> QED BY <1>5, <1>6, <1>7

(* ... free blocks that follow each other did so before, and not just      *)
(* before the one handed out ...                                           *)
LEMMA HandOutPairs ==
  ASSUME NEW bs \in Seq(Block), NEW k \in 1 .. Len(bs), NEW size \in Nat, bs[k].size >= size,
         bs[k].is_free, NEW C, bs[k].addr \notin C,
         \A j \in 1 .. (Len(bs) - 1) :
           bs[j].is_free /\ bs[j + 1].is_free =>
             j + 1 = k \/ bs[j].addr \in C \/ bs[j + 1].addr \in C
  PROVE  PairsIn(HandedOut(bs, k, size), C)
  <1> DEFINE t == HandedOut(bs, k, size)
             n == Len(bs)
  <1> SUFFICES ASSUME NEW j \in 1 .. (Len(t) - 1), t[j].is_free, t[j + 1].is_free
               PROVE  t[j].addr \in C \/ t[j + 1].addr \in C
    BY DEF PairsIn
  <1>1. n \in Nat /\ k \in 1 .. n
    OBVIOUS
  <1>2. \A i \in 1 .. (k - 1) : t[i] = bs[i]
    BY HandedOutShape
  <1>3. ASSUME NEW i \in 1 .. (n - 1), bs[i].is_free, bs[i + 1].is_free
        PROVE  i + 1 = k \/ bs[i].addr \in C \/ bs[i + 1].addr \in C
    BY <1>3
  <1>4. CASE Marked(t, bs, k)
    <2>0. /\ Len(t) = n
          /\ t[k] = [addr |-> bs[k].addr, size |-> bs[k].size, is_free |-> FALSE]
          /\ \A i \in (k + 1) .. n : t[i] = bs[i]
      BY <1>4 DEF Marked
    <2> HIDE DEF t, n
    <2>1. ~t[k].is_free
      BY <2>0
    <2>2. j # k /\ j + 1 # k /\ j \in 1 .. (n - 1)
      BY <2>0, <2>1
    <2>3. t[j] = bs[j] /\ t[j + 1] = bs[j + 1]
      <3>1. (j \in 1 .. (k - 1) /\ j + 1 \in 1 .. (k - 1))
              \/ (j \in (k + 1) .. n /\ j + 1 \in (k + 1) .. n)
        BY <1>1, <2>2
      <3> QED BY <1>2, <2>0, <3>1
    <2> QED BY <1>3, <2>2, <2>3
  <1>5. CASE Cut(t, bs, k, size)
    <2>0. /\ Len(t) = n + 1
          /\ t[k] = [addr |-> bs[k].addr, size |-> size, is_free |-> FALSE]
          /\ \E rest \in Nat :
               /\ bs[k].size = size + 32 + rest
               /\ t[k + 1] = [addr |-> bs[k].addr + 32 + size, size |-> rest, is_free |-> TRUE]
          /\ \A i \in (k + 2) .. (n + 1) : t[i] = bs[i - 1]
      BY <1>5 DEF Cut
    <2> HIDE DEF t, n
    <2>1. ~t[k].is_free
      BY <2>0
    <2>2. j # k /\ j + 1 # k /\ j \in 1 .. n
      BY <1>1, <2>0, <2>1
    <2>3. CASE j < k
      <3>1. j \in 1 .. (k - 1) /\ j + 1 \in 1 .. (k - 1) /\ j \in 1 .. (n - 1)
        BY <1>1, <2>2, <2>3
      <3>2. t[j] = bs[j] /\ t[j + 1] = bs[j + 1]
        BY <1>2, <3>1
      <3> QED BY <1>3, <2>2, <3>1, <3>2
    <2>4. CASE j = k + 1
      <3>1. k + 2 \in (k + 2) .. (n + 1) /\ (k + 2) - 1 = k + 1 /\ j + 1 = k + 2 /\ k \in 1 .. (n - 1)
        BY <1>1, <2>2, <2>4
      <3>2. t[j + 1] = bs[k + 1]
        BY <2>0, <3>1
      <3>3. k + 1 = k \/ bs[k].addr \in C \/ bs[k + 1].addr \in C
        BY <1>3, <3>1, <3>2
      <3> QED BY <1>1, <3>2, <3>3
    <2>5. CASE j > k + 1
      <3> DEFINE i == j - 1
      <3>1. /\ j \in (k + 2) .. (n + 1) /\ j + 1 \in (k + 2) .. (n + 1)
            /\ (j + 1) - 1 = i + 1 /\ i \in 1 .. (n - 1) /\ i + 1 # k
        BY <1>1, <2>2, <2>5
      <3>2. t[j] = bs[i] /\ t[j + 1] = bs[(j + 1) - 1]
        BY <2>0, <3>1
      <3> HIDE DEF i
      <3>3. t[j + 1] = bs[i + 1]
        BY <3>1, <3>2
      <3> QED BY <1>3, <3>1, <3>2, <3>3
    <2>6. j < k \/ j = k + 1 \/ j > k + 1
      BY <1>1, <2>2
    <2> QED BY <2>3, <2>4, <2>5, <2>6
  <1>6. Marked(t, bs, k) \/ Cut(t, bs, k, size)
    BY HandedOutShape
  <1> QED BY <1>4, <1>5, <1>6

LEMMA UsedMember ==
  ASSUME NEW bs \in Seq(Block), NEW b
  PROVE  b \in Used(bs) <=> \E k \in 1 .. Len(bs) : ~bs[k].is_free /\ b = bs[k]
  <1>1. DOMAIN bs = 1 .. Len(bs)
    OBVIOUS
  <1> QED BY <1>1 DEF Used

(* ... and one more block is in use, large enough. *)
LEMMA HandOutUsed ==
  ASSUME NEW bs \in Seq(Block), NEW k \in 1 .. Len(bs), NEW size \in Nat, bs[k].size >= size,
         bs[k].is_free
  PROVE  \E b \in Block :
           /\ b.addr = bs[k].addr /\ b.size >= size
           /\ Used(HandedOut(bs, k, size)) = Used(bs) \union {b}
  <1> DEFINE t == HandedOut(bs, k, size)
             n == Len(bs)
             b == t[k]
  <1>1. n \in Nat /\ k \in 1 .. n /\ bs[k].size \in Nat /\ bs[k].addr \in Nat
    BY BlockTypes
  <1>2. t \in Seq(Block) /\ \A i \in 1 .. (k - 1) : t[i] = bs[i]
    BY HandedOutShape
  <1>3. \A x : x \in Used(bs) <=> \E i \in 1 .. n : ~bs[i].is_free /\ x = bs[i]
    BY UsedMember
  <1>4. \A x : x \in Used(t) <=> \E i \in 1 .. Len(t) : ~t[i].is_free /\ x = t[i]
    BY <1>2, UsedMember
  <1>5. CASE Marked(t, bs, k)
    <2>0. /\ Len(t) = n
          /\ t[k] = [addr |-> bs[k].addr, size |-> bs[k].size, is_free |-> FALSE]
          /\ \A j \in (k + 1) .. n : t[j] = bs[j]
      BY <1>5 DEF Marked
    <2> HIDE DEF t, n
    <2>1. b.addr = bs[k].addr /\ b.size = bs[k].size /\ ~b.is_free /\ b \in Block
      BY <1>1, <2>0 DEF Block
    <2>2. \A i \in 1 .. n : i # k => t[i] = bs[i]
      <3>1. \A i \in 1 .. n : i # k => i \in 1 .. (k - 1) \/ i \in (k + 1) .. n
        BY <1>1
      <3> QED BY <1>2, <2>0, <3>1
    <2>3. ASSUME NEW x \in Used(t) PROVE x \in Used(bs) \union {b}
      <3>1. PICK i \in 1 .. n : ~t[i].is_free /\ x = t[i]
        BY <1>4, <2>0
      <3> QED BY <1>3, <2>2, <3>1
    <2>4. ASSUME NEW x \in Used(bs) PROVE x \in Used(t)
      <3>1. PICK i \in 1 .. n : ~bs[i].is_free /\ x = bs[i]
        BY <1>3
      <3>2. i # k
        BY <3>1
      <3> QED BY <1>4, <2>0, <2>2, <3>1, <3>2
    <2>5. b \in Used(t)
      BY <1>1, <1>4, <2>0, <2>1
    <2>6. Used(t) = Used(bs) \union {b}
      BY <2>3, <2>4, <2>5
    <2>7. b.size >= size
      BY <2>1
    <2> QED BY <2>1, <2>6, <2>7 DEF t
  <1>6. CASE Cut(t, bs, k, size)
    <2>0. /\ Len(t) = n + 1
          /\ t[k] = [addr |-> bs[k].addr, size |-> size, is_free |-> FALSE]
          /\ t[k + 1].is_free
          /\ \A i \in (k + 2) .. (n + 1) : t[i] = bs[i - 1]
      <3>1. PICK rest \in Nat :
              t[k + 1] = [addr |-> bs[k].addr + 32 + size, size |-> rest, is_free |-> TRUE]
        BY <1>6 DEF Cut
      <3> HIDE DEF t
      <3>2. t[k + 1].is_free
        BY <3>1
      <3> QED BY <1>6, <3>2 DEF Cut
    <2> HIDE DEF t, n
    <2>1. b.addr = bs[k].addr /\ b.size = size /\ ~b.is_free /\ b \in Block
      BY <1>1, <2>0 DEF Block
    <2>3. ASSUME NEW x \in Used(t) PROVE x \in Used(bs) \union {b}
      <3>1. PICK i \in 1 .. (n + 1) : ~t[i].is_free /\ x = t[i]
        BY <1>4, <2>0
      <3>2. i \in 1 .. (k - 1) \/ i = k \/ i \in (k + 2) .. (n + 1)
        <4>1. i # k + 1
          BY <2>0, <3>1
        <4> QED BY <1>1, <4>1
      <3>3. CASE i \in 1 .. (k - 1)
        <4>1. i \in 1 .. n
          BY <1>1, <3>3
        <4> QED BY <1>2, <1>3, <3>1, <3>3, <4>1
      <3>4. CASE i = k
        BY <3>1, <3>4
      <3>5. CASE i \in (k + 2) .. (n + 1)
        <4>1. i - 1 \in 1 .. n /\ t[i] = bs[i - 1]
          BY <1>1, <2>0, <3>5
        <4> QED BY <1>3, <3>1, <4>1
      <3> QED BY <3>2, <3>3, <3>4, <3>5
    <2>4. ASSUME NEW x \in Used(bs) PROVE x \in Used(t)
      <3>1. PICK i \in 1 .. n : ~bs[i].is_free /\ x = bs[i]
        BY <1>3
      <3>2. i # k
        BY <3>1
      <3>3. CASE i \in 1 .. (k - 1)
        <4>1. i \in 1 .. (n + 1) /\ t[i] = bs[i]
          BY <1>1, <1>2, <3>3
        <4> QED BY <1>4, <2>0, <3>1, <4>1
      <3>4. CASE i \in (k + 1) .. n
        <4> DEFINE j == i + 1
        <4>1. j \in (k + 2) .. (n + 1) /\ j - 1 = i /\ j \in 1 .. (n + 1)
          BY <1>1, <3>4
        <4> HIDE DEF j
        <4>2. t[j] = bs[i]
          BY <2>0, <4>1
        <4> QED BY <1>4, <2>0, <3>1, <4>1, <4>2
      <3>5. i \in 1 .. (k - 1) \/ i \in (k + 1) .. n
        BY <1>1, <3>2
      <3> QED BY <3>3, <3>4, <3>5
    <2>5. b \in Used(t)
      <3>1. k \in 1 .. (n + 1)
        BY <1>1
      <3> QED BY <1>4, <2>0, <2>1, <3>1
    <2>6. Used(t) = Used(bs) \union {b}
      BY <2>3, <2>4, <2>5
    <2>7. b.size >= size
      BY <2>1
    <2> QED BY <2>1, <2>6, <2>7 DEF t
  <1> QED BY <1>5, <1>6, HandedOutShape

-------------------------------------------------------------------------------

(* Block k swallows the next one. *)
Swallowed(t, bs, k) ==
  /\ Len(t) = Len(bs) - 1
  /\ \A j \in 1 .. (k - 1) : t[j] = bs[j]
  /\ t[k] = [addr |-> bs[k].addr, size |-> bs[k].size + 32 + bs[k + 1].size,
             is_free |-> bs[k].is_free]
  /\ \A j \in (k + 1) .. (Len(bs) - 1) : t[j] = bs[j + 1]

LEMMA MergeShape ==
  ASSUME NEW bs \in Seq(Block), NEW k \in 1 .. (Len(bs) - 1)
  PROVE  /\ Merge(bs, k) \in Seq(Block)
         /\ Swallowed(Merge(bs, k), bs, k)
  <1> DEFINE n == Len(bs)
             sum == bs[k].size + 32 + bs[k + 1].size
             b == [addr |-> bs[k].addr, size |-> sum, is_free |-> bs[k].is_free]
             cs == [bs EXCEPT ![k] = b]
             t == RemoveAt(cs, k + 1)
  <1>1. n \in Nat /\ k \in 1 .. n /\ k + 1 \in 1 .. n /\ k \in 1 .. (n - 1)
    OBVIOUS
  <1>2. /\ bs[k] \in Block /\ bs[k].addr \in Nat /\ bs[k].size \in Nat /\ bs[k].is_free \in BOOLEAN
        /\ bs[k + 1].size \in Nat
    BY <1>1, BlockTypes
  <1>3. b \in Block
    <2>1. sum \in Nat
      BY <1>2
    <2> HIDE DEF sum
    <2> QED BY <1>2, <2>1 DEF Block
  <1>4. Merge(bs, k) = t
    <2>1. b = [bs[k] EXCEPT !.size = sum]
      <3>1. sum \in Nat
        BY <1>2
      <3> HIDE DEF sum
      <3> QED BY <1>2, <3>1, ResizedBlock
    <2>2. [bs EXCEPT ![k].size = sum] = [bs EXCEPT ![k] = [bs[k] EXCEPT !.size = sum]]
      OBVIOUS
    <2>3. Merge(bs, k) = RemoveAt([bs EXCEPT ![k].size = sum], k + 1)
      BY <1>2 DEF Merge, BLOCK_HEADER_SIZE
    <2> HIDE DEF sum, b
    <2> QED BY <2>1, <2>2, <2>3
  <1> HIDE DEF b
  <1>5. /\ cs \in Seq(Block) /\ Len(cs) = n /\ cs[k] = b
        /\ \A j \in 1 .. n : j # k => cs[j] = bs[j]
    BY <1>1, <1>3, ChangeShape
  <1> HIDE DEF cs
  <1>6. t \in Seq(Block) /\ Removed(t, cs, k)
    BY <1>1, <1>5, RemoveShape
  <1> HIDE DEF t, n
  <1>7. /\ Len(t) = n - 1
        /\ \A j \in 1 .. k : t[j] = cs[j]
        /\ \A j \in (k + 1) .. (n - 1) : t[j] = cs[j + 1]
    BY <1>5, <1>6 DEF Removed
  <1>8. \A j \in 1 .. (k - 1) : t[j] = bs[j]
    BY <1>1, <1>5, <1>7
  <1>9. t[k] = b
    BY <1>1, <1>5, <1>7
  <1>10. ASSUME NEW j \in (k + 1) .. (n - 1)
         PROVE  t[j] = bs[j + 1]
    <2>1. j + 1 \in 1 .. n /\ j + 1 # k
      BY <1>1
    <2> QED BY <1>5, <1>7, <2>1
  <1>11. Swallowed(t, bs, k)
    BY <1>7, <1>8, <1>9, <1>10 DEF Swallowed, n, b
  <1> QED BY <1>4, <1>6, <1>11

(* Merging keeps the heap tiled ... *)
LEMMA MergeLaid ==
  ASSUME NEW bs \in Seq(Block), NEW k \in 1 .. (Len(bs) - 1), NEW first, NEW end,
         Laid(bs, first, end)
  PROVE  Laid(Merge(bs, k), first, end)
  <1> DEFINE t == Merge(bs, k)
             n == Len(bs)
  <1>1. n \in Nat /\ k \in 1 .. n /\ k + 1 \in 1 .. n /\ k \in 1 .. (n - 1) /\ bs # <<>>
    OBVIOUS
  <1>2. /\ t \in Seq(Block) /\ Len(t) = n - 1
        /\ \A j \in 1 .. (k - 1) : t[j] = bs[j]
        /\ t[k] = [addr |-> bs[k].addr, size |-> bs[k].size + 32 + bs[k + 1].size,
                   is_free |-> bs[k].is_free]
        /\ \A j \in (k + 1) .. (n - 1) : t[j] = bs[j + 1]
    BY MergeShape DEF Swallowed
  <1>3. bs[1].addr = first /\ EndOf(bs[n]) = end
    BY <1>1 DEF Laid
  <1>4. \A j \in 1 .. (n - 1) : bs[j + 1].addr = EndOf(bs[j])
    BY LaidNext
  <1>5. /\ bs[k].addr \in Nat /\ bs[k].size \in Nat /\ bs[k + 1].size \in Nat
        /\ EndOf(bs[k]) = bs[k].addr + 32 + bs[k].size
        /\ EndOf(bs[k + 1]) = bs[k + 1].addr + 32 + bs[k + 1].size
    BY <1>1, BlockTypes
  <1>6. bs[k + 1].addr = EndOf(bs[k])
    BY <1>1, <1>4
  <1> HIDE DEF t, n
  <1>7. t[k].addr = bs[k].addr /\ EndOf(t[k]) = EndOf(bs[k + 1])
    <2>1. EndOf(t[k]) = bs[k].addr + 32 + (bs[k].size + 32 + bs[k + 1].size)
      BY <1>2 DEF EndOf, BLOCK_HEADER_SIZE
    <2>2. EndOf(t[k]) = EndOf(bs[k + 1])
      <3>1. \A a, x, y \in Nat : a + 32 + (x + 32 + y) = (a + 32 + x) + 32 + y
        OBVIOUS
      <3>2. EndOf(bs[k + 1]) = (bs[k].addr + 32 + bs[k].size) + 32 + bs[k + 1].size
        BY <1>5, <1>6
      <3>3. EndOf(bs[k + 1]) = bs[k].addr + 32 + (bs[k].size + 32 + bs[k + 1].size)
        BY <1>5, <3>1, <3>2
      <3> QED BY <2>1, <3>3
    <2>3. t[k].addr = bs[k].addr
      BY <1>2
    <2> QED BY <2>2, <2>3
  <1>8. ASSUME NEW j \in 1 .. k
        PROVE  t[j].addr = bs[j].addr
    <2>1. j \in 1 .. (k - 1) \/ j = k
      BY <1>1
    <2> QED BY <1>2, <1>7, <2>1
  <1>9. ASSUME NEW j \in k .. (n - 1)
        PROVE  EndOf(t[j]) = EndOf(bs[j + 1])
    <2>1. j \in (k + 1) .. (n - 1) \/ j = k
      BY <1>1
    <2> QED BY <1>2, <1>7, <2>1
  <1>10. t # <<>> /\ t[1].addr = first /\ EndOf(t[n - 1]) = end
    <2>1. 1 \in 1 .. k /\ n - 1 \in k .. (n - 1) /\ (n - 1) + 1 = n
      BY <1>1
    <2>2. t[1].addr = first
      BY <1>3, <1>8, <2>1
    <2>3. EndOf(t[n - 1]) = EndOf(bs[(n - 1) + 1])
      BY <1>9, <2>1
    <2>4. Len(t) # 0
      BY <1>1, <1>2
    <2> QED BY <1>2, <1>3, <2>1, <2>2, <2>3, <2>4
  <1>11. ASSUME NEW j \in 1 .. ((n - 1) - 1)
         PROVE  t[j + 1].addr = EndOf(t[j])
    <2>1. CASE j < k
      <3>1. j + 1 \in 1 .. k /\ j \in 1 .. (k - 1) /\ j \in 1 .. (n - 1)
        BY <1>1, <2>1
      <3>2. t[j + 1].addr = bs[j + 1].addr /\ t[j] = bs[j]
        BY <1>2, <1>8, <3>1
      <3> QED BY <1>4, <3>1, <3>2
    <2>2. CASE j >= k
      <3> DEFINE i == j + 1
      <3>1. i \in (k + 1) .. (n - 1) /\ i \in 1 .. (n - 1) /\ j \in k .. (n - 1)
        BY <1>1, <2>2
      <3>2. EndOf(t[j]) = EndOf(bs[j + 1])
        BY <1>9, <3>1
      <3> HIDE DEF i
      <3>3. t[i] = bs[i + 1] /\ bs[i + 1].addr = EndOf(bs[i])
        BY <1>2, <1>4, <3>1
      <3> QED BY <3>2, <3>3 DEF i
    <2> QED BY <1>1, <2>1, <2>2
  <1>12. Laid(t, first, end)
    BY <1>2, <1>10, <1>11 DEF Laid
  <1> QED BY <1>12 DEF t

(* ... changes no block in use if both are free ... *)
LEMMA MergeUsed ==
  ASSUME NEW bs \in Seq(Block), NEW k \in 1 .. (Len(bs) - 1), bs[k].is_free, bs[k + 1].is_free
  PROVE  Used(Merge(bs, k)) = Used(bs)
  <1> DEFINE t == Merge(bs, k)
             n == Len(bs)
  <1>1. n \in Nat /\ k \in 1 .. n /\ k + 1 \in 1 .. n /\ k \in 1 .. (n - 1)
    OBVIOUS
  <1>2. /\ t \in Seq(Block) /\ Len(t) = n - 1
        /\ \A j \in 1 .. (k - 1) : t[j] = bs[j]
        /\ t[k].is_free
        /\ \A j \in (k + 1) .. (n - 1) : t[j] = bs[j + 1]
    <2>1. t \in Seq(Block) /\ Swallowed(t, bs, k)
      BY MergeShape
    <2> HIDE DEF t
    <2>2. t[k].is_free
      BY <2>1 DEF Swallowed
    <2> QED BY <2>1, <2>2 DEF Swallowed
  <1>3. \A x : x \in Used(bs) <=> \E i \in 1 .. n : ~bs[i].is_free /\ x = bs[i]
    BY UsedMember
  <1>4. \A x : x \in Used(t) <=> \E i \in 1 .. (n - 1) : ~t[i].is_free /\ x = t[i]
    BY <1>2, UsedMember
  <1> HIDE DEF t, n
  <1>5. ASSUME NEW x \in Used(t) PROVE x \in Used(bs)
    <2>1. PICK i \in 1 .. (n - 1) : ~t[i].is_free /\ x = t[i]
      BY <1>4
    <2>2. CASE i \in 1 .. (k - 1)
      <3>1. i \in 1 .. n /\ t[i] = bs[i]
        BY <1>1, <1>2, <2>2
      <3> QED BY <1>3, <2>1, <3>1
    <2>3. CASE i \in (k + 1) .. (n - 1)
      <3>1. i + 1 \in 1 .. n /\ t[i] = bs[i + 1]
        BY <1>1, <1>2, <2>3
      <3> QED BY <1>3, <2>1, <3>1
    <2>4. i # k
      BY <1>2, <2>1
    <2> QED BY <1>1, <2>2, <2>3, <2>4
  <1>6. ASSUME NEW x \in Used(bs) PROVE x \in Used(t)
    <2>1. PICK i \in 1 .. n : ~bs[i].is_free /\ x = bs[i]
      BY <1>3
    <2>2. CASE i \in 1 .. (k - 1)
      <3>1. i \in 1 .. (n - 1) /\ t[i] = bs[i]
        BY <1>1, <1>2, <2>2
      <3> QED BY <1>4, <2>1, <3>1
    <2>3. CASE i \in (k + 2) .. n
      <3> DEFINE j == i - 1
      <3>1. j \in 1 .. (n - 1) /\ j \in (k + 1) .. (n - 1) /\ j + 1 = i
        BY <1>1, <2>3
      <3> HIDE DEF j
      <3>2. t[j] = bs[i]
        BY <1>2, <3>1
      <3> QED BY <1>4, <2>1, <3>1, <3>2
    <2>4. i # k /\ i # k + 1
      BY <2>1
    <2> QED BY <1>1, <2>2, <2>3, <2>4
  <1> QED BY <1>5, <1>6 DEF t

(* ... and makes no pair of free blocks that was none.                     *)
LEMMA MergePairs ==
  ASSUME NEW bs \in Seq(Block), NEW k \in 1 .. (Len(bs) - 1), bs[k].is_free, bs[k + 1].is_free,
         NEW j \in 1 .. (Len(Merge(bs, k)) - 1),
         Merge(bs, k)[j].is_free, Merge(bs, k)[j + 1].is_free
  PROVE  \E i \in 1 .. (Len(bs) - 1) :
           /\ bs[i].is_free /\ bs[i + 1].is_free
           /\ i = IF j < k THEN j ELSE j + 1
           /\ bs[i].addr = Merge(bs, k)[j].addr \/ i = k + 1
           /\ bs[i + 1].addr = Merge(bs, k)[j + 1].addr
  <1> DEFINE t == Merge(bs, k)
             n == Len(bs)
  <1>1. n \in Nat /\ k \in 1 .. n /\ k + 1 \in 1 .. n /\ k \in 1 .. (n - 1)
    OBVIOUS
  <1>2. /\ Len(t) = n - 1
        /\ \A i \in 1 .. (k - 1) : t[i] = bs[i]
        /\ t[k].addr = bs[k].addr
        /\ \A i \in (k + 1) .. (n - 1) : t[i] = bs[i + 1]
    <2>1. Swallowed(t, bs, k)
      BY MergeShape
    <2> HIDE DEF t
    <2> QED BY <2>1 DEF Swallowed
  <1>3. t[j].is_free /\ t[j + 1].is_free /\ bs[k].is_free /\ bs[k + 1].is_free
    OBVIOUS
  <1>4. j \in 1 .. ((n - 1) - 1)
    BY <1>2
  <1> SUFFICES \E i \in 1 .. (n - 1) :
                 /\ bs[i].is_free /\ bs[i + 1].is_free
                 /\ i = IF j < k THEN j ELSE j + 1
                 /\ bs[i].addr = t[j].addr \/ i = k + 1
                 /\ bs[i + 1].addr = t[j + 1].addr
    OBVIOUS
  <1> HIDE DEF t, n
  <1>5. CASE j < k
    <2>1. j \in 1 .. (k - 1) /\ j \in 1 .. (n - 1)
      BY <1>1, <1>4, <1>5
    <2>2. bs[j].is_free /\ bs[j].addr = t[j].addr
      BY <1>2, <1>3, <2>1
    <2>3. bs[j + 1].is_free /\ bs[j + 1].addr = t[j + 1].addr
      <3>1. j + 1 \in 1 .. (k - 1) \/ j + 1 = k
        BY <1>1, <2>1
      <3> QED BY <1>2, <1>3, <3>1
    <2> QED BY <1>5, <2>1, <2>2, <2>3
  <1>6. CASE j >= k
    <2> DEFINE i == j + 1
    <2>1. i \in 1 .. (n - 1) /\ i \in (k + 1) .. (n - 1) /\ i = j + 1 /\ ~(j < k)
      BY <1>1, <1>4, <1>6
    <2> HIDE DEF i
    <2>2. bs[i + 1].is_free /\ bs[i + 1].addr = t[j + 1].addr
      <3>1. t[i] = bs[i + 1]
        BY <1>2, <2>1
      <3> QED BY <1>3, <2>1, <3>1
    <2>3. bs[i].is_free /\ (bs[i].addr = t[j].addr \/ i = k + 1)
      <3>1. CASE j = k
        BY <1>3, <2>1, <3>1
      <3>2. CASE j # k
        <4>1. j \in (k + 1) .. (n - 1)
          BY <1>1, <1>4, <1>6, <3>2
        <4> QED BY <1>2, <1>3, <2>1, <4>1
      <3> QED BY <3>1, <3>2
    <2> QED BY <2>1, <2>2, <2>3
  <1> QED BY <1>1, <1>4, <1>5, <1>6

(* The address of the swallowed block is gone.                             *)
LEMMA MergeAddresses ==
  ASSUME NEW bs \in Seq(Block), NEW k \in 1 .. (Len(bs) - 1),
         NEW i \in 1 .. Len(Merge(bs, k))
  PROVE  \E j \in 1 .. Len(bs) : j # k + 1 /\ Merge(bs, k)[i].addr = bs[j].addr
  <1> DEFINE t == Merge(bs, k)
             n == Len(bs)
  <1>1. n \in Nat /\ k \in 1 .. (n - 1)
    OBVIOUS
  <1>2. /\ Len(t) = n - 1
        /\ \A j \in 1 .. (k - 1) : t[j] = bs[j]
        /\ t[k].addr = bs[k].addr
        /\ \A j \in (k + 1) .. (n - 1) : t[j] = bs[j + 1]
    <2>1. Swallowed(t, bs, k)
      BY MergeShape
    <2> HIDE DEF t
    <2> QED BY <2>1 DEF Swallowed
  <1>3. i \in 1 .. Len(t)
    OBVIOUS
  <1> SUFFICES \E j \in 1 .. n : j # k + 1 /\ t[i].addr = bs[j].addr
    OBVIOUS
  <1> HIDE DEF t, n
  <1>4. CASE i <= k
    <2>1. i \in 1 .. n /\ i # k + 1 /\ (i \in 1 .. (k - 1) \/ i = k)
      BY <1>1, <1>2, <1>3, <1>4
    <2> QED BY <1>2, <2>1
  <1>5. CASE ~(i <= k)
    <2>1. i + 1 \in 1 .. n /\ i + 1 # k + 1 /\ i \in (k + 1) .. (n - 1)
      BY <1>1, <1>2, <1>3, <1>5
    <2> QED BY <1>2, <2>1
  <1> QED BY <1>4, <1>5

(* coalesce_blocks leaves no two successive free blocks but where another  *)
(* call is about to merge, if there were none but there and beside the     *)
(* freed one, and if it swallows no block that another call is to merge;   *)
(* it changes nothing else.                                                *)
LEMMA CoalesceKeeps ==
  ASSUME NEW bs \in Seq(Block), NEW k \in 1 .. Len(bs), NEW first, NEW end,
         Laid(bs, first, end), bs[k].is_free, NEW C, PairsIn(bs, C \union {bs[k].addr}),
         \A j \in 1 .. Len(bs) : bs[j].addr \in C =>
           \E i \in 1 .. Len(Coalesce(bs, k)) : Coalesce(bs, k)[i].addr = bs[j].addr
  PROVE  /\ Coalesce(bs, k) \in Seq(Block) /\ Laid(Coalesce(bs, k), first, end)
         /\ Used(Coalesce(bs, k)) = Used(bs) /\ PairsIn(Coalesce(bs, k), C)
  <1> DEFINE m == IF k < Len(bs) /\ bs[k + 1].is_free THEN Merge(bs, k) ELSE bs
             t == IF k > 1 /\ m[k - 1].is_free THEN Merge(m, k - 1) ELSE m
  <1>1. Coalesce(bs, k) = t
    BY DEF Coalesce
  <1>2. \A j \in 1 .. (Len(bs) - 1) :
          bs[j].is_free /\ bs[j + 1].is_free =>
            bs[j].addr \in C \/ bs[j + 1].addr \in C \/ k = j \/ k = j + 1
    <2> SUFFICES ASSUME NEW j \in 1 .. (Len(bs) - 1), bs[j].is_free, bs[j + 1].is_free
                 PROVE  bs[j].addr \in C \/ bs[j + 1].addr \in C \/ k = j \/ k = j + 1
      OBVIOUS
    <2>1. j \in 1 .. Len(bs) /\ j + 1 \in 1 .. Len(bs)
      OBVIOUS
    <2>2. \A i \in 1 .. Len(bs) : bs[i].addr = bs[k].addr => i = k
      BY OnePlace
    <2>3. bs[j].addr \in C \union {bs[k].addr} \/ bs[j + 1].addr \in C \union {bs[k].addr}
      BY DEF PairsIn
    <2> QED BY <2>1, <2>2, <2>3
  <1>3. /\ \A j \in 1 .. Len(bs) : bs[j].addr \in C => \E i \in 1 .. Len(t) : t[i].addr = bs[j].addr
    BY <1>1
  <1> HIDE DEF t
  <1>4. /\ m \in Seq(Block) /\ Laid(m, first, end) /\ Used(m) = Used(bs)
        /\ k \in 1 .. Len(m) /\ m[k].is_free /\ m[k].addr = bs[k].addr
        /\ \A j \in 1 .. Len(m) : \E i \in 1 .. Len(bs) :
             m[j].addr = bs[i].addr /\ ~(k < Len(bs) /\ bs[k + 1].is_free /\ i = k + 1)
    <2>1. CASE k < Len(bs) /\ bs[k + 1].is_free
      <3>1. m = Merge(bs, k) /\ k \in 1 .. (Len(bs) - 1)
        BY <2>1
      <3> HIDE DEF m
      <3>2. m \in Seq(Block) /\ Swallowed(m, bs, k)
        BY <3>1, MergeShape
      <3>3. k \in 1 .. Len(m) /\ m[k].is_free /\ m[k].addr = bs[k].addr
        <4>1. Len(m) = Len(bs) - 1
          BY <3>2 DEF Swallowed
        <4>2. m[k].is_free /\ m[k].addr = bs[k].addr
          BY <3>2 DEF Swallowed
        <4> QED BY <3>1, <4>1, <4>2
      <3>4. \A j \in 1 .. Len(m) : \E i \in 1 .. Len(bs) : i # k + 1 /\ m[j].addr = bs[i].addr
        BY <3>1, MergeAddresses
      <3>5. Laid(m, first, end) /\ Used(m) = Used(bs)
        BY <2>1, <3>1, MergeLaid, MergeUsed
      <3> QED BY <3>2, <3>3, <3>4, <3>5
    <2>2. CASE ~(k < Len(bs) /\ bs[k + 1].is_free)
      <3>1. m = bs
        BY <2>2
      <3> HIDE DEF m
      <3> QED BY <2>2, <3>1
    <2> QED BY <2>1, <2>2
  <1>5. \A i \in 1 .. Len(t) : \E j \in 1 .. Len(m) :
          t[i].addr = m[j].addr /\ ~(k > 1 /\ m[k - 1].is_free /\ j = k)
    <2>1. CASE k > 1 /\ m[k - 1].is_free
      <3> DEFINE l == k - 1
      <3>1. t = Merge(m, l) /\ l \in 1 .. (Len(m) - 1) /\ l + 1 = k
        BY <1>4, <2>1 DEF t
      <3> HIDE DEF m, l
      <3>2. ASSUME NEW i \in 1 .. Len(t)
            PROVE  \E j \in 1 .. Len(m) : j # l + 1 /\ t[i].addr = m[j].addr
        <4>1. m \in Seq(Block) /\ i \in 1 .. Len(Merge(m, l))
          BY <1>4, <3>1
        <4>2. \E j \in 1 .. Len(m) : j # l + 1 /\ Merge(m, l)[i].addr = m[j].addr
          BY <3>1, <4>1, MergeAddresses
        <4> QED BY <3>1, <4>2
      <3> QED BY <3>1, <3>2
    <2>2. CASE ~(k > 1 /\ m[k - 1].is_free)
      <3>1. t = m
        BY <2>2 DEF t
      <3> HIDE DEF m
      <3> QED BY <2>2, <3>1
    <2> QED BY <2>1, <2>2
  <1>6. k < Len(bs) /\ bs[k + 1].is_free => bs[k + 1].addr \notin C
    <2> SUFFICES ASSUME k < Len(bs), bs[k + 1].is_free, bs[k + 1].addr \in C PROVE FALSE
      OBVIOUS
    <2> HIDE DEF m
    <2>1. k + 1 \in 1 .. Len(bs)
      OBVIOUS
    <2>2. PICK i \in 1 .. Len(t) : t[i].addr = bs[k + 1].addr
      BY <1>3, <2>1
    <2>3. PICK j \in 1 .. Len(m) : t[i].addr = m[j].addr
      BY <1>5
    <2>4. PICK l \in 1 .. Len(bs) : m[j].addr = bs[l].addr /\ l # k + 1
      BY <1>4
    <2>5. bs[l].addr = bs[k + 1].addr
      BY <2>2, <2>3, <2>4
    <2>6. l = k + 1
      BY <2>1, <2>5, OnePlace
    <2> QED BY <2>4, <2>6
  <1>7. k > 1 /\ m[k - 1].is_free => m[k].addr \notin C
    <2> SUFFICES ASSUME k > 1, m[k - 1].is_free, m[k].addr \in C PROVE FALSE
      OBVIOUS
    <2> HIDE DEF m
    <2>1. bs[k].addr \in C
      BY <1>4
    <2>2. PICK i \in 1 .. Len(t) : t[i].addr = bs[k].addr
      BY <1>3, <2>1
    <2>3. PICK j \in 1 .. Len(m) : t[i].addr = m[j].addr /\ j # k
      BY <1>5
    <2>4. m[j].addr = m[k].addr
      BY <1>4, <2>2, <2>3
    <2>5. j = k
      BY <1>4, <2>4, OnePlace
    <2> QED BY <2>3, <2>5
  <1>8. ASSUME NEW j \in 1 .. (Len(m) - 1), m[j].is_free, m[j + 1].is_free
        PROVE  k = j + 1 \/ m[j].addr \in C \/ m[j + 1].addr \in C
    <2>1. CASE k < Len(bs) /\ bs[k + 1].is_free
      <3>1. m = Merge(bs, k) /\ k \in 1 .. (Len(bs) - 1)
        BY <2>1
      <3> HIDE DEF m
      <3>2. PICK i \in 1 .. (Len(bs) - 1) :
              /\ bs[i].is_free /\ bs[i + 1].is_free
              /\ i = IF j < k THEN j ELSE j + 1
              /\ bs[i].addr = m[j].addr \/ i = k + 1
              /\ bs[i + 1].addr = m[j + 1].addr
        BY <1>8, <2>1, <3>1, MergePairs
      <3>3. bs[i].addr \in C \/ bs[i + 1].addr \in C \/ k = i \/ k = i + 1
        BY <1>2, <3>2
      <3>4. i = k + 1 => bs[i].addr \notin C
        BY <1>6, <2>1
      <3> QED BY <3>2, <3>3, <3>4
    <2>2. CASE ~(k < Len(bs) /\ bs[k + 1].is_free)
      <3>1. m = bs
        BY <2>2
      <3> HIDE DEF m
      <3>2. bs[j].addr \in C \/ bs[j + 1].addr \in C \/ k = j \/ k = j + 1
        BY <1>2, <1>8, <3>1
      <3>3. k # j
        BY <1>8, <2>2, <3>1
      <3> QED BY <3>1, <3>2, <3>3
    <2> QED BY <2>1, <2>2
  <1> HIDE DEF m
  <1>9. /\ t \in Seq(Block) /\ Laid(t, first, end) /\ Used(t) = Used(bs)
        /\ PairsIn(t, C)
    <2>1. CASE k > 1 /\ m[k - 1].is_free
      <3> DEFINE l == k - 1
      <3>1. t = Merge(m, l)
        BY <2>1 DEF t
      <3>2. l \in 1 .. (Len(m) - 1) /\ l + 1 = k
        BY <1>4, <2>1
      <3>3. m[l].is_free /\ m[l + 1].is_free
        BY <1>4, <2>1, <3>2
      <3> HIDE DEF l
      <3>4. t \in Seq(Block)
        BY <1>4, <3>1, <3>2, MergeShape
      <3>5. Laid(t, first, end) /\ Used(t) = Used(m)
        BY <1>4, <3>1, <3>2, <3>3, MergeLaid, MergeUsed
      <3>6. ASSUME NEW j \in 1 .. (Len(t) - 1), t[j].is_free, t[j + 1].is_free
            PROVE  t[j].addr \in C \/ t[j + 1].addr \in C
        <4>1. PICK i \in 1 .. (Len(m) - 1) :
                /\ m[i].is_free /\ m[i + 1].is_free
                /\ i = IF j < l THEN j ELSE j + 1
                /\ m[i].addr = t[j].addr \/ i = l + 1
                /\ m[i + 1].addr = t[j + 1].addr
          BY <1>4, <3>1, <3>2, <3>3, <3>6, MergePairs
        <4>2. k = i + 1 \/ m[i].addr \in C \/ m[i + 1].addr \in C
          BY <1>8, <4>1
        <4>3. i = k => m[i].addr \notin C
          BY <1>7, <2>1
        <4>4. i # l /\ i \in Nat /\ l \in Nat
          BY <3>2, <4>1
        <4>5. k # i + 1
          BY <3>2, <4>4
        <4> QED BY <3>2, <4>1, <4>2, <4>3, <4>5
      <3> QED BY <1>4, <3>4, <3>5, <3>6 DEF PairsIn
    <2>2. CASE ~(k > 1 /\ m[k - 1].is_free)
      <3>1. t = m
        BY <2>2 DEF t
      <3>2. ASSUME NEW j \in 1 .. (Len(m) - 1), m[j].is_free, m[j + 1].is_free
            PROVE  m[j].addr \in C \/ m[j + 1].addr \in C
        <4>1. k = j + 1 \/ m[j].addr \in C \/ m[j + 1].addr \in C
          BY <1>8, <3>2
        <4>2. k = j + 1 => k > 1 /\ k - 1 = j
          OBVIOUS
        <4> QED BY <2>2, <3>2, <4>1, <4>2
      <3> QED BY <1>4, <3>1, <3>2 DEF PairsIn
    <2> QED BY <2>1, <2>2
  <1> QED BY <1>1, <1>9
-------------------------------------------------------------------------------

LEMMA CoalesceTyped ==
  ASSUME NEW bs \in Seq(Block), NEW k \in 1 .. Len(bs)
  PROVE  Coalesce(bs, k) \in Seq(Block)
  <1> DEFINE m == IF k < Len(bs) /\ bs[k + 1].is_free THEN Merge(bs, k) ELSE bs
  <1>1. m \in Seq(Block) /\ k \in 1 .. Len(m)
    <2>1. CASE k < Len(bs) /\ bs[k + 1].is_free
      <3>1. k \in 1 .. (Len(bs) - 1) /\ m = Merge(bs, k)
        BY <2>1
      <3> HIDE DEF m
      <3>2. m \in Seq(Block) /\ Len(m) = Len(bs) - 1
        BY <3>1, MergeShape DEF Swallowed
      <3> QED BY <3>1, <3>2
    <2>2. CASE ~(k < Len(bs) /\ bs[k + 1].is_free)
      BY <2>2
    <2> QED BY <2>1, <2>2
  <1>2. Coalesce(bs, k) = IF k > 1 /\ m[k - 1].is_free THEN Merge(m, k - 1) ELSE m
    BY DEF Coalesce
  <1> HIDE DEF m
  <1>3. CASE k > 1 /\ m[k - 1].is_free
    <2>1. k - 1 \in 1 .. (Len(m) - 1)
      BY <1>1, <1>3
    <2> QED BY <1>1, <1>2, <1>3, <2>1, MergeShape
  <1>4. CASE ~(k > 1 /\ m[k - 1].is_free)
    BY <1>1, <1>2, <1>4
  <1> QED BY <1>3, <1>4

(* kfree marks block k. *)
Freed(bs, k) == [bs EXCEPT ![k].is_free = TRUE]

LEMMA FreeKeeps ==
  ASSUME NEW bs \in Seq(Block), NEW k \in 1 .. Len(bs), NEW first, NEW end,
         Laid(bs, first, end), ~bs[k].is_free, NEW C, PairsIn(bs, C)
  PROVE  /\ Freed(bs, k) \in Seq(Block) /\ Len(Freed(bs, k)) = Len(bs)
         /\ Laid(Freed(bs, k), first, end)
         /\ Freed(bs, k)[k].addr = bs[k].addr /\ Freed(bs, k)[k].is_free
         /\ Used(Freed(bs, k)) = Used(bs) \ {bs[k]}
         /\ PairsIn(Freed(bs, k), C \union {bs[k].addr})
  <1> DEFINE b == [addr |-> bs[k].addr, size |-> bs[k].size, is_free |-> TRUE]
             t == Freed(bs, k)
             n == Len(bs)
  <1>1. /\ n \in Nat /\ k \in 1 .. n /\ bs[k] \in Block
        /\ bs[k].addr \in Nat /\ bs[k].size \in Nat
    BY BlockTypes
  <1>2. t = [bs EXCEPT ![k] = b]
    <2>1. b = [bs[k] EXCEPT !.is_free = TRUE]
      BY <1>1, MarkedBlock
    <2>2. [bs EXCEPT ![k].is_free = TRUE] = [bs EXCEPT ![k] = [bs[k] EXCEPT !.is_free = TRUE]]
      OBVIOUS
    <2> HIDE DEF b
    <2> QED BY <2>1, <2>2 DEF Freed
  <1>3. b \in Block
    BY <1>1 DEF Block
  <1>4. b.addr = bs[k].addr /\ EndOf(b) = EndOf(bs[k]) /\ b.is_free
    BY DEF EndOf
  <1> HIDE DEF b, t
  <1>5. /\ t \in Seq(Block) /\ Len(t) = n /\ t[k] = b
        /\ \A j \in 1 .. n : j # k => t[j] = bs[j]
    <2> DEFINE u == [bs EXCEPT ![k] = b]
    <2>1. u \in Seq(Block) /\ Len(u) = Len(bs) /\ u[k] = b
      BY <1>3
    <2>2. \A j \in 1 .. Len(bs) : j # k => u[j] = bs[j]
      BY <1>3
    <2>3. t = u
      BY <1>2
    <2> HIDE DEF u
    <2> QED BY <2>1, <2>2, <2>3
  <1>6. \A j \in 1 .. n : t[j].addr = bs[j].addr /\ EndOf(t[j]) = EndOf(bs[j])
    BY <1>4, <1>5
  <1>7. \A x : x \in Used(bs) <=> \E i \in 1 .. n : ~bs[i].is_free /\ x = bs[i]
    BY UsedMember
  <1>8. \A x : x \in Used(t) <=> \E i \in 1 .. n : ~t[i].is_free /\ x = t[i]
    <2>1. \A u \in Seq(Block) : \A x :
            x \in Used(u) <=> \E i \in 1 .. Len(u) : ~u[i].is_free /\ x = u[i]
      BY UsedMember
    <2> HIDE DEF n
    <2> QED BY <1>5, <2>1
  <1>9. \A j \in 1 .. (n - 1) :
          bs[j].is_free /\ bs[j + 1].is_free => bs[j].addr \in C \/ bs[j + 1].addr \in C
    BY DEF PairsIn
  <1>10. bs # <<>> /\ bs[1].addr = first /\ EndOf(bs[n]) = end
    BY <1>1 DEF Laid
  <1>11. \A j \in 1 .. (n - 1) : bs[j + 1].addr = EndOf(bs[j])
    BY LaidNext
  <1>12. \A j \in 1 .. n : bs[j] = bs[k] => j = k
    BY OnePlace
  <1> HIDE DEF n
  <1>13. Laid(t, first, end)
    <2>1. t # <<>> /\ 1 \in 1 .. n /\ n \in 1 .. n
      BY <1>1, <1>5
    <2>2. t[1].addr = first /\ EndOf(t[n]) = end
      BY <1>6, <1>10, <2>1
    <2>3. ASSUME NEW j \in 1 .. (n - 1)
          PROVE  t[j + 1].addr = EndOf(t[j])
      <3>1. j \in 1 .. n /\ j + 1 \in 1 .. n
        BY <1>1
      <3> QED BY <1>6, <1>11, <3>1
    <2> QED BY <1>5, <2>1, <2>2, <2>3 DEF Laid
  <1>14. Used(t) = Used(bs) \ {bs[k]}
    <2>1. ASSUME NEW x \in Used(t) PROVE x \in Used(bs) \ {bs[k]}
      <3>1. PICK i \in 1 .. n : ~t[i].is_free /\ x = t[i]
        BY <1>8
      <3>2. i # k
        BY <1>4, <1>5, <3>1
      <3> QED BY <1>5, <1>7, <1>12, <3>1, <3>2
    <2>2. ASSUME NEW x \in Used(bs) \ {bs[k]} PROVE x \in Used(t)
      <3>1. PICK i \in 1 .. n : ~bs[i].is_free /\ x = bs[i]
        BY <1>7
      <3>2. i # k
        BY <3>1
      <3> QED BY <1>5, <1>8, <3>1, <3>2
    <2> QED BY <2>1, <2>2
  <1>15. PairsIn(t, C \union {bs[k].addr})
    <2> SUFFICES ASSUME NEW j \in 1 .. (n - 1), t[j].is_free, t[j + 1].is_free
                 PROVE  t[j].addr \in C \union {bs[k].addr}
                          \/ t[j + 1].addr \in C \union {bs[k].addr}
      BY <1>5 DEF PairsIn
    <2>1. j \in 1 .. n /\ j + 1 \in 1 .. n
      BY <1>1
    <2>2. CASE k = j \/ k = j + 1
      BY <1>4, <1>5, <2>2
    <2>3. CASE ~(k = j \/ k = j + 1)
      <3>1. t[j] = bs[j] /\ t[j + 1] = bs[j + 1]
        BY <1>5, <2>1, <2>3
      <3> QED BY <1>9, <3>1
    <2> QED BY <2>2, <2>3
  <1> QED BY <1>4, <1>5, <1>13, <1>14, <1>15 DEF n, t

(* expand_heap appends a free block. *)
LEMMA AppendKeeps ==
  ASSUME NEW bs \in Seq(Block), NEW first, NEW end, Laid(bs, first, end),
         NEW C, PairsIn(bs, C), NEW b \in Block, b.addr = end, b.is_free
  PROVE  /\ Append(bs, b) \in Seq(Block) /\ Len(Append(bs, b)) = Len(bs) + 1
         /\ Append(bs, b)[Len(bs) + 1] = b
         /\ Laid(Append(bs, b), first, EndOf(b))
         /\ Used(Append(bs, b)) = Used(bs)
         /\ \A j \in 1 .. Len(bs) :
              Append(bs, b)[j].is_free /\ Append(bs, b)[j + 1].is_free =>
                \/ j + 1 = Len(bs) + 1
                \/ Append(bs, b)[j].addr \in C \/ Append(bs, b)[j + 1].addr \in C
  <1> DEFINE t == Append(bs, b)
             n == Len(bs)
  <1>1. /\ n \in Nat /\ t \in Seq(Block) /\ Len(t) = n + 1 /\ t[n + 1] = b
        /\ \A j \in 1 .. n : t[j] = bs[j]
    OBVIOUS
  <1>2. \A x : x \in Used(bs) <=> \E i \in 1 .. n : ~bs[i].is_free /\ x = bs[i]
    BY UsedMember
  <1>3. \A x : x \in Used(t) <=> \E i \in 1 .. (n + 1) : ~t[i].is_free /\ x = t[i]
    <2>1. \A u \in Seq(Block) : \A x :
            x \in Used(u) <=> \E i \in 1 .. Len(u) : ~u[i].is_free /\ x = u[i]
      BY UsedMember
    <2> HIDE DEF t, n
    <2> QED BY <1>1, <2>1
  <1>4. \A j \in 1 .. (n - 1) :
          bs[j].is_free /\ bs[j + 1].is_free => bs[j].addr \in C \/ bs[j + 1].addr \in C
    BY DEF PairsIn
  <1>5. \A j \in 1 .. (n - 1) : bs[j + 1].addr = EndOf(bs[j])
    BY LaidNext
  <1>6. (n = 0 => end = first) /\ (n # 0 => bs[1].addr = first /\ EndOf(bs[n]) = end)
    <2>1. n = 0 <=> bs = <<>>
      OBVIOUS
    <2> QED BY <2>1 DEF Laid
  <1> HIDE DEF t, n
  <1>7. Laid(t, first, EndOf(b))
    <2>1. t # <<>> /\ n + 1 \in 1 .. (n + 1) /\ (n + 1) - 1 = n
      BY <1>1
    <2>2. t[1].addr = first
      <3>1. CASE n = 0
        <4>1. t[1] = b
          BY <1>1, <3>1
        <4> QED BY <1>6, <3>1, <4>1
      <3>2. CASE n # 0
        <4>1. 1 \in 1 .. n
          BY <1>1, <3>2
        <4> QED BY <1>1, <1>6, <3>2, <4>1
      <3> QED BY <3>1, <3>2
    <2>3. ASSUME NEW j \in 1 .. n
          PROVE  t[j + 1].addr = EndOf(t[j])
      <3>1. CASE j = n
        <4>1. t[j + 1] = b /\ t[j] = bs[n] /\ n # 0
          BY <1>1, <3>1
        <4> QED BY <1>6, <4>1
      <3>2. CASE j # n
        <4>1. j \in 1 .. (n - 1) /\ j + 1 \in 1 .. n
          BY <1>1, <3>2
        <4>2. t[j] = bs[j] /\ t[j + 1] = bs[j + 1]
          BY <1>1, <4>1
        <4> QED BY <1>5, <4>1, <4>2
      <3> QED BY <3>1, <3>2
    <2> QED BY <1>1, <2>1, <2>2, <2>3 DEF Laid
  <1>8. Used(t) = Used(bs)
    <2>1. ASSUME NEW x \in Used(t) PROVE x \in Used(bs)
      <3>1. PICK i \in 1 .. (n + 1) : ~t[i].is_free /\ x = t[i]
        BY <1>3
      <3>2. i # n + 1
        BY <1>1, <3>1
      <3>3. i \in 1 .. n
        BY <1>1, <3>2
      <3> QED BY <1>1, <1>2, <3>1, <3>3
    <2>2. ASSUME NEW x \in Used(bs) PROVE x \in Used(t)
      <3>1. PICK i \in 1 .. n : ~bs[i].is_free /\ x = bs[i]
        BY <1>2
      <3>2. i \in 1 .. (n + 1)
        BY <1>1
      <3> QED BY <1>1, <1>3, <3>1, <3>2
    <2> QED BY <2>1, <2>2
  <1>9. ASSUME NEW j \in 1 .. n, t[j].is_free, t[j + 1].is_free
        PROVE  j + 1 = n + 1 \/ t[j].addr \in C \/ t[j + 1].addr \in C
    <2> SUFFICES ASSUME j # n PROVE t[j].addr \in C \/ t[j + 1].addr \in C
      OBVIOUS
    <2>1. j \in 1 .. (n - 1) /\ j + 1 \in 1 .. n
      BY <1>1
    <2>2. t[j] = bs[j] /\ t[j + 1] = bs[j + 1]
      BY <1>1, <2>1
    <2> QED BY <1>4, <1>9, <2>1, <2>2
  <1> QED BY <1>1, <1>7, <1>8, <1>9 DEF t, n

(* The size of an expansion: whole pages, enough for the request. *)
LEMMA ExpandSizePages ==
  ASSUME NEW min_size \in Nat
  PROVE  \E n \in Nat \ {0} :
           /\ ExpandSize(min_size) = n * PAGE_SIZE
           /\ ExpandSize(min_size) \div PAGE_SIZE = n
           /\ n * PAGE_SIZE >= min_size
  <1>1. CASE min_size > HEAP_EXPAND_SIZE
    <2> DEFINE n == (min_size + 4096 - 1) \div 4096
    <2>1. ExpandSize(min_size) = n * 4096
      BY <1>1 DEF ExpandSize, align_up, PAGE_SIZE
    <2>2. n \in Nat /\ n * 4096 >= min_size
      OBVIOUS
    <2>3. min_size > 0
      BY <1>1 DEF HEAP_EXPAND_SIZE, PAGE_SIZE
    <2> HIDE DEF n
    <2>4. n # 0 /\ (n * 4096) \div 4096 = n
      BY <2>2, <2>3
    <2> QED BY <2>1, <2>2, <2>4 DEF PAGE_SIZE
  <1>2. CASE ~(min_size > HEAP_EXPAND_SIZE)
    <2>1. ExpandSize(min_size) = 4 * 4096
      BY <1>2 DEF ExpandSize, HEAP_EXPAND_SIZE, PAGE_SIZE
    <2>2. (4 * 4096) \div 4096 = 4 /\ 4 * 4096 >= min_size
      BY <1>2 DEF HEAP_EXPAND_SIZE, PAGE_SIZE
    <2> QED BY <2>1, <2>2 DEF PAGE_SIZE
  <1> QED BY <1>1, <1>2
-------------------------------------------------------------------------------

(* The blocks in use have different addresses, and none that of a free one. *)
LEMMA UsedAddresses ==
  ASSUME NEW bs \in Seq(Block), NEW first, NEW end, Laid(bs, first, end)
  PROVE  /\ \A b \in Used(bs) : b \in Block /\ b.addr \in Nat
         /\ \A b, c \in Used(bs) : b.addr = c.addr => b = c
         /\ \A k \in 1 .. Len(bs) : bs[k].is_free => \A b \in Used(bs) : b.addr # bs[k].addr
  <1>1. \A b \in Used(bs) : \E k \in 1 .. Len(bs) : ~bs[k].is_free /\ b = bs[k]
    BY UsedMember
  <1>2. \A k \in 1 .. Len(bs) : bs[k] \in Block /\ bs[k].addr \in Nat
    BY BlockTypes
  <1>3. \A j, k \in 1 .. Len(bs) : bs[j].addr = bs[k].addr => j = k
    BY OnePlace
  <1>4. \A b, c \in Used(bs) : b.addr = c.addr => b = c
    BY <1>1, <1>3
  <1>5. \A k \in 1 .. Len(bs) : bs[k].is_free => \A b \in Used(bs) : b.addr # bs[k].addr
    BY <1>1, <1>3
  <1>6. \A b \in Used(bs) : b \in Block /\ b.addr \in Nat
    BY <1>1, <1>2
  <1> QED BY <1>4, <1>5, <1>6

(* A caller gets a block that was not in use ... *)
LEMMA HeldAdd ==
  ASSUME NEW held, NEW used, HeldIs(held, used), NEW a, NEW b,
         a.ptr = b.addr + BLOCK_HEADER_SIZE, b.size >= a.size, b.addr \in Nat,
         \A c \in used : c.addr \in Nat /\ c.addr # b.addr
  PROVE  HeldIs(held \union {a}, used \union {b})
  <1>1. \A x \in held : x.ptr # a.ptr
    <2> SUFFICES ASSUME NEW x \in held, x.ptr = a.ptr PROVE FALSE
      OBVIOUS
    <2>1. PICK c \in used : c.addr + BLOCK_HEADER_SIZE = x.ptr
      BY DEF HeldIs
    <2>2. c.addr \in Nat /\ c.addr # b.addr /\ c.addr + 32 = b.addr + 32
      BY <2>1 DEF BLOCK_HEADER_SIZE
    <2> QED BY <2>2
  <1>2. ASSUME NEW x \in held \union {a}
        PROVE  \E c \in used \union {b} :
                 c.addr + BLOCK_HEADER_SIZE = x.ptr /\ c.size >= x.size
    BY <1>2 DEF HeldIs
  <1>3. ASSUME NEW c \in used \union {b}
        PROVE  \E x \in held \union {a} : c.addr + BLOCK_HEADER_SIZE = x.ptr
    BY <1>3 DEF HeldIs
  <1>4. ASSUME NEW x \in held \union {a}, NEW y \in held \union {a}, x.ptr = y.ptr
        PROVE  x = y
    BY <1>1, <1>4 DEF HeldIs
  <1> QED BY <1>2, <1>3, <1>4 DEF HeldIs

(* ... and gives one back. *)
LEMMA HeldRemove ==
  ASSUME NEW held, NEW used, HeldIs(held, used), NEW a \in held, NEW b \in used,
         b.addr + BLOCK_HEADER_SIZE = a.ptr,
         \A c \in used : c.addr \in Nat,
         \A c \in used : c.addr = b.addr => c = b
  PROVE  HeldIs(held \ {a}, used \ {b})
  <1>1. \A c \in used : c.addr + BLOCK_HEADER_SIZE = a.ptr => c = b
    <2> SUFFICES ASSUME NEW c \in used, c.addr + BLOCK_HEADER_SIZE = a.ptr PROVE c = b
      OBVIOUS
    <2>1. c.addr \in Nat /\ b.addr \in Nat /\ c.addr + 32 = b.addr + 32
      BY DEF BLOCK_HEADER_SIZE
    <2> QED BY <2>1
  <1>2. ASSUME NEW x \in held \ {a}
        PROVE  \E c \in used \ {b} :
                 c.addr + BLOCK_HEADER_SIZE = x.ptr /\ c.size >= x.size
    <2>1. PICK c \in used : c.addr + BLOCK_HEADER_SIZE = x.ptr /\ c.size >= x.size
      BY DEF HeldIs
    <2>2. c # b
      BY <2>1 DEF HeldIs
    <2> QED BY <2>1, <2>2
  <1>3. ASSUME NEW c \in used \ {b}
        PROVE  \E x \in held \ {a} : c.addr + BLOCK_HEADER_SIZE = x.ptr
    <2>1. PICK x \in held : c.addr + BLOCK_HEADER_SIZE = x.ptr
      BY DEF HeldIs
    <2>2. x # a
      BY <1>1, <2>1
    <2> QED BY <2>1, <2>2
  <1>4. ASSUME NEW x \in held \ {a}, NEW y \in held \ {a}, x.ptr = y.ptr
        PROVE  x = y
    BY <1>4 DEF HeldIs
  <1> QED BY <1>2, <1>3, <1>4 DEF HeldIs

(* If a heap of m pages stays unbroken, n rising pages behind it follow it *)
(* and each other.                                                         *)
PagesIn(g, n) == {g[i] : i \in 1 .. n}

FollowFrom(g, n, s, m) ==
  /\ m > 0 => g[1] = s + m
  /\ \A i \in 1 .. n : g[i] = g[1] + i - 1
  /\ PagesIn(g, n) = g[1] .. (g[1] + n - 1)

LEMMA InARow ==
  ASSUME NEW s \in Nat, NEW m \in Nat, NEW n \in Nat \ {0}, NEW g, NEW free,
         Rising(g, s + m, n, free), NEW all,
         all = (s .. (s + m - 1)) \union PagesIn(g, n),
         \A p, q \in all : (p .. q) \subseteq all
  PROVE  FollowFrom(g, n, s, m)
  <1>1. /\ \A i \in 1 .. n : g[i] \in Nat /\ g[i] >= s + m
        /\ \A i, j \in 1 .. n : i < j => g[i] < g[j]
    BY DEF Rising
  <1>2. \A i \in 1 .. n : g[i] \in all
    BY DEF PagesIn
  <1>3. \A x \in all : x >= s + m => \E i \in 1 .. n : x = g[i]
    BY DEF PagesIn
  <1>4. 1 \in 1 .. n /\ g[1] \in Nat /\ g[1] >= s + m
    BY <1>1
  <1>5. m > 0 => g[1] = s + m
    <2> SUFFICES ASSUME m > 0, g[1] # s + m PROVE FALSE
      OBVIOUS
    <2>1. s + m - 1 \in all
      OBVIOUS
    <2>2. s + m \in (s + m - 1) .. g[1]
      BY <1>4
    <2>3. s + m \in all
      BY <1>2, <1>4, <2>1, <2>2
    <2>4. PICK i \in 1 .. n : s + m = g[i]
      BY <1>3, <2>3
    <2>5. i # 1
      BY <2>4
    <2>6. 1 < i
      BY <2>5
    <2>7. g[1] < g[i]
      BY <1>1, <1>4, <2>6
    <2> QED BY <1>4, <2>4, <2>7
  <1>6. \A i \in 1 .. n : g[i] = g[1] + i - 1
    <2> DEFINE Bad == {i \in 1 .. n : g[i] # g[1] + i - 1}
    <2> SUFFICES ASSUME Bad # {} PROVE FALSE
      OBVIOUS
    <2>1. PICK i \in Bad : \A j \in Bad : i <= j
      <3>1. Bad \in SUBSET Nat
        OBVIOUS
      <3> HIDE DEF Bad
      <3> QED BY <3>1, Least
    <2>2. i \in 1 .. n /\ g[i] # g[1] + i - 1 /\ i # 1
      BY <1>4
    <2>3. i - 1 \in 1 .. n /\ i - 1 \notin Bad
      BY <2>1, <2>2
    <2>4. g[i - 1] = g[1] + (i - 1) - 1
      BY <2>3
    <2>5. g[i] \in Nat /\ g[i - 1] < g[i]
      BY <1>1, <2>2, <2>3
    <2> DEFINE x == g[1] + i - 1
    <2>6. x \in Nat /\ x > g[i - 1] /\ x < g[i] /\ x \in g[1] .. g[i]
      BY <1>4, <2>2, <2>4, <2>5
    <2> HIDE DEF x, Bad
    <2>7. x \in all
      BY <1>2, <1>4, <2>2, <2>6
    <2>8. x >= s + m
      BY <1>4, <2>6
    <2>9. PICK j \in 1 .. n : x = g[j]
      BY <1>3, <2>7, <2>8
    <2>10. g[i - 1] \in Nat
      BY <1>1, <2>3
    <2>11. i - 1 < j
      <3> SUFFICES ASSUME j <= i - 1 PROVE FALSE
        BY <2>2
      <3>1. j = i - 1 \/ j < i - 1
        BY <2>2
      <3>2. g[j] <= g[i - 1]
        BY <1>1, <2>3, <2>10, <3>1
      <3> QED BY <2>6, <2>9, <2>10, <3>2
    <2>12. j < i
      <3> SUFFICES ASSUME i <= j PROVE FALSE
        BY <2>2
      <3>1. j = i \/ i < j
        BY <2>2
      <3>2. g[i] <= g[j]
        BY <1>1, <2>2, <2>5, <3>1
      <3> QED BY <2>5, <2>6, <2>9, <3>2
    <2> QED BY <2>2, <2>11, <2>12
  <1>7. PagesIn(g, n) = g[1] .. (g[1] + n - 1)
    <2> DEFINE G == {g[i] : i \in 1 .. n}
    <2>1. ASSUME NEW x \in G PROVE x \in g[1] .. (g[1] + n - 1)
      BY <1>4, <1>6
    <2>2. ASSUME NEW x \in g[1] .. (g[1] + n - 1) PROVE x \in G
      <3>1. x - g[1] + 1 \in 1 .. n /\ g[1] + (x - g[1] + 1) - 1 = x
        BY <1>4
      <3> QED BY <1>6, <3>1
    <2> QED BY <2>1, <2>2 DEF PagesIn
  <1> QED BY <1>5, <1>6, <1>7 DEF FollowFrom

(* An expansion: n pages that follow the m of the heap from page s on.     *)
Grown(s, m, n, addr) ==
  /\ addr = (s + m) * PAGE_SIZE
  /\ Laid(blocks, s * PAGE_SIZE, (s + m) * PAGE_SIZE)
  /\ pages' = s .. (s + (m + n) - 1)
  /\ total_heap_size' = (m + n) * PAGE_SIZE
  /\ \A p \in FreePages(pmm') \ {0} : p >= s + (m + n)

LEMMA Expansion ==
  ASSUME NEW s \in Nat \ {0}, NEW m \in Nat, HeapPages(s, m), IsBitmap(pmm),
         blocks \in Seq(Block),
         NEW min_size \in Nat, NEW t, Expanded(min_size, t), Unbroken'
  PROVE  \E n \in Nat \ {0}, z \in Nat \ {0} :
           /\ ExpandSize(min_size) = n * PAGE_SIZE /\ n * PAGE_SIZE >= min_size
           /\ Grown(z, m, n, t.got[1])
           /\ IsBitmap(pmm')
  <1>1. PICK n \in Nat \ {0} : /\ ExpandSize(min_size) = n * PAGE_SIZE
                               /\ ExpandSize(min_size) \div PAGE_SIZE = n
                               /\ n * PAGE_SIZE >= min_size
    BY ExpandSizePages
  <1>2. t = TakePages(pmm, n) /\ ~t.failed /\ pmm' = t.pm
    BY <1>1 DEF Expanded
  <1>3. s + m \in Nat /\ \A p \in FreePages(pmm) \ {0} : p >= s + m
    BY DEF HeapPages
  <1>4. Taken(TakePages(pmm, n), s + m, n)
    BY <1>3, TakePagesTaken
  <1>5. Taken(t, s + m, n)
    BY <1>2, <1>4
  <1>6. PICK g : Rising(g, s + m, n, FreePages(t.pm)) /\ AddressesOf(t.got, g, n)
    BY <1>2, <1>5 DEF Taken
  <1>7. /\ \A i \in 1 .. n : g[i] \in Nat /\ g[i] >= s + m /\ t.got[i] = g[i] * PAGE_SIZE
        /\ t.got \in Seq(Nat) /\ Len(t.got) = n
        /\ \A i \in 1 .. n, p \in FreePages(pmm') \ {0} : g[i] < p
    <2>1. /\ g \in Seq(Nat) /\ Len(g) = n
          /\ \A i \in 1 .. n : g[i] >= s + m
          /\ \A i \in 1 .. n, p \in FreePages(t.pm) \ {0} : g[i] < p
      BY <1>6 DEF Rising
    <2>2. /\ t.got \in Seq(Nat) /\ Len(t.got) = n
          /\ \A i \in 1 .. n : t.got[i] = g[i] * PAGE_SIZE
      BY <1>6 DEF AddressesOf
    <2>3. \A i \in 1 .. n : g[i] \in Nat
      BY <2>1
    <2> QED BY <1>2, <2>1, <2>2, <2>3
  <1>8. {x \div PAGE_SIZE : x \in ToSet(t.got)} = PagesIn(g, n)
    <2> DEFINE P == {x \div PAGE_SIZE : x \in ToSet(t.got)}
               G == {g[i] : i \in 1 .. n}
    <2>1. ASSUME NEW i \in 1 .. n
          PROVE  t.got[i] \div PAGE_SIZE = g[i]
      <3>1. \A x \in Nat : (x * 4096) \div 4096 = x
        OBVIOUS
      <3>2. g[i] \in Nat /\ t.got[i] = g[i] * 4096
        BY <1>7 DEF PAGE_SIZE
      <3> QED BY <3>1, <3>2 DEF PAGE_SIZE
    <2>2. \A x : x \in ToSet(t.got) <=> \E i \in 1 .. n : x = t.got[i]
      <3>1. DOMAIN t.got = 1 .. n
        BY <1>7
      <3> QED BY <3>1 DEF ToSet
    <2>3. \A y : y \in P <=> \E i \in 1 .. n : y = t.got[i] \div PAGE_SIZE
      BY <2>2
    <2> HIDE DEF P
    <2>4. \A y : y \in P <=> y \in G
      BY <2>1, <2>3
    <2> QED BY <2>4 DEF P, PagesIn
  <1>9. pages' = (s .. (s + m - 1)) \union PagesIn(g, n)
    BY <1>8 DEF Expanded, HeapPages
  <1>10. PICK all : all = pages'
    OBVIOUS
  <1>11. /\ all = (s .. (s + m - 1)) \union PagesIn(g, n)
         /\ \A p, q \in all : (p .. q) \subseteq all
    BY <1>9, <1>10 DEF Unbroken
  <1>12. /\ m > 0 => g[1] = s + m
         /\ \A i \in 1 .. n : g[i] = g[1] + i - 1
         /\ PagesIn(g, n) = g[1] .. (g[1] + n - 1)
    <2>1. FollowFrom(g, n, s, m)
      BY <1>6, <1>11, InARow
    <2> QED BY <2>1 DEF FollowFrom
  <1>13. 1 \in 1 .. n /\ n \in 1 .. n
    OBVIOUS
  <1> DEFINE z == g[1]
  <1>14. z \in Nat \ {0} /\ z >= s + m /\ (m > 0 => z = s + m) /\ t.got[1] = z * PAGE_SIZE
    BY <1>7, <1>12, <1>13
  <1>15. g[n] = z + n - 1
    BY <1>12, <1>13
  <1>16. \A p \in FreePages(pmm') \ {0} : p >= z + n
    <2> SUFFICES ASSUME NEW p \in FreePages(pmm') \ {0} PROVE p >= z + n
      OBVIOUS
    <2>1. g[n] < p
      BY <1>7, <1>13
    <2>2. p \in Nat
      BY DEF FreePages
    <2> HIDE DEF z
    <2> QED BY <1>14, <1>15, <2>1, <2>2
  <1>17. total_heap_size' = (m + n) * PAGE_SIZE
    <2>1. total_heap_size' = m * PAGE_SIZE + n * PAGE_SIZE
      BY <1>1 DEF Expanded, HeapPages
    <2> QED BY <2>1 DEF PAGE_SIZE
  <1>18. pages' = pages \union (z .. (z + n - 1))
    BY <1>9, <1>12 DEF HeapPages
  <1> HIDE DEF z
  <1>19. IsBitmap(pmm')
    BY <1>2, <1>5 DEF Taken
  <1>20. CASE m > 0
    <2>1. /\ z = s + m /\ z + n = s + (m + n)
          /\ (s .. (s + m - 1)) \union (z .. (z + n - 1)) = s .. (s + (m + n) - 1)
      BY <1>14, <1>20
    <2>2. Grown(s, m, n, t.got[1])
      BY <1>14, <1>16, <1>17, <1>18, <2>1 DEF Grown, HeapPages
    <2> QED BY <1>1, <1>19, <2>2
  <1>21. CASE m = 0
    <2>1. blocks = <<>>
      <3> SUFFICES ASSUME blocks # <<>> PROVE FALSE
        OBVIOUS
      <3>1. 1 \in 1 .. Len(blocks)
        OBVIOUS
      <3>2. s * PAGE_SIZE \in Nat /\ (s + m) * PAGE_SIZE = s * PAGE_SIZE
        BY <1>21 DEF PAGE_SIZE
      <3> DEFINE a == s * PAGE_SIZE
      <3>3. Laid(blocks, a, a)
        BY <3>2 DEF HeapPages
      <3>4. a \in Nat
        BY <3>2
      <3> HIDE DEF a
      <3>5. a <= blocks[1].addr /\ EndOf(blocks[1]) <= a
        BY <3>1, <3>3, <3>4, LaidWithin
      <3>6. /\ blocks[1].addr \in Nat /\ blocks[1].size \in Nat
            /\ EndOf(blocks[1]) = blocks[1].addr + 32 + blocks[1].size
        BY <3>1, BlockTypes
      <3> QED BY <3>4, <3>5, <3>6
    <2>2. Laid(<<>>, z * PAGE_SIZE, (z + m) * PAGE_SIZE)
      BY <1>14, <1>21 DEF Laid
    <2>3. /\ z + m = z /\ z + (m + n) = z + n
          /\ (s .. (s + m - 1)) \union (z .. (z + n - 1)) = z .. (z + (m + n) - 1)
      BY <1>14, <1>21
    <2>4. Grown(z, m, n, t.got[1])
      BY <1>14, <1>16, <1>17, <1>18, <2>1, <2>2, <2>3 DEF Grown, HeapPages
    <2> QED BY <1>1, <1>14, <1>19, <2>4
  <1> QED BY <1>20, <1>21

(* An expansion that fails loses pages and does nothing else. *)
LEMMA Failure ==
  ASSUME NEW s \in Nat \ {0}, NEW m \in Nat, HeapPages(s, m), IsBitmap(pmm),
         NEW min_size \in Nat, ExpandFails(min_size)
  PROVE  /\ IsBitmap(pmm')
         /\ HeapPages(s, m)'
         /\ UNCHANGED <<blocks, total_heap_size, pages, live>>
  <1>1. PICK n \in Nat \ {0} : ExpandSize(min_size) \div PAGE_SIZE = n
    BY ExpandSizePages
  <1> DEFINE t == TakePages(pmm, n)
  <1>2. t.failed /\ pmm' = t.pm
    BY <1>1 DEF ExpandFails
  <1>3. s + m \in Nat /\ \A p \in FreePages(pmm) \ {0} : p >= s + m
    BY DEF HeapPages
  <1>4. Taken(t, s + m, n)
    BY <1>3, TakePagesTaken
  <1> HIDE DEF t
  <1>5. IsBitmap(pmm') /\ \A p \in FreePages(pmm') \ {0} : p >= s + m
    BY <1>2, <1>4 DEF Taken
  <1>6. UNCHANGED <<blocks, total_heap_size, pages, live>>
    BY DEF ExpandFails
  <1> QED BY <1>5, <1>6 DEF HeapPages

(* The block over n new pages. *)
LEMMA NewBlockShape ==
  ASSUME NEW a \in Nat, NEW n \in Nat \ {0}
  PROVE  /\ NewBlock(a * PAGE_SIZE, n * PAGE_SIZE) \in Block
         /\ NewBlock(a * PAGE_SIZE, n * PAGE_SIZE).addr = a * PAGE_SIZE
         /\ NewBlock(a * PAGE_SIZE, n * PAGE_SIZE).is_free
         /\ NewBlock(a * PAGE_SIZE, n * PAGE_SIZE).size = n * PAGE_SIZE - BLOCK_HEADER_SIZE
         /\ EndOf(NewBlock(a * PAGE_SIZE, n * PAGE_SIZE)) = (a + n) * PAGE_SIZE
  BY DEF NewBlock, Block, EndOf, BLOCK_HEADER_SIZE, PAGE_SIZE
-------------------------------------------------------------------------------

(* What a preempted call has chosen is still there.                        *)
LEMMA Untouched ==
  ASSUME blocks \in Seq(Block), blocks' \in Seq(Block), ~Disturbs,
         NEW d \in Callers, call'[d] = call[d], call[d].pc \in {"take", "coalesce"},
         NEW k \in 1 .. Len(blocks), blocks[k].addr = call[d].block
  PROVE  \E i \in 1 .. Len(blocks') : blocks'[i] = blocks[k]
  <1>1. Chosen(d)' = Chosen(d)
    BY DEF Disturbs
  <1>2. blocks[k] \in Chosen(d)
    BY DEF Chosen, Place
  <1>3. blocks[k] \in {blocks'[i] : i \in Place(d)'}
    BY <1>1, <1>2 DEF Chosen
  <1>4. PICK i \in Place(d)' : blocks'[i] = blocks[k]
    BY <1>3
  <1>5. i \in DOMAIN blocks'
    BY <1>4 DEF Place
  <1> QED BY <1>4, <1>5

(* What the call of caller c may find merged by others.                    *)
LEMMA OthersMerge ==
  ASSUME Calls, NEW c \in Callers
  PROVE  /\ call[c].pc # "coalesce" => PairsIn(blocks, MergedBy(Callers \ {c}))
         /\ call[c].pc = "coalesce" =>
              PairsIn(blocks, MergedBy(Callers \ {c}) \union {call[c].block})
  <1>1. \A x \in MergedBy(Callers) :
          x \in MergedBy(Callers \ {c}) \/ (x = call[c].block /\ call[c].pc = "coalesce")
    BY DEF MergedBy
  <1> QED BY <1>1 DEF Calls, PairsIn

(* A block that a call of these callers is about to merge is in the list.  *)
LEMMA MergedPlace ==
  ASSUME Calls, NEW cs \in SUBSET Callers, NEW x \in MergedBy(cs)
  PROVE  \E d \in cs, k \in 1 .. Len(blocks) :
           call[d].pc = "coalesce" /\ x = call[d].block /\ blocks[k].addr = x /\ blocks[k].is_free
  <1>1. PICK d \in cs : call[d].pc = "coalesce" /\ x = call[d].block
    BY DEF MergedBy
  <1>2. CallOk(call[d], blocks)
    BY DEF Calls
  <1> QED BY <1>1, <1>2 DEF CallOk

LEMMA PairsMore ==
  ASSUME NEW bs, NEW C, NEW D, PairsIn(bs, C), \A x \in C : x \in D
  PROVE  PairsIn(bs, D)
  BY DEF PairsIn

(* One caller moves, and no other loses what it has chosen.                *)
LEMMA CallsAfter ==
  ASSUME Typed, Calls, NEW c \in Callers, blocks' \in Seq(Block), ~Disturbs,
         NEW r \in CallRecord, call' = [call EXCEPT ![c] = r],
         CallOk(r, blocks'),
         r.pc # "coalesce" => PairsIn(blocks', MergedBy(Callers \ {c})),
         r.pc = "coalesce" => PairsIn(blocks', MergedBy(Callers \ {c}) \union {r.block})
  PROVE  Calls' /\ call' \in [Callers -> CallRecord]
  <1>1. call \in [Callers -> CallRecord] /\ blocks \in Seq(Block)
    BY DEF Typed
  <1>2. call' \in [Callers -> CallRecord] /\ call'[c] = r
        /\ \A d \in Callers \ {c} : call'[d] = call[d]
    BY <1>1
  <1>3. ASSUME NEW d \in Callers \ {c}
        PROVE  CallOk(call[d], blocks')
    <2>1. CallOk(call[d], blocks)
      BY DEF Calls
    <2>2. CASE call[d].pc = "take"
      <3>1. PICK k \in 1 .. Len(blocks) : /\ blocks[k].addr = call[d].block /\ blocks[k].is_free
                                          /\ blocks[k].size >= call[d].size
        BY <2>1, <2>2 DEF CallOk
      <3>2. \E i \in 1 .. Len(blocks') : blocks'[i] = blocks[k]
        BY <1>1, <1>2, <2>2, <3>1, Untouched
      <3> QED BY <2>1, <2>2, <3>1, <3>2 DEF CallOk
    <2>3. CASE call[d].pc = "coalesce"
      <3>1. PICK k \in 1 .. Len(blocks) : blocks[k].addr = call[d].block /\ blocks[k].is_free
        BY <2>1, <2>3 DEF CallOk
      <3>2. \E i \in 1 .. Len(blocks') : blocks'[i] = blocks[k]
        BY <1>1, <1>2, <2>3, <3>1, Untouched
      <3> QED BY <2>1, <2>3, <3>1, <3>2 DEF CallOk
    <2>4. CASE call[d].pc \notin {"take", "coalesce"}
      BY <2>1, <2>4 DEF CallOk
    <2> QED BY <2>2, <2>3, <2>4
  <1>4. \A d \in Callers : CallOk(call'[d], blocks')
    BY <1>2, <1>3
  <1>5. PairsIn(blocks', MergedBy(Callers)')
    <2> DEFINE others == MergedBy(Callers \ {c})
               now == MergedBy(Callers)'
    <2>1. \A x \in others : x \in now
      BY <1>2 DEF MergedBy
    <2>2. r.pc = "coalesce" => r.block \in now
      BY <1>2 DEF MergedBy
    <2>3. r.pc # "coalesce" => PairsIn(blocks', others)
      OBVIOUS
    <2>4. r.pc = "coalesce" => PairsIn(blocks', others \union {r.block})
      OBVIOUS
    <2> HIDE DEF others, now
    <2>5. ASSUME r.pc = "coalesce" PROVE PairsIn(blocks', now)
      <3>1. \A x \in others \union {r.block} : x \in now
        BY <2>1, <2>2, <2>5
      <3> QED BY <2>4, <2>5, <3>1, PairsMore
    <2>6. ASSUME r.pc # "coalesce" PROVE PairsIn(blocks', now)
      BY <2>1, <2>3, <2>6, PairsMore
    <2> QED BY <2>5, <2>6 DEF now
  <1> QED BY <1>2, <1>4, <1>5 DEF Calls

LEMMA AlignUp ==
  ASSUME NEW x \in Nat
  PROVE  align_up(x, 8) \in Nat /\ align_up(x, 8) >= x
  BY DEF align_up

(* Block k is handed out, whether it was found or has just been appended.  *)
LEMMA HandOutKeeps ==
  ASSUME NEW bs \in Seq(Block), NEW first, NEW end, Laid(bs, first, end),
         live \subseteq [ptr : Nat, size : Nat, alignment : Nat],
         HeldIs(live, Used(bs)), NEW k \in 1 .. Len(bs), bs[k].is_free,
         NEW size \in Nat, NEW asked \in Nat, NEW alignment \in Nat,
         bs[k].size >= size, size >= asked,
         NEW C, bs[k].addr \notin C,
         \A j \in 1 .. (Len(bs) - 1) :
           bs[j].is_free /\ bs[j + 1].is_free =>
             j + 1 = k \/ bs[j].addr \in C \/ bs[j + 1].addr \in C,
         HandOut(bs, k, size, asked, alignment)
  PROVE  /\ blocks' \in Seq(Block) /\ Laid(blocks', first, end)
         /\ live' \subseteq [ptr : Nat, size : Nat, alignment : Nat]
         /\ HeldIs(live', Used(blocks'))
         /\ PairsIn(blocks', C)
  <1> DEFINE t == HandedOut(bs, k, size)
             a == [ptr |-> bs[k].addr + BLOCK_HEADER_SIZE, size |-> asked,
                   alignment |-> alignment]
  <1>1. blocks' = t /\ live' = live \union {a}
    BY DEF HandOut, HandedOut
  <1>2. t \in Seq(Block) /\ Laid(t, first, end)
    BY HandOutLaid
  <1>3. PairsIn(t, C)
    BY HandOutPairs
  <1>4. PICK b \in Block : /\ b.addr = bs[k].addr /\ b.size >= size
                           /\ Used(t) = Used(bs) \union {b}
    BY HandOutUsed
  <1> HIDE DEF t
  <1>5. bs[k].addr \in Nat /\ b.addr \in Nat /\ b.size \in Nat
    <2>1. b.addr \in Nat /\ b.size \in Nat
      BY DEF Block
    <2> QED BY <1>4, <2>1
  <1>6. a.ptr = bs[k].addr + BLOCK_HEADER_SIZE /\ a.size = asked
        /\ a \in [ptr : Nat, size : Nat, alignment : Nat]
    BY <1>5 DEF BLOCK_HEADER_SIZE
  <1> HIDE DEF a
  <1>7. \A c \in Used(bs) : c.addr \in Nat /\ c.addr # b.addr
    BY <1>4, UsedAddresses
  <1>8. a.ptr = b.addr + BLOCK_HEADER_SIZE /\ b.size >= a.size
    BY <1>4, <1>5, <1>6
  <1>9. HeldIs(live \union {a}, Used(bs) \union {b})
    BY <1>5, <1>7, <1>8, HeldAdd
  <1> QED BY <1>1, <1>2, <1>3, <1>4, <1>6, <1>9

-------------------------------------------------------------------------------

LEMMA InitEstablishes ==
  ASSUME Init
  PROVE  IInv
  <1>1. \A p \in FreePages(pmm) \ {0} : p >= 1
    BY DEF FreePages
  <1>2. NoCall \in CallRecord /\ NoCall.pc = "none"
    BY DEF NoCall, CallRecord
  <1>3. IsBitmap(pmm)
    BY DEF Init, pmm_init, IsBitmap
  <1>4. Typed
    BY <1>2, <1>3 DEF Typed, Init
  <1>5. HeapPages(1, 0)
    <2>1. Laid(<<>>, 1 * PAGE_SIZE, (1 + 0) * PAGE_SIZE)
      BY DEF Laid, PAGE_SIZE
    <2>2. {} = 1 .. (1 + 0 - 1) /\ 1 + 0 = 1 /\ 0 * PAGE_SIZE = 0
      BY DEF PAGE_SIZE
    <2> QED BY <1>1, <2>1, <2>2 DEF HeapPages, Init
  <1>6. HeldIs(live, Used(blocks))
    <2>1. Used(<<>>) = {}
      BY DEF Used
    <2> QED BY <2>1 DEF HeldIs, Init
  <1>7. Calls
    BY <1>2 DEF Calls, CallOk, PairsIn, Init
  <1> QED BY <1>1, <1>4, <1>5, <1>6, <1>7 DEF IInv

LEMMA InitKeeps ==
  ASSUME IInv, kheap_init, Unbroken'
  PROVE  IInv'
  <1>1. PICK s \in Nat \ {0}, m \in Nat : HeapPages(s, m)
    BY DEF IInv
  <1>2. blocks = <<>> /\ call' = call /\ \A c \in Callers : call[c] = NoCall
    BY DEF kheap_init
  <1>3. m = 0
    <2>1. (s + m) * PAGE_SIZE = s * PAGE_SIZE
      BY <1>1, <1>2 DEF HeapPages, Laid
    <2> QED BY <2>1 DEF PAGE_SIZE
  <1>4. Calls' \/ Len(blocks') > 1
    <2>1. \A c \in Callers : CallOk(call'[c], blocks')
      BY <1>2 DEF CallOk, NoCall
    <2>2. PairsIn(blocks', MergedBy(Callers)') \/ Len(blocks') > 1
      BY DEF PairsIn
    <2> QED BY <2>1, <2>2 DEF Calls
  <1>5. HEAP_EXPAND_SIZE \in Nat
    BY DEF HEAP_EXPAND_SIZE, PAGE_SIZE
  <1>6. ASSUME NEW t, Expanded(HEAP_EXPAND_SIZE, t),
               blocks' = <<NewBlock(t.got[1], ExpandSize(HEAP_EXPAND_SIZE))>>,
               live' = live
        PROVE  IInv'
    <2>1. PICK n \in Nat \ {0}, z \in Nat \ {0} :
            /\ ExpandSize(HEAP_EXPAND_SIZE) = n * PAGE_SIZE
            /\ Grown(z, m, n, t.got[1]) /\ IsBitmap(pmm')
      BY <1>1, <1>5, <1>6, Expansion DEF IInv, Typed
    <2> DEFINE b == NewBlock(z * PAGE_SIZE, n * PAGE_SIZE)
    <2>2. blocks' = <<b>>
      BY <1>3, <1>6, <2>1 DEF Grown
    <2>3. b \in Block /\ b.addr = z * PAGE_SIZE /\ b.is_free /\ EndOf(b) = (z + n) * PAGE_SIZE
      BY NewBlockShape
    <2> HIDE DEF b
    <2>4. Laid(<<b>>, z * PAGE_SIZE, (z + n) * PAGE_SIZE)
      BY <2>3 DEF Laid
    <2>5. HeapPages(z, n)'
      <3>1. m + n = n
        BY <1>3
      <3> QED BY <2>1, <2>2, <2>4, <3>1 DEF HeapPages, Grown
    <2>6. Used(<<b>>) = Used(<<>>)
      <3>1. Used(<<b>>) = {} /\ Used(<<>>) = {}
        BY <2>3 DEF Used
      <3> QED BY <3>1
    <2>7. HeldIs(live', Used(blocks'))
      BY <1>2, <1>6, <2>2, <2>6 DEF IInv
    <2>8. ~(Len(blocks') > 1)
      BY <2>2
    <2>9. Typed'
      BY <1>2, <1>6, <2>1, <2>2, <2>3 DEF Typed, IInv, Grown, PAGE_SIZE
    <2> QED BY <1>4, <2>5, <2>7, <2>8, <2>9 DEF IInv
  <1>7. CASE ExpandFails(HEAP_EXPAND_SIZE)
    <2>1. /\ IsBitmap(pmm') /\ HeapPages(s, m)'
          /\ UNCHANGED <<blocks, total_heap_size, pages, live>>
      BY <1>1, <1>5, <1>7, Failure DEF IInv, Typed
    <2>2. Typed'
      BY <1>2, <2>1 DEF Typed, IInv
    <2>3. ~(Len(blocks') > 1)
      BY <1>2, <2>1
    <2> QED BY <1>4, <2>1, <2>2, <2>3 DEF IInv
  <1> QED BY <1>6, <1>7 DEF kheap_init

LEMMA SearchKeeps ==
  ASSUME IInv, ~Disturbs, NEW c \in Callers, NEW size \in Nat, NEW asked \in Nat,
         NEW alignment \in Nat, size >= asked, Search(c, size, asked, alignment)
  PROVE  IInv'
  <1>1. PICK s \in Nat \ {0}, m \in Nat : HeapPages(s, m)
    BY DEF IInv
  <1>2. call[c].pc # "coalesce" /\ UNCHANGED heap
    BY DEF Search, NoCall
  <1>3. PairsIn(blocks, MergedBy(Callers \ {c}))
    BY <1>2, OthersMerge DEF IInv
  <1>4. PICK r \in CallRecord : call' = [call EXCEPT ![c] = r] /\ CallOk(r, blocks)
                                /\ r.pc # "coalesce"
    <2>1. ASSUME NEW k \in DOMAIN blocks, Fits(k, size),
                 Goes(c, "take", blocks[k].addr, size, asked, alignment)
          PROVE  \E r \in CallRecord : call' = [call EXCEPT ![c] = r] /\ CallOk(r, blocks)
                                       /\ r.pc # "coalesce"
      <3> DEFINE r == [pc |-> "take", block |-> blocks[k].addr, size |-> size,
                       asked |-> asked, alignment |-> alignment]
      <3>1. k \in 1 .. Len(blocks) /\ blocks[k].addr \in Nat
        <4>1. blocks \in Seq(Block)
          BY DEF IInv, Typed
        <4>2. k \in 1 .. Len(blocks)
          BY <4>1
        <4> QED BY <4>1, <4>2, BlockTypes
      <3>2. r \in CallRecord
        BY <3>1 DEF CallRecord
      <3>3. r.pc = "take" /\ r.size = size /\ r.asked = asked /\ r.block = blocks[k].addr
        OBVIOUS
      <3>4. call' = [call EXCEPT ![c] = r]
        BY <2>1 DEF Goes
      <3> HIDE DEF r
      <3>5. CallOk(r, blocks)
        BY <2>1, <3>1, <3>3 DEF CallOk, Fits
      <3> QED BY <3>2, <3>3, <3>4, <3>5
    <2>2. ASSUME Goes(c, "expand", 0, size, asked, alignment)
          PROVE  \E r \in CallRecord : call' = [call EXCEPT ![c] = r] /\ CallOk(r, blocks)
                                       /\ r.pc # "coalesce"
      <3> DEFINE r == [pc |-> "expand", block |-> 0, size |-> size,
                       asked |-> asked, alignment |-> alignment]
      <3>1. r \in CallRecord
        BY DEF CallRecord
      <3>2. r.pc = "expand" /\ r.size = size /\ r.asked = asked
        OBVIOUS
      <3>3. call' = [call EXCEPT ![c] = r]
        BY <2>2 DEF Goes
      <3> HIDE DEF r
      <3>4. CallOk(r, blocks)
        BY <3>2 DEF CallOk
      <3> QED BY <3>1, <3>2, <3>3, <3>4
    <2> QED BY <2>1, <2>2 DEF Search
  <1>5. blocks' = blocks /\ blocks' \in Seq(Block)
    BY <1>2 DEF heap, IInv, Typed
  <1>6. Calls' /\ call' \in [Callers -> CallRecord]
    BY <1>2, <1>3, <1>4, <1>5, CallsAfter DEF IInv
  <1>7. Typed'
    BY <1>2, <1>6 DEF Typed, IInv, heap
  <1>8. HeapPages(s, m)'
    BY <1>1, <1>2 DEF HeapPages, heap
  <1>9. HeldIs(live', Used(blocks'))
    BY <1>2 DEF IInv, heap
  <1> QED BY <1>6, <1>7, <1>8, <1>9 DEF IInv

(* A call that does nothing. *)
LEMMA IdleKeeps ==
  ASSUME IInv, UNCHANGED <<heap, call>>
  PROVE  IInv'
  <1>1. /\ UNCHANGED <<blocks, total_heap_size, used_heap_size, pmm, pages, live>>
        /\ call' = call
    BY DEF heap
  <1>2. MergedBy(Callers)' = MergedBy(Callers)
    BY <1>1 DEF MergedBy
  <1>3. Calls'
    BY <1>1, <1>2 DEF IInv, Calls
  <1> QED BY <1>1, <1>3 DEF IInv, Typed, HeapPages

LEMMA AllocKeeps ==
  ASSUME IInv, ~Disturbs, NEW c \in Callers, KHeapAssumption,
         \/ \E size \in Sizes : kmalloc(c, size)
         \/ \E size \in AlignedSizes, alignment \in Alignments :
              kmalloc_aligned(c, size, alignment)
  PROVE  IInv'
  <1>1. ASSUME NEW size \in Sizes, kmalloc(c, size)
        PROVE  IInv'
    <2>1. size \in Nat
      BY DEF KHeapAssumption
    <2>2. align_up(size, 8) \in Nat /\ align_up(size, 8) >= size
      BY <2>1, AlignUp
    <2> QED BY <1>1, <2>1, <2>2, SearchKeeps, IdleKeeps DEF kmalloc
  <1>2. ASSUME NEW size \in AlignedSizes, NEW alignment \in Alignments,
               kmalloc_aligned(c, size, alignment)
        PROVE  IInv'
    <2>1. size \in Nat /\ alignment \in Nat
      BY DEF KHeapAssumption
    <2> DEFINE more == size + alignment + BLOCK_HEADER_SIZE
    <2>2. more \in Nat /\ more >= size
      BY <2>1 DEF BLOCK_HEADER_SIZE
    <2>3. Search(c, align_up(more, 8), size, alignment) \/ UNCHANGED <<heap, call>>
      BY <1>2 DEF kmalloc_aligned
    <2> HIDE DEF more
    <2>4. align_up(more, 8) \in Nat /\ align_up(more, 8) >= more
      BY <2>2, AlignUp
    <2>5. align_up(more, 8) >= size
      BY <2>1, <2>2, <2>4
    <2> QED BY <2>1, <2>3, <2>4, <2>5, SearchKeeps, IdleKeeps
  <1> QED BY <1>1, <1>2

LEMMA TakeKeeps ==
  ASSUME IInv, ~Disturbs, NEW c \in Callers, Take(c)
  PROVE  IInv'
  <1>1. PICK s \in Nat \ {0}, m \in Nat : HeapPages(s, m)
    BY DEF IInv
  <1>2. call[c].pc = "take" /\ UNCHANGED <<total_heap_size, pmm, pages>>
        /\ call' = [call EXCEPT ![c] = NoCall]
    BY DEF Take, Returns
  <1>3. PICK k \in Place(c) :
          HandOut(blocks, k, call[c].size, call[c].asked, call[c].alignment)
    BY DEF Take
  <1>4. blocks \in Seq(Block) /\ live \subseteq [ptr : Nat, size : Nat, alignment : Nat]
    BY DEF IInv, Typed
  <1>5. call[c].size \in Nat /\ call[c].asked \in Nat /\ call[c].alignment \in Nat
    <2>1. call[c] \in CallRecord
      BY DEF IInv, Typed
    <2> QED BY <2>1 DEF CallRecord
  <1>6. Laid(blocks, s * PAGE_SIZE, (s + m) * PAGE_SIZE)
    BY <1>1 DEF HeapPages
  <1>7. CallOk(call[c], blocks)
    BY DEF IInv, Calls
  <1>8. call[c].size >= call[c].asked
    BY <1>2, <1>7 DEF CallOk
  <1>9. k \in 1 .. Len(blocks) /\ blocks[k].is_free /\ blocks[k].size >= call[c].size
    <2>1. k \in 1 .. Len(blocks) /\ blocks[k].addr = call[c].block
      BY <1>4 DEF Place
    <2>2. PICK i \in 1 .. Len(blocks) : /\ blocks[i].addr = call[c].block /\ blocks[i].is_free
                                        /\ blocks[i].size >= call[c].size
      BY <1>2, <1>7 DEF CallOk
    <2>3. i = k
      BY <1>4, <1>6, <2>1, <2>2, OnePlace
    <2> QED BY <2>1, <2>2, <2>3
  <1> DEFINE C == MergedBy(Callers \ {c})
  <1>10. PairsIn(blocks, C)
    BY <1>2, OthersMerge DEF IInv
  <1>11. blocks[k].addr \notin C
    <2> SUFFICES ASSUME blocks[k].addr \in C PROVE FALSE
      OBVIOUS
    <2>1. PICK d \in Callers \ {c} : call[d].pc = "coalesce" /\ blocks[k].addr = call[d].block
      BY DEF MergedBy
    <2>2. call'[d] = call[d]
      BY <1>2 DEF IInv, Typed
    <2>3. /\ blocks' = HandedOut(blocks, k, call[c].size)
          /\ blocks' \in Seq(Block) /\ Laid(blocks', s * PAGE_SIZE, (s + m) * PAGE_SIZE)
      BY <1>3, <1>4, <1>5, <1>6, <1>9, HandOutLaid DEF HandOut, HandedOut
    <2>4. PICK i \in 1 .. Len(blocks') : blocks'[i] = blocks[k]
      BY <1>4, <1>9, <2>1, <2>2, <2>3, Untouched
    <2>5. k \in 1 .. Len(blocks') /\ blocks'[k].addr = blocks[k].addr /\ ~blocks'[k].is_free
      <3> DEFINE t == HandedOut(blocks, k, call[c].size)
      <3>1. Marked(t, blocks, k) \/ Cut(t, blocks, k, call[c].size)
        BY <1>4, <1>5, <1>9, HandedOutShape
      <3> HIDE DEF t
      <3>2. k \in 1 .. Len(t) /\ t[k].addr = blocks[k].addr /\ ~t[k].is_free
        BY <1>4, <1>9, <3>1 DEF Marked, Cut
      <3> QED BY <2>3, <3>2 DEF t
    <2>6. i = k
      BY <2>3, <2>4, <2>5, OnePlace
    <2> QED BY <1>9, <2>4, <2>5, <2>6
  <1> HIDE DEF C
  <1>12. HeldIs(live, Used(blocks))
    BY DEF IInv
  <1>13. /\ blocks' \in Seq(Block) /\ Laid(blocks', s * PAGE_SIZE, (s + m) * PAGE_SIZE)
         /\ live' \subseteq [ptr : Nat, size : Nat, alignment : Nat]
         /\ HeldIs(live', Used(blocks'))
         /\ PairsIn(blocks', C)
    BY <1>3, <1>4, <1>5, <1>6, <1>8, <1>9, <1>10, <1>11, <1>12, HandOutKeeps DEF PairsIn
  <1>14. NoCall \in CallRecord /\ NoCall.pc = "none"
    BY DEF NoCall, CallRecord
  <1>15. CallOk(NoCall, blocks')
    BY <1>14 DEF CallOk
  <1>16. Calls' /\ call' \in [Callers -> CallRecord]
    BY <1>2, <1>13, <1>14, <1>15, CallsAfter DEF IInv, C
  <1>17. Typed'
    BY <1>2, <1>13, <1>16 DEF Typed, IInv
  <1>18. HeapPages(s, m)'
    BY <1>1, <1>2, <1>13 DEF HeapPages
  <1> QED BY <1>13, <1>16, <1>17, <1>18 DEF IInv

LEMMA ExpandKeeps ==
  ASSUME IInv, ~Disturbs, NEW c \in Callers, AllocExpand(c), Unbroken'
  PROVE  IInv'
  <1> DEFINE min_size == call[c].size + BLOCK_HEADER_SIZE
             t == TakePages(pmm, ExpandSize(min_size) \div PAGE_SIZE)
  <1>1. PICK s \in Nat \ {0}, m \in Nat : HeapPages(s, m)
    BY DEF IInv
  <1>2. call[c].pc = "expand" /\ call' = [call EXCEPT ![c] = NoCall]
    BY DEF AllocExpand, Returns
  <1>3. \/ /\ Expanded(min_size, t)
           /\ HandOut(Append(blocks, NewBlock(t.got[1], ExpandSize(min_size))),
                      Len(blocks) + 1, call[c].size, call[c].asked, call[c].alignment)
        \/ ExpandFails(min_size)
    BY DEF AllocExpand
  <1> HIDE DEF t
  <1>4. blocks \in Seq(Block) /\ live \subseteq [ptr : Nat, size : Nat, alignment : Nat]
        /\ IsBitmap(pmm)
    BY DEF IInv, Typed
  <1>5. call[c].size \in Nat /\ call[c].asked \in Nat /\ call[c].alignment \in Nat
    <2>1. call[c] \in CallRecord
      BY DEF IInv, Typed
    <2> QED BY <2>1 DEF CallRecord
  <1>6. min_size \in Nat /\ min_size = call[c].size + 32
    BY <1>5 DEF BLOCK_HEADER_SIZE
  <1> HIDE DEF min_size
  <1>7. call[c].size >= call[c].asked
    BY <1>2 DEF CallOk, IInv, Calls
  <1> DEFINE C == MergedBy(Callers \ {c})
  <1>8. PairsIn(blocks, C)
    BY <1>2, OthersMerge DEF IInv
  <1>9. NoCall \in CallRecord /\ NoCall.pc = "none"
    BY DEF NoCall, CallRecord
  <1>10. ASSUME PairsIn(blocks', C), blocks' \in Seq(Block)
         PROVE  Calls' /\ call' \in [Callers -> CallRecord]
    <2>1. CallOk(NoCall, blocks')
      BY <1>9 DEF CallOk
    <2> QED BY <1>2, <1>9, <1>10, <2>1, CallsAfter DEF IInv
  <1>11. ASSUME Expanded(min_size, t),
                HandOut(Append(blocks, NewBlock(t.got[1], ExpandSize(min_size))),
                        Len(blocks) + 1, call[c].size, call[c].asked, call[c].alignment)
         PROVE  IInv'
    <2>1. PICK n \in Nat \ {0}, z \in Nat \ {0} :
            /\ ExpandSize(min_size) = n * PAGE_SIZE /\ n * PAGE_SIZE >= min_size
            /\ Grown(z, m, n, t.got[1]) /\ IsBitmap(pmm')
      BY <1>1, <1>4, <1>6, <1>11, Expansion
    <2> DEFINE b == NewBlock((z + m) * PAGE_SIZE, n * PAGE_SIZE)
               bs == Append(blocks, b)
               k == Len(blocks) + 1
    <2>2. HandOut(bs, k, call[c].size, call[c].asked, call[c].alignment)
      BY <1>11, <2>1 DEF Grown
    <2>3. b \in Block /\ b.addr = (z + m) * PAGE_SIZE /\ b.is_free
          /\ b.size = n * PAGE_SIZE - BLOCK_HEADER_SIZE /\ EndOf(b) = (z + m + n) * PAGE_SIZE
      <3>1. z + m \in Nat
        OBVIOUS
      <3> QED BY <3>1, NewBlockShape
    <2> HIDE DEF b
    <2>4. Laid(blocks, z * PAGE_SIZE, (z + m) * PAGE_SIZE)
      BY <2>1 DEF Grown
    <2>5. /\ bs \in Seq(Block) /\ Len(bs) = k /\ bs[k] = b
          /\ Laid(bs, z * PAGE_SIZE, EndOf(b))
          /\ Used(bs) = Used(blocks)
          /\ \A j \in 1 .. Len(blocks) :
               bs[j].is_free /\ bs[j + 1].is_free =>
                 j + 1 = k \/ bs[j].addr \in C \/ bs[j + 1].addr \in C
      BY <1>4, <1>8, <2>3, <2>4, AppendKeeps
    <2>6. k - 1 = Len(blocks) /\ k \in 1 .. k
      BY <1>4
    <2> HIDE DEF bs, k
    <2>7. bs[k].size >= call[c].size
      <3>1. \A x, y, w \in Nat : y = x + 32 /\ w >= y => w - 32 >= x
        OBVIOUS
      <3>2. n * PAGE_SIZE \in Nat
        BY DEF PAGE_SIZE
      <3> QED BY <1>5, <1>6, <2>1, <2>3, <2>5, <3>1, <3>2 DEF BLOCK_HEADER_SIZE
    <2>8. HeldIs(live, Used(bs))
      BY <2>5 DEF IInv
    <2>9. \A j \in 1 .. (Len(bs) - 1) :
            bs[j].is_free /\ bs[j + 1].is_free =>
              j + 1 = k \/ bs[j].addr \in C \/ bs[j + 1].addr \in C
      BY <2>5, <2>6
    <2>16. bs[k].addr \notin C
      <3> SUFFICES ASSUME b.addr \in C PROVE FALSE
        BY <2>5
      <3>1. PICK i \in 1 .. Len(blocks) : blocks[i].addr = b.addr
        BY MergedPlace DEF IInv, C
      <3>2. z * PAGE_SIZE \in Nat /\ (z + m) * PAGE_SIZE \in Nat
        BY DEF PAGE_SIZE
      <3>3. EndOf(blocks[i]) <= (z + m) * PAGE_SIZE
        BY <1>4, <2>4, <3>2, LaidWithin
      <3>4. blocks[i].addr \in Nat /\ blocks[i].size \in Nat
            /\ EndOf(blocks[i]) = blocks[i].addr + 32 + blocks[i].size
        BY <1>4, BlockTypes
      <3> QED BY <2>3, <3>1, <3>2, <3>3, <3>4
    <2>10. k \in 1 .. Len(bs) /\ bs[k].is_free
      BY <2>3, <2>5, <2>6
    <2>11. /\ blocks' \in Seq(Block) /\ Laid(blocks', z * PAGE_SIZE, EndOf(b))
           /\ live' \subseteq [ptr : Nat, size : Nat, alignment : Nat]
           /\ HeldIs(live', Used(blocks'))
           /\ PairsIn(blocks', C)
      BY <1>4, <1>5, <1>7, <2>2, <2>5, <2>7, <2>8, <2>9, <2>10, <2>16, HandOutKeeps
    <2>12. Calls' /\ call' \in [Callers -> CallRecord]
      BY <1>10, <2>11
    <2>13. m + n \in Nat /\ z + m + n = z + (m + n)
      OBVIOUS
    <2>14. HeapPages(z, m + n)'
      BY <2>1, <2>3, <2>11, <2>13 DEF HeapPages, Grown
    <2>15. Typed'
      <3>1. total_heap_size' \in Nat
        BY <2>1, <2>13 DEF Grown, PAGE_SIZE
      <3> QED BY <2>1, <2>11, <2>12, <3>1 DEF Typed, Grown
    <2> QED BY <2>11, <2>12, <2>13, <2>14, <2>15 DEF IInv
  <1>12. CASE ExpandFails(min_size)
    <2>1. /\ IsBitmap(pmm') /\ HeapPages(s, m)'
          /\ UNCHANGED <<blocks, total_heap_size, pages, live>>
      BY <1>1, <1>4, <1>6, <1>12, Failure
    <2>2. Calls' /\ call' \in [Callers -> CallRecord]
      BY <1>4, <1>8, <1>10, <2>1
    <2>3. Typed'
      BY <2>1, <2>2 DEF Typed, IInv
    <2>4. HeldIs(live', Used(blocks'))
      BY <2>1 DEF IInv
    <2> QED BY <2>1, <2>2, <2>3, <2>4 DEF IInv
  <1> QED BY <1>3, <1>11, <1>12

LEMMA KfreeKeeps ==
  ASSUME IInv, ~Disturbs, NEW c \in Callers, NEW ptr, kfree(c, ptr)
  PROVE  IInv'
  <1>1. PICK s \in Nat \ {0}, m \in Nat : HeapPages(s, m)
    BY DEF IInv
  <1> SUFFICES ASSUME ~UNCHANGED <<heap, call>> PROVE IInv'
    BY IdleKeeps
  <1>0. call[c].pc # "coalesce"
    BY DEF kfree, NoCall
  <1>3. PICK k \in DOMAIN blocks, a \in live :
          /\ blocks[k].addr + BLOCK_HEADER_SIZE = a.ptr
          /\ ~blocks[k].is_free
          /\ blocks' = Freed(blocks, k)
          /\ Goes(c, "coalesce", blocks[k].addr, 0, 0, 1)
          /\ live' = live \ {a} /\ UNCHANGED <<total_heap_size, pmm, pages>>
    BY DEF kfree, Freed, Pointer
  <1>2. UNCHANGED <<total_heap_size, pmm, pages>> /\ live' = live \ {a}
    BY <1>3
  <1>4. blocks \in Seq(Block) /\ live \subseteq [ptr : Nat, size : Nat, alignment : Nat]
    BY DEF IInv, Typed
  <1>5. k \in 1 .. Len(blocks)
    BY <1>4
  <1>6. Laid(blocks, s * PAGE_SIZE, (s + m) * PAGE_SIZE)
    BY <1>1 DEF HeapPages
  <1> DEFINE C == MergedBy(Callers \ {c})
  <1>7. PairsIn(blocks, C)
    BY <1>0, OthersMerge DEF IInv
  <1>8. HeldIs(live, Used(blocks))
    BY DEF IInv
  <1>9. /\ \A b \in Used(blocks) : b \in Block /\ b.addr \in Nat
        /\ \A b, d \in Used(blocks) : b.addr = d.addr => b = d
        /\ \A i \in 1 .. Len(blocks) : blocks[i].is_free =>
             \A b \in Used(blocks) : b.addr # blocks[i].addr
    BY <1>4, <1>6, UsedAddresses
  <1>10. blocks[k].addr \in Nat
    BY <1>4, <1>5, BlockTypes
  <1>11. ~blocks[k].is_free
    BY <1>3
  <1>12. blocks[k] \in Used(blocks)
    BY <1>4, <1>5, <1>11, UsedMember
  <1>13. /\ blocks' \in Seq(Block) /\ Len(blocks') = Len(blocks)
         /\ Laid(blocks', s * PAGE_SIZE, (s + m) * PAGE_SIZE)
         /\ blocks'[k].addr = blocks[k].addr /\ blocks'[k].is_free
         /\ Used(blocks') = Used(blocks) \ {blocks[k]}
         /\ PairsIn(blocks', C \union {blocks[k].addr})
    BY <1>3, <1>4, <1>5, <1>6, <1>7, <1>11, FreeKeeps
  <1>14. HeldIs(live', Used(blocks'))
    <2>1. HeldIs(live \ {a}, Used(blocks) \ {blocks[k]})
      BY <1>3, <1>8, <1>9, <1>12, HeldRemove
    <2> QED BY <1>2, <1>13, <2>1
  <1> DEFINE r == [pc |-> "coalesce", block |-> blocks[k].addr, size |-> 0, asked |-> 0,
                   alignment |-> 1]
  <1>15. r \in CallRecord /\ r.pc = "coalesce" /\ r.block = blocks[k].addr
         /\ call' = [call EXCEPT ![c] = r]
    BY <1>3, <1>10 DEF CallRecord, Goes
  <1> HIDE DEF r
  <1>16. CallOk(r, blocks')
    BY <1>5, <1>13, <1>15 DEF CallOk
  <1>17. Calls' /\ call' \in [Callers -> CallRecord]
    BY <1>13, <1>15, <1>16, CallsAfter DEF IInv
  <1>18. Typed'
    BY <1>2, <1>4, <1>13, <1>17 DEF Typed, IInv
  <1>19. HeapPages(s, m)'
    BY <1>1, <1>2, <1>13 DEF HeapPages
  <1> QED BY <1>14, <1>17, <1>18, <1>19 DEF IInv

LEMMA CoalesceStep ==
  ASSUME IInv, ~Disturbs, NEW c \in Callers, coalesce_blocks(c)
  PROVE  IInv'
  <1>1. PICK s \in Nat \ {0}, m \in Nat : HeapPages(s, m)
    BY DEF IInv
  <1>2. call[c].pc = "coalesce" /\ call' = [call EXCEPT ![c] = NoCall]
        /\ UNCHANGED <<total_heap_size, used_heap_size, pmm, pages, live>>
    BY DEF coalesce_blocks, Returns
  <1>3. PICK k \in Place(c) : blocks' = Coalesce(blocks, k)
    BY DEF coalesce_blocks
  <1>4. blocks \in Seq(Block)
    BY DEF IInv, Typed
  <1>5. Laid(blocks, s * PAGE_SIZE, (s + m) * PAGE_SIZE)
    BY <1>1 DEF HeapPages
  <1> DEFINE C == MergedBy(Callers \ {c})
  <1>6. k \in 1 .. Len(blocks) /\ blocks[k].is_free /\ blocks[k].addr = call[c].block
    <2>1. k \in 1 .. Len(blocks) /\ blocks[k].addr = call[c].block
      BY <1>4 DEF Place
    <2>2. PICK i \in 1 .. Len(blocks) : blocks[i].addr = call[c].block /\ blocks[i].is_free
      BY <1>2 DEF CallOk, IInv, Calls
    <2>3. i = k
      BY <1>4, <1>5, <2>1, <2>2, OnePlace
    <2> QED BY <2>1, <2>2, <2>3
  <1>7. /\ blocks' \in Seq(Block) /\ Laid(blocks', s * PAGE_SIZE, (s + m) * PAGE_SIZE)
        /\ Used(blocks') = Used(blocks) /\ PairsIn(blocks', C)
    <2>1. PairsIn(blocks, C \union {blocks[k].addr})
      BY <1>2, <1>6, OthersMerge DEF IInv
    <2>2. blocks' \in Seq(Block)
      BY <1>3, <1>4, <1>6, CoalesceTyped
    <2>3. ASSUME NEW j \in 1 .. Len(blocks), blocks[j].addr \in C
          PROVE  \E i \in 1 .. Len(blocks') : blocks'[i].addr = blocks[j].addr
      <3>1. PICK d \in Callers \ {c} : call[d].pc = "coalesce" /\ blocks[j].addr = call[d].block
        BY <2>3 DEF MergedBy
      <3>2. call'[d] = call[d]
        BY <1>2 DEF IInv, Typed
      <3> QED BY <1>4, <2>2, <3>1, <3>2, Untouched
    <2> QED BY <1>3, <1>4, <1>5, <1>6, <2>1, <2>3, CoalesceKeeps
  <1>8. NoCall \in CallRecord /\ NoCall.pc = "none"
    BY DEF NoCall, CallRecord
  <1>9. CallOk(NoCall, blocks')
    BY <1>8 DEF CallOk
  <1>10. Calls' /\ call' \in [Callers -> CallRecord]
    BY <1>2, <1>7, <1>8, <1>9, CallsAfter DEF IInv
  <1>11. Typed'
    BY <1>2, <1>7, <1>10 DEF Typed, IInv
  <1>12. HeapPages(s, m)'
    BY <1>1, <1>2, <1>7 DEF HeapPages
  <1>13. HeldIs(live', Used(blocks'))
    BY <1>2, <1>7 DEF IInv
  <1> QED BY <1>10, <1>11, <1>12, <1>13 DEF IInv

LEMMA OtherKeeps ==
  ASSUME IInv, OtherPageUser
  PROVE  IInv'
  <1>1. PICK s \in Nat \ {0}, m \in Nat : HeapPages(s, m)
    BY DEF IInv
  <1>2. /\ pmm' = Alloc(pmm)
        /\ UNCHANGED <<call, blocks, total_heap_size, used_heap_size, pages, live>>
    BY DEF OtherPageUser
  <1>3. IsBitmap(pmm') /\ FreePages(pmm') \subseteq FreePages(pmm)
    <2>1. CASE FreePages(pmm) = {}
      BY <1>2, <2>1 DEF Alloc, IInv, Typed
    <2>2. CASE FreePages(pmm) # {}
      BY <1>2, <2>2, AllocFrees DEF IInv, Typed
    <2> QED BY <2>1, <2>2
  <1>4. HeapPages(s, m)'
    BY <1>1, <1>2, <1>3 DEF HeapPages
  <1>5. MergedBy(Callers)' = MergedBy(Callers)
    BY <1>2 DEF MergedBy
  <1>6. Calls' /\ Typed' /\ HeldIs(live', Used(blocks'))
    BY <1>2, <1>3, <1>5 DEF IInv, Calls, Typed
  <1> QED BY <1>4, <1>6 DEF IInv

LEMMA StepKeeps ==
  ASSUME IInv, [Next]_vars, ~torn'
  PROVE  IInv'
  <1>1. KHeapAssumption
    BY KHeapAssumption
  <1>2. CASE UNCHANGED vars
    BY <1>2, IdleKeeps DEF vars
  <1> SUFFICES ASSUME Step, ~Disturbs, Unbroken'
               PROVE  IInv'
    BY <1>2 DEF Next, Rest
  <1>3. CASE kheap_init
    BY <1>3, InitKeeps
  <1>4. ASSUME NEW c \in Callers,
               \/ \E size \in Sizes : kmalloc(c, size)
               \/ \E size \in AlignedSizes, alignment \in Alignments :
                    kmalloc_aligned(c, size, alignment)
        PROVE  IInv'
    BY <1>1, <1>4, AllocKeeps
  <1>5. ASSUME NEW c \in Callers, Take(c) PROVE IInv'
    BY <1>5, TakeKeeps
  <1>6. ASSUME NEW c \in Callers, AllocExpand(c) PROVE IInv'
    BY <1>6, ExpandKeeps
  <1>7. ASSUME NEW c \in Callers, NEW ptr, kfree(c, ptr) PROVE IInv'
    BY <1>7, KfreeKeeps
  <1>8. ASSUME NEW c \in Callers, coalesce_blocks(c) PROVE IInv'
    BY <1>8, CoalesceStep
  <1>9. CASE OtherPageUser
    BY <1>9, OtherKeeps
  <1> QED BY <1>3, <1>4, <1>5, <1>6, <1>7, <1>8, <1>9 DEF Step

(* Nothing mends a torn heap. *)
LEMMA TornStays == torn /\ [Next]_vars => torn'
  BY DEF Next, Rest, vars

(* Until it is torn, the heap is one run of pages that blocks tile, behind *)
(* which the free pages begin; callers hold exactly the blocks in use; and *)
(* what a preempted call relies on is so.                                  *)
THEOREM HeapInvariant == Spec => [](torn \/ IInv)
  <1>1. Init => torn \/ IInv
    BY InitEstablishes
  <1>2. (torn \/ IInv) /\ [Next]_vars => (torn \/ IInv)'
    BY StepKeeps, TornStays
  <1> QED BY <1>1, <1>2, PTL DEF Spec
-------------------------------------------------------------------------------

LEMMA Owned ==
  ASSUME IInv
  PROVE  OwnedMemory
  <1>1. PICK s \in Nat \ {0}, m \in Nat : HeapPages(s, m)
    BY DEF IInv
  <1>2. blocks \in Seq(Block)
    BY DEF IInv, Typed
  <1>3. Laid(blocks, s * PAGE_SIZE, (s + m) * PAGE_SIZE) /\ pages = s .. (s + m - 1)
    BY <1>1 DEF HeapPages
  <1> SUFFICES ASSUME NEW k \in 1 .. Len(blocks)
               PROVE  (blocks[k].addr \div PAGE_SIZE) .. ((EndOf(blocks[k]) - 1) \div PAGE_SIZE)
                        \subseteq pages
    BY <1>2 DEF OwnedMemory
  <1> DEFINE a == blocks[k].addr
             e == EndOf(blocks[k])
  <1>4. a \in Nat /\ e \in Nat /\ e >= 1
    BY <1>2, BlockTypes
  <1>5. s * PAGE_SIZE \in Nat /\ (s + m) * PAGE_SIZE \in Nat
    BY DEF PAGE_SIZE
  <1>6. s * PAGE_SIZE <= a /\ e <= (s + m) * PAGE_SIZE
    BY <1>2, <1>3, <1>5, LaidWithin
  <1> HIDE DEF a, e
  <1>7. s <= a \div PAGE_SIZE
    BY <1>4, <1>6 DEF PAGE_SIZE
  <1>8. (e - 1) \div PAGE_SIZE <= s + m - 1
    BY <1>4, <1>6 DEF PAGE_SIZE
  <1>9. a \div PAGE_SIZE \in Nat /\ (e - 1) \div PAGE_SIZE \in Nat
    BY <1>4 DEF PAGE_SIZE
  <1>10. (a \div PAGE_SIZE) .. ((e - 1) \div PAGE_SIZE) \subseteq pages
    <2> DEFINE p == a \div PAGE_SIZE
               q == (e - 1) \div PAGE_SIZE
    <2>1. p \in Nat /\ q \in Nat /\ s <= p /\ q <= s + m - 1
      BY <1>7, <1>8, <1>9
    <2> HIDE DEF p, q
    <2>2. p .. q \subseteq s .. (s + m - 1)
      BY <2>1
    <2> QED BY <1>3, <2>2 DEF p, q
  <1> QED BY <1>10 DEF a, e

(* Every byte of every block lies in a page that expand_heap got from      *)
(* pmm_alloc_page: neither an expansion that is one block over several     *)
(* pages nor a merge reaches into memory of somebody else.                 *)
THEOREM HeapOwnsItsMemory == Spec => []OwnedUntilTorn
  <1>1. torn \/ IInv => OwnedUntilTorn
    BY Owned DEF OwnedUntilTorn
  <1> QED BY <1>1, HeapInvariant, PTL

LEMMA Tiled ==
  ASSUME IInv
  PROVE  HeapTiled
  <1>1. PICK s \in Nat \ {0}, m \in Nat : HeapPages(s, m)
    BY DEF IInv
  <1>2. blocks \in Seq(Block)
    BY DEF IInv, Typed
  <1>3. Laid(blocks, s * PAGE_SIZE, (s + m) * PAGE_SIZE) /\ total_heap_size = m * PAGE_SIZE
    BY <1>1 DEF HeapPages
  <1>4. ASSUME NEW j \in 1 .. Len(blocks), NEW k \in 1 .. Len(blocks), j < k
        PROVE  EndOf(blocks[j]) <= blocks[k].addr
    BY <1>2, <1>3, <1>4, LaidOrder
  <1>5. s * PAGE_SIZE \in Nat /\ (s + m) * PAGE_SIZE \in Nat
    BY DEF PAGE_SIZE
  <1>6. BytesOf(blocks) = (s + m) * PAGE_SIZE - s * PAGE_SIZE
    BY <1>2, <1>3, <1>5, LaidBytes
  <1>7. total_heap_size = BytesOf(blocks)
    <2>1. (s + m) * PAGE_SIZE - s * PAGE_SIZE = m * PAGE_SIZE
      BY DEF PAGE_SIZE
    <2> QED BY <1>3, <1>6, <2>1
  <1>8. DOMAIN blocks = 1 .. Len(blocks)
    BY <1>2
  <1> QED BY <1>4, <1>7, <1>8 DEF HeapTiled

(* No block overlaps another, and together the blocks are as large as all  *)
(* expansions, through every sequence of split_block, coalesce_blocks and  *)
(* expand_heap.                                                            *)
THEOREM HeapAlwaysTiled == Spec => []TiledUntilTorn
  <1>1. torn \/ IInv => TiledUntilTorn
    BY Tiled DEF TiledUntilTorn
  <1> QED BY <1>1, HeapInvariant, PTL

(* Of two successive blocks one is in use, unless a call is between        *)
(* marking one of them free and coalesce_blocks, until the heap is torn.   *)
THEOREM AlwaysCoalesced == Spec => []CoalescedUntilTorn
  <1>1. IInv => Coalesced
    <2> SUFFICES ASSUME IInv PROVE Coalesced
      OBVIOUS
    <2>1. PairsIn(blocks, MergedBy(Callers))
      BY DEF IInv, Calls
    <2>2. \A x \in MergedBy(Callers) : \E c \in Callers : call[c].pc = "coalesce" /\ x = call[c].block
      BY DEF MergedBy
    <2> QED BY <2>1, <2>2 DEF PairsIn, Coalesced
  <1>2. torn \/ IInv => CoalescedUntilTorn
    BY <1>1 DEF CoalescedUntilTorn
  <1> QED BY <1>2, HeapInvariant, PTL

LEMMA Fit ==
  ASSUME IInv
  PROVE  AllocationsFit
  <1>1. PICK s \in Nat \ {0}, m \in Nat : HeapPages(s, m)
    BY DEF IInv
  <1>2. blocks \in Seq(Block)
    BY DEF IInv, Typed
  <1>3. Laid(blocks, s * PAGE_SIZE, (s + m) * PAGE_SIZE)
    BY <1>1 DEF HeapPages
  <1>4. DOMAIN blocks = 1 .. Len(blocks) /\ Len(blocks) \in Nat
    BY <1>2
  <1>5. \A b : b \in Used(blocks) <=> \E k \in InUse : b = blocks[k]
    BY DEF Used, InUse
  <1>6. /\ \A a \in live : \E b \in Used(blocks) :
             b.addr + BLOCK_HEADER_SIZE = a.ptr /\ b.size >= a.size
        /\ \A b \in Used(blocks) : \E a \in live : b.addr + BLOCK_HEADER_SIZE = a.ptr
        /\ \A a, b \in live : a.ptr = b.ptr => a = b
    BY DEF IInv, HeldIs
  <1>7. \A a \in live : \E k \in InUse :
          blocks[k].addr + BLOCK_HEADER_SIZE = a.ptr /\ blocks[k].size >= a.size
    BY <1>5, <1>6
  <1>8. Cardinality(InUse) = Cardinality(live)
    <2> DEFINE f == [k \in InUse |->
                       CHOOSE a \in live : blocks[k].addr + BLOCK_HEADER_SIZE = a.ptr]
    <2>1. \A k \in InUse : f[k] \in live /\ f[k].ptr = blocks[k].addr + BLOCK_HEADER_SIZE
      <3>1. \A k \in InUse : \E a \in live : blocks[k].addr + BLOCK_HEADER_SIZE = a.ptr
        BY <1>5, <1>6
      <3> QED BY <3>1
    <2>2. f \in [InUse -> live]
      BY <2>1
    <2> HIDE DEF f
    <2>3. \A j, k \in InUse : f[j] = f[k] => j = k
      <3> SUFFICES ASSUME NEW j \in InUse, NEW k \in InUse, f[j] = f[k] PROVE j = k
        OBVIOUS
      <3>1. j \in 1 .. Len(blocks) /\ k \in 1 .. Len(blocks)
        BY <1>4 DEF InUse
      <3>2. blocks[j].addr \in Nat /\ blocks[k].addr \in Nat
        BY <1>2, <3>1, BlockTypes
      <3>3. blocks[j].addr + 32 = blocks[k].addr + 32
        BY <2>1 DEF BLOCK_HEADER_SIZE
      <3>4. blocks[j].addr = blocks[k].addr
        BY <3>2, <3>3
      <3> QED BY <1>2, <1>3, <3>1, <3>4, OnePlace
    <2>4. \A a \in live : \E k \in InUse : f[k] = a
      BY <1>6, <1>7, <2>1
    <2>5. ExistsBijection(InUse, live)
      BY <2>2, <2>3, <2>4 DEF ExistsBijection, Bijection, Injection, Surjection, IsInjective
    <2>6. IsFiniteSet(InUse)
      <3>1. IsFiniteSet(1 .. Len(blocks))
        BY <1>4, FS_Interval
      <3>2. InUse \subseteq 1 .. Len(blocks)
        BY <1>4 DEF InUse
      <3> QED BY <3>1, <3>2, FS_Subset
    <2> QED BY <2>5, <2>6, FS_Bijection
  <1> QED BY <1>7, <1>8 DEF AllocationsFit

(* As many blocks are in use as callers hold, and each caller's is at      *)
(* least as large as it asked.                                             *)
THEOREM AllocationsAlwaysFit == Spec => []FitUntilTorn
  <1>1. torn \/ IInv => FitUntilTorn
    BY Fit DEF FitUntilTorn
  <1> QED BY <1>1, HeapInvariant, PTL

(* What two callers hold does not overlap: it lies in two blocks.          *)
LEMMA Apart ==
  ASSUME IInv
  PROVE  \A a, b \in live : a # b => A!Disjoint(a, b)
  <1> SUFFICES ASSUME NEW a \in live, NEW b \in live, a # b PROVE A!Disjoint(a, b)
    OBVIOUS
  <1>1. PICK s \in Nat \ {0}, m \in Nat : HeapPages(s, m)
    BY DEF IInv
  <1>2. blocks \in Seq(Block) /\ a.ptr \in Nat /\ a.size \in Nat /\ b.ptr \in Nat /\ b.size \in Nat
    BY DEF IInv, Typed
  <1>3. Laid(blocks, s * PAGE_SIZE, (s + m) * PAGE_SIZE)
    BY <1>1 DEF HeapPages
  <1>4. \A x \in live : \E k \in 1 .. Len(blocks) :
          blocks[k].addr + BLOCK_HEADER_SIZE = x.ptr /\ blocks[k].size >= x.size
    <2> SUFFICES ASSUME NEW x \in live
                 PROVE  \E k \in 1 .. Len(blocks) :
                          blocks[k].addr + BLOCK_HEADER_SIZE = x.ptr /\ blocks[k].size >= x.size
      OBVIOUS
    <2>1. PICK c \in Used(blocks) : c.addr + BLOCK_HEADER_SIZE = x.ptr /\ c.size >= x.size
      BY DEF IInv, HeldIs
    <2>2. PICK k \in 1 .. Len(blocks) : c = blocks[k]
      BY <1>2, UsedMember
    <2> QED BY <2>1, <2>2
  <1>5. PICK j \in 1 .. Len(blocks) :
          blocks[j].addr + BLOCK_HEADER_SIZE = a.ptr /\ blocks[j].size >= a.size
    BY <1>4
  <1>6. PICK k \in 1 .. Len(blocks) :
          blocks[k].addr + BLOCK_HEADER_SIZE = b.ptr /\ blocks[k].size >= b.size
    BY <1>4
  <1>7. j # k
    BY <1>5, <1>6 DEF IInv, HeldIs
  <1>8. /\ blocks[j].addr \in Nat /\ blocks[j].size \in Nat
        /\ EndOf(blocks[j]) = blocks[j].addr + 32 + blocks[j].size
    BY <1>2, BlockTypes
  <1>9. /\ blocks[k].addr \in Nat /\ blocks[k].size \in Nat
        /\ EndOf(blocks[k]) = blocks[k].addr + 32 + blocks[k].size
    BY <1>2, BlockTypes
  <1>10. /\ a.ptr = blocks[j].addr + 32 /\ b.ptr = blocks[k].addr + 32
         /\ \A x, y, z, w \in Nat : x + 32 + y <= z /\ w <= y => (x + 32) + w <= z + 32
    BY <1>5, <1>6 DEF BLOCK_HEADER_SIZE
  <1>11. CASE j < k
    <2>1. EndOf(blocks[j]) <= blocks[k].addr
      BY <1>2, <1>3, <1>11, LaidOrder
    <2>2. a.ptr + a.size <= b.ptr
      BY <1>2, <1>5, <1>6, <1>8, <1>9, <1>10, <2>1
    <2> QED BY <2>2 DEF A!Disjoint
  <1>12. CASE k < j
    <2>1. EndOf(blocks[k]) <= blocks[j].addr
      BY <1>2, <1>3, <1>12, LaidOrder
    <2>2. b.ptr + b.size <= a.ptr
      BY <1>2, <1>5, <1>6, <1>8, <1>9, <1>10, <2>1
    <2> QED BY <2>2 DEF A!Disjoint
  <1>13. j < k \/ k < j
    BY <1>7
  <1> QED BY <1>11, <1>12, <1>13

(* What a step changes about what callers hold. *)
LEMMA LiveStep ==
  ASSUME [Next]_vars
  PROVE  \/ live' = live
         \/ \E a : live' = live \union {a}
         \/ \E a \in live : live' = live \ {a}
  <1>1. CASE UNCHANGED vars
    BY <1>1 DEF vars, heap
  <1> SUFFICES ASSUME Step
               PROVE  \/ live' = live
                      \/ \E a : live' = live \union {a}
                      \/ \E a \in live : live' = live \ {a}
    BY <1>1 DEF Next, Rest
  <1>2. CASE kheap_init
    BY <1>2 DEF kheap_init, ExpandFails
  <1>3. ASSUME NEW c \in Callers, NEW size, kmalloc(c, size) PROVE live' = live
    BY <1>3 DEF kmalloc, Search, heap
  <1>4. ASSUME NEW c \in Callers, NEW size, NEW alignment, kmalloc_aligned(c, size, alignment)
        PROVE  live' = live
    BY <1>4 DEF kmalloc_aligned, Search, heap
  <1>5. ASSUME NEW c \in Callers, Take(c) PROVE \E a : live' = live \union {a}
    BY <1>5 DEF Take, HandOut
  <1>6. ASSUME NEW c \in Callers, AllocExpand(c)
        PROVE  live' = live \/ \E a : live' = live \union {a}
    BY <1>6 DEF AllocExpand, HandOut, ExpandFails
  <1>7. ASSUME NEW c \in Callers, NEW ptr, kfree(c, ptr)
        PROVE  live' = live \/ \E a \in live : live' = live \ {a}
    BY <1>7 DEF kfree, heap
  <1>8. ASSUME NEW c \in Callers, coalesce_blocks(c) PROVE live' = live
    BY <1>8 DEF coalesce_blocks
  <1>9. CASE OtherPageUser
    BY <1>9 DEF OtherPageUser
  <1> QED BY <1>2, <1>3, <1>4, <1>5, <1>6, <1>7, <1>8, <1>9 DEF Step

(* kmalloc and kfree are an allocator until the heap is torn: whatever the *)
(* splits, merges and expansions in between, memory that a caller holds is *)
(* not handed out again before it is freed.                                *)
THEOREM KHeapImplementsAllocator == Spec => AllocatorUntilTorn
  <1> DEFINE Region(a) == [ptr |-> a.ptr, size |-> a.size]
             regions == {Region(a) : a \in live}
  <1>1. Init => A!Init
    BY DEF Init, A!Init
  <1>2. IInv /\ IInv' /\ [Next]_vars => A!Next \/ live' = live
    <2> SUFFICES ASSUME IInv, IInv', [Next]_vars
                 PROVE  A!Allocate \/ A!Release \/ live' = live
      BY DEF A!Next
    <2>1. /\ \A a, b \in live : a.ptr = b.ptr => a = b
          /\ \A a, b \in live' : a.ptr = b.ptr => a = b
      BY DEF IInv, HeldIs
    <2>2. \A a, b \in live' : a # b => A!Disjoint(a, b)
      <3>1. (\A a, b \in live : a # b => A!Disjoint(a, b))'
        BY Apart, PTL
      <3> QED BY <3>1 DEF A!Disjoint
    <2>3. \A a : Region(a).ptr = a.ptr /\ Region(a).size = a.size
      OBVIOUS
    <2> DEFINE now == live
               later == live'
    <2>4. regions = {Region(a) : a \in now} /\ regions' = {Region(a) : a \in later}
      OBVIOUS
    <2>5. CASE live' = live
      BY <2>5
    <2>6. ASSUME NEW a, live' = live \union {a}, a \notin live PROVE A!Allocate
      <3>1. regions' = regions \union {Region(a)}
        BY <2>6
      <3>2. Region(a) \notin regions
        BY <2>1, <2>3, <2>6
      <3>3. \A r \in regions : A!Disjoint(r, Region(a))
        BY <2>2, <2>6 DEF A!Disjoint
      <3> QED BY <3>1, <3>2, <3>3 DEF A!Allocate
    <2>7. ASSUME NEW a \in live, live' = live \ {a} PROVE A!Release
      <3>1. \A b \in live : Region(b) = Region(a) => b = a
        BY <2>1, <2>3
      <3>2. regions' = regions \ {Region(a)}
        BY <2>7, <3>1
      <3> QED BY <3>2 DEF A!Release
    <2> QED BY <2>5, <2>6, <2>7, LiveStep
  <1>3. (torn \/ IInv) /\ (torn \/ IInv)' /\ [Next]_vars => [torn' \/ A!Next]_live
    BY <1>2, TornStays
  <1> QED BY <1>1, <1>3, HeapInvariant, PTL DEF Spec, AllocatorUntilTorn
================================================================================
