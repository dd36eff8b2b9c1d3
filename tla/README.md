# BlitzOS: TLA+ models, TLC runs and TLAPS proofs

BlitzOS is a small 64-bit kernel in C and assembly (`src/`): a multiboot boot
stub, a physical page allocator, paging, a heap, interrupt dispatch, a
preemptive round-robin scheduler, and drivers for the PIT, the keyboard and the
VGA text screen. It runs on one CPU. Its hard behaviour is therefore not
parallelism but *interruption*: almost every kernel function runs with
interrupts on, the timer handler changes the scheduler's data from inside
whatever was running, and it may not come back for several quanta.

This directory holds modules that model that kernel, TLC configurations that
check them on small instances, and proofs of the most important safety
properties for instances of every size.

    tlc -workers 2 -config MCScheduler_safety.cfg MCScheduler
    tlapm SchedulerProofs.tla

`PROJECT.json` lists components, runs, the mapping of every definition to source
lines, hazards, findings and theorems. Paths below are relative to `src/`.

## 1. Inventory

| Component | State | Operations | Hard part |
|---|---|---|---|
| Ready queue (`kernel/proc/process.c` 78-119, 243-246) | head and tail, `next`/`prev` in each PCB | enqueue, dequeue, unlink | stale links; interrupted half-way |
| Scheduler (`kernel/proc/process.c`) | `current_process`, `next_pid`, `process_count`, each PCB's pid, state, quantum and saved registers | `scheduler_init`, `process_create`, `process_kill`, `scheduler_start`, `preempt_handler`, `scheduler_tick`, `do_schedule` | two ways to save a context; partial failure; callers preempted inside |
| Context switch (`kernel/arch/x86_64/context_switch.asm`) | registers, two stacks, two PCBs | save, load, `ret` | scratch registers belong to the context |
| Interrupt dispatch (`interrupts.c`, `isr.asm`) | 8259 request and service registers, `RFLAGS.IF`, a stack of frames per thread | stubs, `irq_handler`, `pic_send_eoi`, `isr_handler` | acknowledging, then leaving the handler on another stack; spurious interrupts |
| IDT (`idt.c`, `idt_load.asm`) | 256 descriptors | fill, load | an address split over three fields; everything ready before `sti` |
| PIT (`drivers/pit.c`) | `timer_ticks` | `pit_init`, `pit_handler`, `pit_sleep` | a wait that an interrupt must end |
| Page allocator (`kernel/mm/pmm.c`) | bitmap, `total_pages`, `used_pages` | `pmm_init`, `pmm_alloc_page`, `pmm_free_page` | rounding; the bitmap lives behind the kernel; page 0 is NULL |
| Heap (`kernel/mm/kheap.c`) | list of block headers, two size counters | `kheap_init`, `kmalloc`, `kmalloc_aligned`, `kfree`, `expand_heap` | split and merge arithmetic; pages that are not contiguous; failing half-way |
| Keyboard (`drivers/keyboard.c`) | ring of characters, two indices, modifier flags | `keyboard_handler`, `keyboard_getchar`, `keyboard_has_input` | handler and reader share the ring; `hlt` after the test |
| Paging (`kernel/mm/paging.c`) | page tables, `kernel_pml4`, CR3, the TLB | map, unmap, translate, new address space | four levels made on demand, preempted half-way; stale translations; boot's 2 MB entry taken for a table; silent failure half-way |
| VGA (`drivers/vga.c`) | cursor, screen memory | put, scroll, print, clear | wrap, tab and scroll at the edges; not atomic against the timer's summary line |
| Multiboot (`kernel/boot/multiboot2.c`) | pointers to the tags | `multiboot2_parse` | tag walk over padded tags, missing tags |
| Boot (`boot/boot.asm`, `scripts/linker.ld`) | the first page tables | runs once | what it leaves to paging |
| `kernel_main` | - | calls everything above | not in the repository |

**Who calls whom.** The timer interrupt enters `irq_common_stub`, which calls
`preempt_handler` with the interrupted stack and continues on the stack that it
returns; every other line goes to `irq_handler`, which calls `pit_handler` or
`keyboard_handler` and acknowledges. `process_create` takes the PCB and two
stacks from the heap, the heap takes pages from the page allocator, the page
allocator reads the multiboot memory map; paging takes its tables from the page
allocator and adds them to the tables that boot built. Processes and, inside
the timer interrupt, `preempt_handler`'s summary line write on the screen.
`do_schedule` and `scheduler_start`
switch with `context_switch_asm` instead of through an interrupt frame.

**What makes each part correct.**
*Queue and scheduler*: no process is lost, in two places, or miscounted; links
stay a FIFO list; pids are unique; a quantum neither wraps nor lasts for ever;
every saved context can be resumed by whoever resumes it; nobody starves.
*Context switch*: registers, return address and stack come back.
*Interrupts*: the table is ready before interrupts are on, handlers do not nest, each acknowledges exactly what it handled,
each request is served, `pit_sleep` ends. *Page allocator*: a page has one user
and the kernel's pages none, counters are right, nothing leaks. *Heap*: blocks
tile the heap, stay inside its pages, satisfy their callers and never overlap.
*Keyboard*: the ring is a FIFO that drops only when full; a reader wakes up.
*Paging*: the tables are a tree that implements a map from virtual to physical
pages, the MMU never uses a translation that was taken back, no page is lost or
used twice. *Multiboot*: the walk lands on every tag. *VGA*: writes stay on the
screen, which shows what was printed.

The hazards behind these, each with its line and the properties that cover it,
are in `PROJECT.json`; those no listed run covers say why.

## 2. Modules and how they correspond to the code

A module's variables and operators have the code's names where there is one.
Operators whose comment begins with *Slip* are used by no action: each is what a
plausible mistake in the code would make of the operator after it, and each
property of a passing run is violated when one of them is put in its place
(the `mutants` of `PROJECT.json`). `order`, `held`, `live`, `pages`, `before`
are history variables: no guard reads them to decide what code does, except
where a caller has to know what it holds.

**ReadyQueue** - `queue_enqueue`, `queue_dequeue` and the four unlinking
statements of `process_kill` as functions on a record of head, tail, next and
prev. They are functions because `preempt_handler` is their composition.
`Represents(q, s)`: the pointers hold the sequence `s`, in both directions.

**Scheduler** (extends ReadyQueue) - one action per operation. `q`, `current`,
`next_pid`, `process_count`, `pid`, `state`, `slice` are the fields of
`scheduler_t` and `process_t`; `context[p]` abstracts `registers` and the saved
stack to whose it is and how it was saved ("new": the frame built in
`process_create` 182-208; "irq": an interrupt frame; "call": stored by
`context_switch_asm`); `cpu` is whose stack the CPU is on, `Lost` once it has
resumed a context of the wrong kind. `slice` is modulo `SliceMod`, because the
code's field is unsigned. A call is one step here: this is the system in which
callers cannot be preempted inside a call (`kernel_main` before
`scheduler_start`, or a process with interrupts off). The tick that falls
between the last assignment of `scheduler_start` (or of the first
`do_schedule`) and the stack load is kept.
`KillCurrent` and `CallSchedulerTick` say what callers do. `process_create`'s
three failure exits are a refusal without effect (limit, no PCB) and
`process_create_no_stack`, which loses a pid.

**RoundRobin** - what the scheduler promises: one process runs, the others wait
in a line. `Scheduler` is shown to implement it (`running <- current`,
`ready <- order`).

**SchedulerPreempt** (extends ReadyQueue) - `process_create` and `process_kill`
by running processes with interrupts on, one shared access per step, against
the end of a quantum, which may come between any two of them: the code protects
none. The histories `torn` (a quantum ended half-way through an update of the
queue, or a kill hit a killer) and `overlapped` (PCBs whose creation was between
load and store of `next_pid` at the same time as another) record the mishaps;
the properties say that the harm is done by these and by nothing else. Quanta,
contexts and the failure paths are left to Scheduler.

**ContextSwitch** - the CPU's registers and the words of every stack, through
both ways of switching: `context_switch_asm` instruction by instruction where
order matters, and the timer interrupt, whose frame the CPU and the stub push,
`preempt_handler` exchanges and the stub and `iretq` pop. Every process starts
with the frame that `process_create` builds by hand (180-208); the first one is
entered by `context_switch_asm` and never uses it. A behaviour has one way of
switching (`way`); that the two do not mix is Scheduler's `ContextsMatch`. The
interrupt flag is part of the registers: an interrupt clears it, `iretq` takes
it from the frame, and `context_switch_asm` neither saves nor restores it but
ends with `sti`; its callers may have interrupts disabled. `Tick` is a timer
interrupt that finds the quantum not used up, between any two instructions of
`context_switch_asm`, on whichever stack `rsp` then is. The eleven registers
treated like `rbx` are one.

**Interrupts** - `interrupts_init` in its order (`booted`), with gates that
hold an address in three fields of `HalfWord`; the 8259 pair (external:
requests, priorities, service register, non-specific EOI, spurious vectors 7
and 15), the gates and stubs, the two acknowledgement paths, the change of
stack, `isr_handler`'s final loop, `disable_interrupts`/`enable_interrupts`,
and `pit_sleep`. Which thread `preempt_handler` resumes is left open: Scheduler
decides it.

**PageFrames** - `pmm.c` as functions on the set of set bits and the counters
(a page is its number; the address is that times 4096, so page 0 is NULL).
**Pmm** makes a state machine of them: `Boot` (`pmm_init`), then allocation and
freeing in any order; **KHeap** composes the same functions under the heap,
**Paging** under the page tables.

**Paging** (extends Pmm) - `tables[p]` is the page `p` used as a table, entry by
entry. A call takes one step per level (`walk`), and three where it needs a new
page: the search for a clear bit (`take`), setting it and clearing the page,
and filling the entry (`fill`). `Switchable` is the set of labels at which the
caller may be preempted; data pages are taken and freed by others meanwhile.
The MMU's walk (`Translate`), which knows large pages and NX, and the TLB at its
worst are external. `call` holds each caller's locals. **AddressSpace** is what
callers rely on: a partial function from virtual to physical pages that a call
changes at one point.

**Multiboot** - the boot information as GRUB lays it out (offsets, padding,
sizes), and `multiboot2_parse`'s walk over it; the memory map's entries by
`entry_size`, as `pmm_init` reads them. **Memory** composes Multiboot, Pmm and
Paging in the order in which a kernel has to call them, and says where the boot
information is relative to the bitmap (`Placements`).

**KHeap** - the heap on the page allocator, at the code's real sizes in bytes.
The header list is a sequence, because each function that changes `next` also
changes the matching `prev`. A call has up to two steps, between which others
run: the search, and what follows it (`take` a block, or `expand` the heap);
marking as free, and merging (`coalesce`). `torn` records the two things that the
code does not prevent and does not survive: pages with a hole, and a header
changed under the call that had chosen it.
`expand_heap`'s loop is a fold that keeps the page allocator's state when it
fails half-way: those pages are gone, as in the code.
**Allocator** is what callers rely on, and KHeap implements it.

**Keyboard** - ring buffer, shift tracking, and `keyboard_getchar` with a point
of interruption between its test, `hlt`, load and index update. **KeyFifo** is
the bounded queue it implements.

**Vga** - cursor and cells. `vga_print` as a whole is the timer's summary line;
a process's call takes a step per access of the cursor or the screen, because
the summary may fall between any two. Whether the compiler reads the cursor
again before it stores it is left open. `paper` is the text as one would have
typed it, of which `ShowsText` says the screen shows the last lines; `tracked`
ends that claim when a call was interrupted by the summary. **Console** composes
Keyboard and Vga: a shell reads a key and answers on the screen.

**Composition.** Scheduler and SchedulerPreempt are built on ReadyQueue; Pmm and
KHeap on PageFrames; Memory on Multiboot, Pmm and Paging; Console on Keyboard
and Vga. Console and Scheduler take an interrupt handler for one step;
`HandlersDoNotNest` in Interrupts is what entitles them to.

## 3. The runs

Passing runs:

| Run | States | Shows |
|---|---|---|
| `sched_safety` | 326,209 | With whole calls and no self-kill, in any order of creations (successful or not), kills, ticks and yields: the links are one FIFO list (`QueueFaithful`), nobody is lost or miscounted (`NoLostProcess`), pids are unique (`PidsUnique`), the quantum does not wrap (`NoQuantumUnderflow`), the CPU is never lost, since whoever can be picked next can be resumed by the way that picks it (`ContextsMatch`: `do_schedule` switches on the boot stack only, so the two ways of saving do not meet); the scheduler implements RoundRobin with its fairness (`Refines`) and a ready process runs (`EventuallyRuns`) |
| `sched_tick` | 20,513 | The bookkeeping survives also if somebody calls `scheduler_tick`, so that quanta wrap and `do_schedule` really switches |
| `preempt_any` | 7,475,732 | Two creators and two killers, one of them created meanwhile, preempted anywhere, also inside the updates: a process is stranded (`StrandedOnlyIfTorn`), or the queue or `process_count` is wrong when all calls have returned (`RestoredUnlessTorn`), only after a quantum ended between the first and last access of an update, or a killer was killed; two processes share a pid only if one was created while another creation was between load and store of `next_pid` (`PidsRepeatOnlyIfOverlapped`) |
| `context_regs` | 5,916,520 | A process that lost the CPU continues where it was, after a timer interrupt with every register as it was, and after `context_switch_asm`, interrupted anywhere by ticks, with every register but `rsp`, which is one word low, and with interrupts on, whether or not it had them (`ContextRestored`); everything it had pushed is there (`StackContentsKept`); a new process starts at its entry, although its frame is built in C and popped in assembly |
| `irq` | 6,016 | From `interrupts_init` on, with timer, keyboard, a device on each controller and spurious interrupts: gates and vectors are ready before `sti` (`GatesReady`), no nesting, exact acknowledgement, every request served |
| `pmm` | 153,827 | From six boot informations on (a PC's map, overlapping, unaligned, plain, none; not multiboot): the walk finds every tag (`WalkFindsTags`), the page allocator is called with the map that GRUB passed and used legally (`ImplementsPmm`), one user per page, kernel and bitmap untouched, counters right, no leak but page 0; two callers map, unmap and create address spaces, interrupted outside `get_or_create_table`: the tables stay a tree (`TablesAreATree`) that implements AddressSpace, a mapping is there when its call returns (`MapTakesEffect`), `paging_get_physical` finds what the MMU finds (`GetPhysicalAgrees`), and the TLB holds nothing that was taken back (`TlbCoherent`) |
| `heap_safety` | 1,567,357 | Two callers preempted between all steps, others taking pages: until the pages have a hole or a header is changed under a preempted call, blocks tile the heap (`TiledUntilTorn`), are coalesced but where a call is about to merge (`CoalescedUntilTorn`), stay in owned pages (`OwnedUntilTorn`), suit their callers (`FitUntilTorn`); KHeap implements Allocator (`AllocatorUntilTorn`) |
| `keyboard_fifo` | 696,252 | A shell reads and prints, interrupted by keys, ticks and summary lines: the ring is a FIFO that drops only when full, the reader does not sleep for ever beside a key, no write leaves the screen (`WritesOnScreen`), and the screen shows the text until a call is torn (`ShowsText`) |

Runs that end in a violation, each of one property the code or a comment states:

| Run | Violates | What happens |
|---|---|---|
| `sched_selfkill` | `ReadyQueueIsLive` | `process_kill(current)` frees the PCB but `current_process` keeps pointing to it; the next `preempt_handler` enqueues it again |
| `preempt_create` | `NobodyStranded` | A quantum ends between `queue_enqueue`'s link and its tail update; the handler appends behind the old tail and one of the two is unreachable |
| `heap_hole` | `OwnedMemory` | `expand_heap` treats pages on both sides of a hole as one block |
| `pit_sleep` | `SleepEnds` | IRQ 0 goes to `preempt_handler` only; `timer_ticks` never moves |

**Which slip each property notices** is the `mutants` list: for example
`NoLostProcess` fails when a process is counted before its stacks exist,
`NobodyStranded` when the tail pointer stays on a killed PCB,
`AllAcknowledged` when only the master controller is told,
`ContextRestored` when `rax` is used before it is saved, `TlbCoherent` when
`paging_unmap_page` forgets `invlpg`, `ShowsText` when scrolling leaves the last
line.

Further configurations for divergences met while modelling. Each is a
counterexample to a property that is stated in its module; they are kept
beside the listed runs and started in the same way:

| Configuration | Property | What it shows |
|---|---|---|
| `MCScheduler_mixed` | `ControlNotLost` | With a caller of `scheduler_tick`, a process saved by `context_switch_asm` is resumed as an interrupt frame |
| `MCContextSwitch_stack` | `StackRestored` | The caller of `context_switch_asm` is resumed with `rsp` 8 bytes low |
| `MCMemory_null` | `NullMeansFull` | Page 0 is handed out as the null pointer |
| `MCMemory_overlap` | `AvailableIsUsable` | If GRUB puts the boot information behind the kernel, the bitmap overwrites the memory map before it is read again |
| `MCMemory_alloc` | `CountersAgree` | `pmm_alloc_page` preempted between finding a bit and setting it |
| `MCMemory_race` | `MapTakesEffect` | `get_or_create_table` preempted before it fills the entry: a table, and a mapping with it, is lost |
| `MCMemory_remap` | `TlbCoherent` | `paging_map_page` over a present page leaves the old translation in the TLB |
| `MCMemory_boot` | `MapTakesEffect` | A page inside boot's 2 MB mapping: the large entry is taken for a table's address |
| `MCMemory_fault` | `KeepsRunning` | A page beyond boot's 2 MB becomes a table and is cleared through an address that is not mapped |
| `MCMemory_switch` | `KeepsRunning` | A created address space does not map the kernel, which lives in the lower half |
| `MCKHeap_race` | `ImplementsAllocator` | `kmalloc` preempted between finding a block and marking it: two callers get the same memory |
| `MCKHeap_merge` | `OwnedMemory` | Neighbours in the list that are not neighbours in memory are merged |
| `MCKHeap_aligned` | `AlignedAsAsked` | `kmalloc_aligned` returns an unaligned pointer |
| `MCConsole_torn` | `ShowsText` | A summary line inside `vga_putchar` tears the text |
| `MCConsole_two` | `WritesOnScreen` | Two writers: the cursor is below the screen until the first has scrolled, and the second writes there |

More of them need one change to a configuration that is here: the property in
place of the listed ones, and the constant.

| Configuration, changed | Property | What it shows |
|---|---|---|
| `MCScheduler_selfkill`, `KillCurrent = FALSE` | `YieldGivesCpuUp` | `do_schedule` keeps its caller while its quantum lasts |
| `MCSchedulerPreempt_create`, `Creators = {}`, `Killers = {p1}`, `MaxPid = 6` | `NobodyStranded` | The same as `preempt_create`, inside `process_kill` |
| `MCSchedulerPreempt_any` | `PidsUnique` | `next_pid++` preempted between load and store |
| `MCSchedulerPreempt_any` | `WithinLimit` | The limit is checked at 127 and counted at 221 |
| `MCMemory_pass` | `OnlyAvailable` | A region that begins inside a page gives the whole page away |
| `MCMemory_pass` | `KernelHalfShared` | Kernel mappings made after an address space was created are missing there |
| `MCMemory_pass`, `Flags <- NxFlags` | `GetPhysicalAgrees` | boot.asm does not enable NX: the MMU faults where the walk finds a page |
| `MCKHeap_aligned` | `UsedSizeAccurate` | `used_heap_size` drifts when a block is handed out unsplit |
| `MCConsole_two` | `ImplementsFifo` | Two readers get one character twice |
| `MCConsole_echo` | `ShiftFollowsKeys` | Releasing one of two held shift keys ends the shift |

### Bounds, and why they are enough

* Scheduler: four PCBs with a limit of three, so that a PCB is free at the limit
  and a freed PCB is used again with its stale links; a queue then has a head, a
  middle and a tail to kill. `TIME_SLICE_TICKS = 2` separates the tick inside
  the quantum from the one at its end; `SliceMod = 4` is the smallest modulus in
  which wrapping differs from a full quantum. `MaxPid = 5` allows four
  creations; the proofs have no such bound.
* SchedulerPreempt: two processes that create, one of which also kills, and a
  killer that is created meanwhile, so that killers are killed; four PCBs and
  `MAX_PROCESSES = 4`, so the limit is reached and PCBs are used again; three
  creations (`MaxPid = 6`), so that one can fall between the load and the late
  store of another. In this run every plain property fails: `NobodyStranded`,
  `QueueRestored`, `PidsUnique`, `WithinLimit`.
* ContextSwitch: two processes, two places in a program, two register values.
  `StackWords = 23` is two frames of eleven words and one more: the frame that
  the first process never uses, a word of the program's, an interrupt's frame,
  which may also come into `context_switch_asm`. `Lowest` ends the calls after
  two words of the drift of `rsp`, so this run may stop; `Depths` is where `rsp`
  is when a program is switched from by an interrupt.
* Interrupts: one line per case (timer; line with a handler; noisy line of the
  master; noisy line of the slave), two threads; `MaxDepth = 2` would admit the
  nesting that does not happen; `MaxSleep = 1`. A half word of 16 and stubs
  above 300 use all three fields of a gate.
* Memory: at most ten pages, of which the kernel has three with boot's tables in
  them, its end not aligned; two indices per level, three virtual pages of which
  two share their tables and one lies beside the boot mapping: a map takes up to
  three new tables, so that memory runs out between two levels. One address
  space and one data page at a time.
* KHeap: real constants; sizes 0, 376 (`sizeof(process_t)`), 20000 (more than
  one expansion), and one that becomes 8152 with its alignment (whose second use
  leaves too little to split); three allocations at a time, two callers, thirteen
  pages: the third expansion fails half-way. With `KeepTorn = FALSE` a behaviour
  rests once `torn` holds, since nothing is claimed after that.
  `MaxDrift` stops calls once `used_heap_size` is off by more than 16: the
  drift is unbounded otherwise.
* Console: a ring of three slots, so that two characters fill it; a screen of
  two lines of three columns with tabs of two: a tab may wrap, a line may be
  full, and every second line scrolls.

### Fairness, and why the code justifies it

* Scheduler: weak fairness of `preempt_handler` - the PIT is programmed once and
  runs for ever, every process frame has `RFLAGS.IF = 1` - and of the few
  instructions that end `scheduler_start` and the first `do_schedule`. Nothing is assumed of processes.
* Interrupts: `interrupts_init` and the stubs run to their end; a program that disabled interrupts enables
  them again (the only callers of `disable_interrupts` do); the CPU takes what
  it is offered (strong fairness of `Accept`, because handlers switch
  interrupts off again and again); the PIT raises IRQ 0 again and again.
  `NotOverloaded(n)` says that lines of higher priority do not take all of the
  CPU: the devices are slow, and without it a fixed-priority controller starves
  the others by design.
* Keyboard: ticks keep coming, and a call that has begun goes on. Nothing makes
  anybody press a key.

## 4. The proofs

`tlapm` proves the following for every value of the constants that satisfies the
named assumptions, which TLC evaluates in the runs: `NullAssumption`,
`ConstAssumption` (Scheduler), `PreemptAssumption`, `ContextSwitchAssumption`
(a stack has room for the first frame), `InterruptsAssumption` (stubs have
different addresses; line 2 is the cascade), `KernelAssumption`,
`MapsAssumption` (regions end below a limit), `InfosAssumption` (what GRUB lays
out: the end tag last, one memory map whose size counts its entries),
`KHeapAssumption`, `PagingAssumption` (boot's tables are three pages of the
kernel; devices are neither memory nor those), `KeyboardAssumption` and `VgaAssumption`. So
there is no bound on processes, stacks, lines, maps, tags, sizes, callers,
tables, keys or texts. Where a theorem needs more, because the property is false
otherwise, the hypothesis is a named operator in front of the theorem, and a
configuration of section 3 shows what happens without it.

Each theorem about a specification goes through an inductive invariant: initial
states satisfy it, every action keeps it (one step of the proof per action), and
it implies the property. What follows is that invariant and why the property
alone is not inductive.

**ReadyQueueProofs** - the pointer functions against sequences. If `q`
represents `s`, then enqueueing a PCB not in `s` represents `Append(s, p)`
(`EnqueueAppends`), dequeueing returns the head and represents the tail
(`DequeueTakesHead`), unlinking represents `s` without `p`, whichever place
`p` has (`UnlinkRemoves`); their composition in `preempt_handler` rotates `s`
(`RotationRotates`).

**SchedulerProofs** - under `~KillCurrent` the invariant `QueueInv` (types,
`QueueFaithful`, `NoLostProcess`, finiteness of `live`) is inductive. None of
its parts is so alone: the queue theorems need that an enqueued PCB is not in
the queue, which is `NoLostProcess`, and `NoLostProcess` needs that the element
taken from the head is the first of `order`, which is `QueueFaithful`.
It gives `TypeCorrect`, `QueueAlwaysFaithful`, `NoProcessLost`, and with
it `PidsAlwaysUnique` and `ImplementsRoundRobin` (every step of Scheduler is a
step of RoundRobin or a stutter). Under `~CallSchedulerTick` as well,
`SwitchInv` (`NoQuantumUnderflow`; `Resumable`: the CPU is on its process's stack
and every queued PCB holds a frame of its own; and `NothingSavedYet`: until
the boot stack is left, every context is the frame `process_create` built) is
inductive relative to `QueueInv` and gives `QuantumNeverUnderflows` and
`ContextsAlwaysMatch`. `NothingSavedYet` is needed for `scheduler_start` and the
first `do_schedule`, whose way of resuming takes no interrupt frame, and
`YieldDoesNothing` says that no other call of `do_schedule` resumes anybody. Both assumptions are necessary: `sched_selfkill` and
`MCScheduler_mixed` are what happens without them.

**SchedulerPreemptProofs** - calls preempted anywhere, by any number of creators
and killers; no hypothesis. `PidInv`: `next_pid`, and every copy of it that will
yet be stored, is above each pid taken without overlap; if two creations hold a
copy, both are `overlapped`. So a late store can move `next_pid` back, but not
to a pid of a creation that overlapped nothing (`PidsRepeatOnlyByOverlap`), also
when the queue is long torn. For `StrandedOnlyByTearing` and `RestoredUntilTorn`
the inductive invariants are `torn \/ ListInv` and `torn \/ CountInv`. `ListInv`:
there is a sequence `s` and a queue `o` that represents it, such that the
pointers in memory are what the update the current process is in has made of `o`
so far (`UpdateOf`), and `s` holds who is live or being unlinked, but for the
current process; nobody else is inside an update, and whoever is killing lives.
`CountInv` relates `process_count` to the kills in progress. A killer killed
between choosing its victim and unlinking it leaves the victim in the queue,
half-dead, for ever: that is why such a kill counts as torn.

**ContextSwitchProofs** - `IInv`: one process `n` has the CPU in the sense of
`Runs(n)` (for each place in `context_switch_asm` or in the stub, which
registers are already whose), and every other one `Waits`: its PCB and its stack
hold what `Left` recorded (`Saved`), or its stack holds a frame on top of what
it had pushed (`Framed`). The work is in the stack words: pushing a frame on one
stack disturbs no other, reading it back word by word gives the registers
that were pushed, and a tick's frame is below every word that is still to be
read, on whichever of the two stacks `rsp` is. It gives `ContextAlwaysRestored` and `StackAlwaysKept` for
every number of processes and every size of stack.

**InterruptsProofs** - `IInv`: `BootInv` (how far `interrupts_init` is says which
gates hold their stub, from the fields' arithmetic: an address is the sum of its
three half words), `FrameInv` (the running thread is in at most one handler,
with interrupts off; every other one is suspended at the end of one) and
`ServiceInv` (where that handler is says what the controllers have in
service). `HandlersDoNotNest` needs that a resumed thread is at its handler's
end, and `AllAcknowledged` needs `FrameInv`. It gives `GatesAreReady`,
`NoHandlerNests` and `EveryInterruptAcknowledged`.

**KHeapProofs** - `torn \/ IInv` is inductive, with no hypothesis; `torn`
remembers that the heap's pages got a hole, or that a step changed a header which
another call, preempted before `split_block` or `coalesce_blocks`, had chosen.
`heap_hole`, `MCKHeap_merge` and `MCKHeap_race` are what happens then. `IInv`:
there is a page `s` and a number `m` such that the blocks lie one behind the
other from `s` for `m` pages, which are the heap's pages, and all free pages but
page 0 are behind them (`HeapPages`); callers hold exactly the used blocks
(`HeldIs`); and what a preempted call knows is still true (`Calls`): the block it
found is in the list, free and large enough, and of two successive free blocks
one is waiting to be merged (`PairsIn`). The last needs a whole set of waiting
calls: a merge by one call may swallow the neighbour that another one was going
to merge with, and the pair it leaves is then the other call's. A failed search
may be outdated, but the call expands next and relies on nothing. The last
clause of `HeapPages` is what makes an expansion contiguous with the heap.
Splitting, merging and `expand_heap`'s loop are lemmas on sequences; the loop is
a fold, whose steps are linked by the argument of the least counterexample. It
gives `HeapOwnsItsMemory`, `HeapAlwaysTiled`, `AlwaysCoalesced`,
`AllocationsAlwaysFit` and the refinement `KHeapImplementsAllocator`.

**ConsoleProofs** - the keyboard: `ReaderInv`, what a reader has loaded from the
ring is still there after any number of interrupts. With one reader
(`OneReader`) the ring refines KeyFifo (`ConsoleKeysInOrder`), by modular
arithmetic on the two indices; with two it does not
(`MCConsole_two`, `ImplementsFifo`). `ConsoleKeysKept` needs no hypothesis. The
screen: `ScreenInv`, the cursor is below the screen only while the one writer
(`OneWriter`) is about to scroll, also when a summary line printed in between
has scrolled for it; it gives `WritesStayOnScreen` and `ConsoleTyping`.
`TextInv` says, for each place in `vga_putchar`, what the rest of the call will
make of the screen: the last lines of what was typed. It gives `ScreenShowsText`
for a text that is followed until a call is torn (`~KeepTorn`); `MCConsole_torn`
shows why it ends there.

**MemoryProofs** - `PmmInv`: the bitmap is `Sound` (within range, counter equal to
the number of set bits, kernel and bitmap pages set), callers hold set bits
outside the kernel, and every other set bit was set by `pmm_init` or is page 0.
It gives `PmmTypeCorrect`, `CountersAlwaysAgree`, `UseIsExclusive` and
`OnlyPageZeroLeaks` of Pmm. The step worth reading is `ReservedCovers`: kernel
and bitmap are rounded to pages separately though they share a page, and the sum
still covers both. `WalkInv`: the walk stands where a tag begins, and a pointer
that is null has passed no tag of its type; from `OffsetsRise`, the offsets of
the tags are different from each other. It gives `WalkAlwaysFindsTags`.
`MemoryImplementsPmm` joins the two: pmm_init reads, entry by entry, the map
that GRUB passed (`MapIsPassed`), and whatever paging does, allocation by
allocation, is Pmm's. The invariant it needs (`UsesPmm`) is that a call which
has found a page still finds it first among the free ones when it takes it; its
hypothesis `AllocatesWhole` (no preemption inside `pmm_alloc_page`, the boot
information not under the bitmap) is necessary: `MCMemory_alloc` and
`MCMemory_overlap`. By `MemoryIsSound` Pmm's theorems hold of the whole.

The rest of the module is about the tables, for callers that are `Orderly`: none
is preempted between finding a page for a table and linking it in, none maps
what is mapped, and none asks for NX or for an address inside boot's 2 MB. The
`pmm` run is such a system; `MCMemory_race`, `MCMemory_remap` and
`MCMemory_boot` are what happens otherwise. `AddressInv` says that there are a
set `S` of tables, a level `lev[p]` and an address `own[p]` for each, such that

* `Tree`: no two tables on a level are for the same address above that level, an
  entry of a table leads to the table for the next index, every table but the
  root is led to, and the one large page is boot's;
* `PagesAre`: what was taken for a table is in `S`, is a PML4 that was handed
  out, or is the new one of the one call that has one;
* `LeavesAre`: on level 4 there is only what somebody asked for, and no table;
* `SpacesAre`: a PML4 that was handed out has entries in the kernel half only,
  equal to the boot PML4's;
* `CallIs`, `CallsApart`: a call's table is the one for its address and level,
  no two calls work on one address, and while a call holds a new table the entry
  it is meant for is still empty;
* `RootIs`, `TlbIs`: the CPU runs on the boot PML4, and the TLB differs from the
  tables for an address only if a call is about to flush it.

`own` is what makes it inductive. That entries lead from a level to the next
does not exclude that two entries lead to one table; that a table is *for* an
address does, and it says of a preempted call that it still holds the right
table after others have added some. The recursive functions of the model (a walk, the
levels) are unfolded once (`TranslateIs`, `WalkIs`, `TablesAtIs`); `TableLinked`
and `LeafWritten` say what writing an entry makes of a tree and of all walks in
it. The theorems are `TablesAlwaysATree`, `TlbAlwaysCoherent`,
`GetPhysicalAlwaysAgrees`, `MapAlwaysTakesEffect`, and
`MemoryImplementsAddressSpace`: every step changes at most one page of the map.

**Only model-checked**: liveness (`EventuallyRuns`, `EveryRequestServed`,
`NoLostWakeup`, the fairness part of `Refines`), since the proof system does not
handle fairness and `ENABLED`.

## 5. Not modelled

* PIT set-up and the boot code but for its page tables: constants written once.
* Names, priorities, statistics, printing, the `total_ticks` counters and
  `need_reschedule`: no decision reads them. `process_sleep` is declared but
  defined nowhere, so `SLEEPING` and `wake_time` are unused.
* What happens after memory was corrupted (a header written outside the heap, a
  freed PCB written again): the models stop claiming anything there, and the
  runs show how the program gets there.
* A walk along the heap's list, or `expand_heap`'s loop, that is preempted: the
  runs show what already the calls' outer steps can do to each other.
* Colours, the digits of `vga_print_int` and `vga_print_hex`; Ctrl, Alt and the
  scancode tables of the keyboard, with the 0xE0 prefix, which the handler takes
  for a release.
* `paging_init`'s printing, page flags that no property tells apart, the pages
  of an address space that is never freed (there is no such function).
* 32-bit wrap of `next_pid` and of the statistics, 64-bit wrap of `align_up`.
* `kernel_main`, which is not in the repository.

## 6. Plan

Done: ReadyQueue, RoundRobin, Scheduler, SchedulerPreempt, ContextSwitch,
PageFrames, Pmm, Allocator, KHeap (interrupted calls included), KeyFifo,
Keyboard, Interrupts (with `interrupts_init`), AddressSpace, Paging, Multiboot,
Memory, Vga, Console; proofs of every safety property of the passing runs.

Next: the hypotheses left in front of theorems (`Undisturbed`,
`UpdatesAreWhole`, `Orderly`, `AllocatesWhole`, `OneReader`, `OneWriter`) are
about the callers. Section 4 names the configuration that needs each; the caller
that would have to satisfy them, `kernel_main`, is not in the repository.
