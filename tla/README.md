# Verification of the rCore tutorial kernel in TLA+

The system is a small RISC-V kernel (`src/os`): one hart, Sv39 paging, tasks
that are linked into the image, time slices of 10 ms, and the syscalls write,
exit, yield, mmap, munmap and task_info. This directory holds models of its
core, the TLC runs that check them on small instances, and TLAPS proofs.
`PROJECT.json` gives, for each definition, the lines of source it stands for.

## Inventory

| Component | State | Operations | Used by | Correct when |
|---|---|---|---|---|
| page allocator `mm/page_alloc.rs` | bump pointer, list of recycled pages | alloc, alloc zeroed, drop, batch dealloc, forget | page tables, address spaces | a page has one place; all pages behind the kernel image and no others; refused only when nothing is left |
| page tables `mm/sv39.rs` | tables in physical memory; the pages a root owns | new, new_copy, map_create, map_create_large, unmap, forget_self | address spaces, boot | the tables are a partial map; a failed call changes no translation; all tables are owned once; kernel half untouched |
| kernel address space `mm/vm.rs`, `linker.ld` | KERNEL_SATP, its tables | init_kernel_satp, activate_kernel_space | every user root copies it | every section, device and page the allocator hands out is mapped once, with its permissions, and nothing else is |
| user address spaces `mm/vm.rs` | root, areas, pages per area | new_user, map_fault_page, add_new_area, unmap, drop | syscalls, faults, tasks | areas disjoint; tables and areas agree; no page lost or shared |
| memory syscalls `syscall/mm.rs` | none | mmap, munmap | tasks | whole pages of the range, all or nothing; no assertion reached |
| page faults `trap/*.rs` | none | do_page_fault from user and kernel mode | tasks, uaccess | served if and only if the area permits and memory is there |
| uaccess `mm/uaccess.*` | sstatus.SUM | copy_to_user, copy_from_user with a fix-up | write, task_info | returns the number of bytes not copied; user memory is open to the kernel only meanwhile |
| write syscall `syscall/io.rs` | none | sys_write | tasks | prints all of the buffer or nothing |
| tasks `task.rs`, `task/switch.S` | ALL_TASKS behind a lock, tp, satp | start, run_next_task, exchange state, __switch | trap handlers, syscalls | one Running task; a task resumes where it was; all run to their end |
| traps `trap/trap.S`, `utrap.rs`, `ktrap.rs` | sscratch, TrapContext, sstatus | save, dispatch, restore | all | context intact; a trap from the kernel is told from one of the user |
| statistics `task/state.rs` | times, switch count, syscall table | record_run_start, record_run_end, record_syscall | task_info | the totals account for all time |
| spin lock `sync/spin.rs` | a flag | lock, drop | task list, allocator | exclusive, never taken twice by the hart |
| boot `entry.S`, `main.rs` | satp, pc, sp | boot page table, jump to virtual addresses, mm::init | - | the hart's code and stack are mapped before and after every write of satp |
| application table `build.rs`, `task/apps.rs` | the table in the data section | written on the host, read by start | tasks | each program becomes one task with its own ELF |
| console, log, SBI, heap | - | - | - | not modelled, see below |

Components meet through calls only: a trap handler takes the lock on
ALL_TASKS, changes a task control block or its VMSpace, which draws pages from
the allocator, and hands the hart on through run_next_task. What makes this
hard is: traps that nest in the kernel's own copies; the instructions between
kernel and user mode; cleaning up after a step of several that failed; pages that pass
between owners; ranges cut at page, table and area borders; the end of user
space and of the 64-bit range; a random place in the task list; pointers that
outlive what they point to; and records made on some ways out of a task and
not on others. `PROJECT.json` lists these hazards line by line.

## Modules

    PageAllocator --- PageAlloc (implements PagePool) --- PageAllocProofs
         |
       Sv39 --- KernelHalf --- Sv39Table (implements PageMap) --- Sv39TableProofs
         |          |                                                   |
         |       VMSpace --- UserMemory (implements AddressSpace)       |
         |                        |                                     |
         +--- Sv39Proofs --- UserMemoryProofs --- UserTablesProofs      |
                   |                                                    |
                   +----------------------------------------------------+

       Sv39 --- KernelSpace --+
                 AppTable --- Boot

    Scheduler --- SchedulerProofs --+
        |                           |
    TaskStats ---------------- TaskStatsProofs

    Trap --- TrapProofs

* `PageAllocator`: the record PAGE_ALLOCATOR and what `alloc` and `dealloc` do
  to it. `PageAlloc`: its state machine with the live `Page` handles. Handles
  are counted, not assumed unique: a Page is owned by the type system only as
  long as the allocator does not create a second one. `PagePool` is the
  abstract pool.
* `Sv39`: physical memory as pages of words, and every method of RootPgt as a
  function from (memory, root) to (memory, root, result). The walk of
  map_create is a composition of steps that stop at the first error; the three
  loops of unmap are recursive functions over the loop index, with the carried
  start indices as their state. `Translate` is the hardware's walk (external).
  Note that `is_leaf` of the code looks at W and X only, `Translate` at R too.
  `KernelHalf` builds the kernel's tables, reduced to a device page (which has
  a level-0 table) and a large page. `Sv39Table` is the life of one user root;
  `PageMap` the flat map it implements.
* `VMSpace`: areas and pages of a user space, in the order of the code (the
  page table first, then the areas; swap_remove; the walk from the last area to
  the first). `UserMemory`: tasks that make requests. `AddressSpace`: what a
  task is promised, page by page.
* `Scheduler`: the task list, the context switch and the trap handlers that
  change the current task. A handler is one step, since the hart clears
  sstatus.SIE on a trap and the kernel does not set it again before the sret,
  but for the few instructions of a task's very first `__restore_u_ctx`, which
  `Trap` models. The pointers
  run_next_task gives to `__switch` point into locals that have been moved
  away: this is undefined, so the model chooses between the two stack layouts
  a build can have (two slots, or one for both).
* `TaskStats`: the same handlers with the records they make, beside a true
  history of each task. The timer interrupt takes a positive interval, since
  it is set after the run has started.

* `KernelSpace`: the linker script's sections, the huge pages of entry.S and
  the loops of init_kernel_satp with their rounding, on top of `Sv39`.
  `AppTable`: the table of applications as a sequence that os/build.rs writes
  and apps.rs reads by index; read_dir's order is a set, sorting makes it a
  sequence. `Boot` composes the two: from `_start` through mm::init to the loop
  in task::start, one action per stage. The kernel's RootPgt is a local of
  init_kernel_satp: an error drops it and recycles its pages, forget_self at the
  end keeps them. Memory starts with garbage, so that a
  table that is used without being zeroed would show.
* `Trap`: the trap path, as fine as a trap can split it. A pc is a label of
  kernel code or an instruction of the user program; `x`, `csr` and `ctx` are
  the registers, the control registers and the contexts on the kernel stacks.
  Between two points where a fault or an interrupt can strike, kernel code is
  one step. Its copy loop faults byte by byte, a fault enters `stvec` again, and
  k_trap_handler serves it or moves the saved sepc to the fix-up. The page
  tables are reduced to what a page permits and whether it is mapped
  (`UserMemory` has the rest); a fault that the area permits may still fail, for
  want of memory. The scheduler is reduced to the choice of a Ready task other
  than the current one if there is one (`OthersGoFirst` of `Scheduler`). The
  stack of a task that has ended is free from the drop of its TCB on, and every
  served fault may take it and clear it. Calls of mmap and munmap are in
  `UserMemory` only. A task may also do what the kernel stops for: fault outside
  user space (the check_u_va guards), raise an exception u_trap_handler has no
  arm for, or make an unknown system call. Data that nothing reads again (a context below the stack
  pointer, scause after the handler, a finished buffer) is cleared.

Operators whose comment starts with "Mutant" are wrong variants of the
definition that follows them. They are used only to see that a property fails
when the code is wrong; `PROJECT.json` pairs them.

## Runs

| Run | Instance | Shows |
|---|---|---|
| page_alloc | 5 pages of 2 bytes, kernel_end at the start, inside, at the end of a page; batches of up to 3 | TypeOK, OnePlace, OutsideKernel, ImplementsPool |
| page_table | tables of 3 entries, 8 pages of memory, too few for all tables; pages at table borders and the last user page; all ranges between seven points | TypeOK, UnmapReturns, PagesAreTables, KernelHalfUntouched, ImplementsPageMap |
| user_memory_one | 1 task, 8 user pages, 13 pages of memory, 6 mmap and 8 munmap calls, accesses inside user space, to the page below the kernel half, to an address that is not canonical and to the kernel's device page, 5 requests | TypeOK, AreasDisjoint, NoPanic, ImplementsAddressSpace |
| user_memory_two | 2 tasks, 20 pages of memory, 6 requests | PagesConserved, TablesMatchAreas, RecycledUnreachable, OwnDataOnly |
| scheduler | 3 tasks, programs of 2 instructions and an exit | TypeOK, OneRunning, ResumesItself, NoPanic, OthersGoFirst, OnlyTheRunningTaskLeaves, AllTasksEnd |
| task_stats | 2 tasks, programs of 3 instructions, mtime up to 3, 4 syscalls and a table of 2 | StatsTypeOK, TicksAccountedFor, SyscallCountsExact |
| trap | 2 tasks with 2 pages of 2 bytes, programs of 2 and 1 instructions, good and bad calls of write, task_info, yield, exit, an unknown call; faults inside and outside user space, the former served or not; causes without an arm | TypeOK, HandlerMatchesMode, ResumesExactly, SumOnlyInCopy, CopyExact, WriteAllOrNothing, StackNotReused, KernelReturns |
| boot | tables of 8 entries, 30 pages of memory that end inside a large page, 18 layouts of the image, every subset of 3 programs | KernelMapExact, FailsOnlyWithoutMemory, TablesKept, HartStaysMapped, TasksGetTheirElf |
| user_memory_spurious | as user_memory_one, and the hart may fault on a permitted access | RecycledUnreachable fails |
| stats_switch_count, stats_waiting | 2 tasks | SwitchCountExact, WaitingTimeExact fail |
| trap_window | as trap, and a slice may end before the switch that set it | HandlerMatchesMode fails |

Bounds. Tables of three entries have a first, an inner and a last slot, and
two user root entries (page_table) or one (user_memory) let a range cross
tables of both levels; 512 entries add nothing but more inner slots. In
page_table a user root and four pages are left for six tables, so map_create
fails at the level-0 table, both below a level-1 table it has just made (the
half-way failure) and below an old one. In user_memory_two memory runs out at
the frame itself and at a table. Five requests suffice to map, touch, cut,
touch again and unmap; the sixth of user_memory_two reuses a page. USIZE is 90
for the machine's 2^64: the range still has two canonical halves and a hole, and
in its low bits the upper half is the kernel's, so that an address of the hole
falls on a user page. Three tasks are the least with which the random swap in the
task list can affect a third. In task_stats two of four ids fill the table
and a program of three calls meets it full, or counts an id of it again; three
ticks let a task run, wait and run again. MaxPc bounds the programs, MaxTime the clock,
MaxRequests the runs, MaxBatch a batch; deadlock is not checked where the machine
powers off (Scheduler, TaskStats, Trap) or the part that is modelled ends (Boot),
elsewhere the end of a run is the explicit step `Off`.

In trap, two pages of two bytes put the border of the pages inside a copy, so a
copy stops before, at and behind it, and a buffer of three bytes needs two
faults to be served; two tasks are enough for one to fault while it uses the
pages of the other's stack. `SliceCoversSwitch` says that the 10 ms of a slice
outlast the instructions from set_next_timer_interrupt to the sret: true of a
hart that is not stopped in between, and dropped in trap_window. In boot, the
image ends at every offset from a large page, with and without whole large
pages behind it, up to where memory is too small for the tables.

Fairness. `KernelReturns` assumes weak fairness of the kernel's own steps: they
are straight-line code that nothing but a trap (itself followed by kernel
steps) interrupts. Nothing is assumed of user programs or of the timer. The
step of a handler that must wait for the lock is not enabled, so a lock that
is never released is a violation. `AllTasksEnd` assumes weak fairness of start (straight-line code)
and, for each task, strong fairness of the instructions it executes: a task
that is switched to again and again has 10 ms each time
(`set_next_timer_interrupt` is called after the switch is decided), so it
executes instructions. Nothing is assumed of the timer or of which task is
chosen. So the property is about programs that end. It does not say that a task
is never starved: among three tasks that do not end, two can pass the hart to
each other for ever if mtime % len always falls badly, and nothing in the code
excludes that.

## What the runs found

* `switch_count` is documented as the number of times a task was switched out;
  a yield does not count (stats_switch_count).
* The waiting time is documented as the time a task was switched out; after a
  yield it is measured from a stale end of run, or from time 0
  (stats_waiting). For a task that never yields both are exact
  (`TicksAccountedFor`).
* `VMSpace::map` inserts the new page before it asks the page table. For a page
  that is already mapped the insert recycles the frame that the valid entry
  still points to (user_memory_spurious). This needs a fault on a permitted
  access. The architecture allows one (the entries are made with A and D clear,
  and no sfence.vma follows a mapping); QEMU, which the kernel targets, does
  not raise one, and the passing runs have `SpuriousFaults = FALSE`.

* `__stvec` takes a trap for one of user code if sscratch is not 0, and
  `__restore_u_ctx` sets sscratch while the hart is in the kernel. For a task
  that has not run yet SIE is set there as well. A timer interrupt between
  `csrw sscratch` and `sret` would be handled by u_trap_handler and overwrite
  the context that is being restored (trap_window). It takes a slice that ends
  before the switch is complete (a hart, or its virtual machine, stopped for
  10 ms); with slices that outlast the switch `HandlerMatchesMode` holds.

Some behaviours are modelled as the code has them and not claimed as findings. A
task can stop the machine: by a load or store outside user space or an exception
such as a breakpoint, which u_trap_handler leaves to trap_panic; by an unknown
system call; by a write of more bytes than the kernel heap has, or of bytes that
are no UTF-8. `KernelReturns` names each of these stops (`Stopped`) with its
reason, and says that there is no other: the panics of the handlers
("panic"), a lock the hart waits for itself and a fault that repeats are not
reached. In `UserMemory` the access outside user space is `halt = "TrapPanic"`;
NoPanic there is about the assertions and panics of the memory code only, and
the one it admits is the expect of add_task, before the first request, for want
of a page or for a malformed segment.
map_create_large does not see a level-0 table as a double mapping; the ranges
init_kernel_satp asks for never meet one (`KernelMapExact`).

## Proofs

Each proof module states an inductive invariant, proves it of the initial states
and of every action, and draws the properties from it. TLC checked the
invariants on the instances of the runs before they were proved. Everything
below holds for every value of the constants that satisfies the named
assumptions, which TLC evaluates in the runs.

### PageAllocProofs: the page allocator

For every page size, memory size, kernel image and batch bound that satisfies
`MemAssumption`, `AlignAssumption` (the two assertions of compute_max_ppn) and
`KernelEndAssumption`:

* `TypeCorrect`: Spec => []TypeOK
* `NoLeakNoAlias`: Spec => []OnePlace
* `KernelImageSafe`: Spec => []OutsideKernel
* `RefinesPool`: Spec => ImplementsPool

The inductive invariant is `TypeOK /\ OnePlace`. OnePlace alone is not
inductive: that a freshly bumped page is in PPN needs the types, and that it is
owned by nobody needs the disjointness of the unused range. One lemma per kind
of step (`AllocMoves`, `HeldMoves`, `DeallocMoves`) says how the four places of
a page change; the refinement uses the same lemmas, since it only reads the free
and the used set. Lemmas on sequences (`PopFacts`, `AppendFacts`) say what pop,
push and a batch do to the set of elements and to the absence of duplicates.
OutsideKernel says that the pages the allocator manages are the whole pages
behind kernel_end, one too low and one too high being both wrong; it follows
from the invariant (`NoneLeftOut`) and arithmetic on the rounding of kernel_end
(`BehindKernel`).

### Sv39TableProofs: the page tables

For every number of entries per table, every border of the kernel half and
every size of memory, `Sv39Assumption`, `KernelHalfAssumption` (the kernel image
lies in memory and its tables fit behind it) and `TableAssumption` (one more
page for the user's root; callers stay in user space, as vm.rs does; what they
ask for are entries):

* `TableInvariance`: Spec => []IInv
* `TableTypeCorrect`: Spec => []TypeOK
* `UnmapAlwaysReturns`: Spec => []UnmapReturns
* `PagesAreItsTables`: Spec => []PagesAreTables
* `KernelHalfKept`: Spec => KernelHalfUntouched
* `TablesImplementPageMap`: Spec => ImplementsPageMap

The invariant says that the tables are a tree: every table entry of the user
half points to a page allocated since boot (`Points`), no two entries point to
the same page (`Unshared`), and every page allocated since boot is reached
(`Reached`); the entries of the root's kernel half are the kernel's, and the
kernel's tables hold what boot wrote (`KernelMem`). PagesAreTables is not
inductive without Unshared, since a write through one of two equal pointers
would change the other's subtree; nor is the refinement. The argument of each
operation is on the pages it writes: `MapCreateResult` follows the walk through
a table that exists, that is new, or that cannot be had.

unmap's loops are recursive functions. That the function exists and follows its
defining equation (`LoopRuns`), and that an invariant of a loop's body holds
after every round (`LoopStays`), are proved through a least counterexample
with `WFMin`, which needs no operator parameter. These two, the arithmetic of
page numbers, the tree and what new_copy, map_create and unmap do to it are in
`Sv39Proofs`, which the proofs about `UserMemory` use as well: the lemmas allow
for recycled pages, and for words of a page that are not table entries. The loop invariants `Inner`
and `Outer` say that everything below the current index, and nothing else, has
been wiped, or that the walk has returned with the whole range wiped. `KernelStep`
is the one place where the two halves meet: a range that ends at the border of
user space leaves the loop at the first entry of the kernel half, since boot put
a device's level-0 table there. Without it unmap would end in its panic.

### UserMemoryProofs: the areas of user spaces

For every number of tasks, size of tables and of memory, program and set of
requests. `VMAssumption` says that the user stack is a positive number of pages
in user space, that user space is the lower half of the Sv39 space, and that the
upper half of the 64-bit range has the low bits of the kernel half (39 bits of
64, a fact about powers of two that the smaller instances keep); `ElfAssumption`, that the segments of a program are not empty,
lie below the stack and share no page (the user crate's `linker.ld` aligns its
sections to pages and places them low; new_user itself does not compare them);
`RequestAssumption` and `AccessAssumption`, that arguments and addresses are
usize values.

* `MemoryInvariance`: Spec => []UInv
* `MemoryTypeCorrect`: Spec => []TypeOK
* `AreasStayApart`: Spec => []AreasDisjoint

`UInv` types memory down to its words, the allocator, every root and every area,
and says that the areas of a space lie apart. It supposes nothing of what the
tables hold: memory is any function from pages to words, so a write through a
wrong table entry would not break it, and the argument is about the areas and
the allocator alone. For AreasDisjoint it has to follow every list of areas:
new_user places one area per segment (`Placed`), then the two stacks, which
`UserRange` puts above the segments and below the kernel half; a fault changes
no range (`MapType`); add_new_area compares with every area; and munmap keeps
the whole of an area, a lower, an upper, or both parts (`RemainingType`). The
loop of VMSpace::unmap runs from the last area to the first over a list that
swap_remove shortens and a cut in the middle lengthens: its invariant is that
the list has at least as many areas as the loop has still to visit
(`UnmapRangeType`), so that no index is out of bounds.

### UserTablesProofs: the tables and pages of user spaces

Under the same assumptions, and two hypotheses every theorem names.
`~SpuriousFaults`: the hart does not fault on an access that its tables permit;
user_memory_spurious shows that RecycledUnreachable fails without it.
`NoneApart`: NONE, the value that stands for Option::None, is neither a table
entry nor a space, which is so for any model value. `SpacesImplement` asks for
`NoneNoMap` too: NONE is not a map of pages to permissions either, so that in
AddressSpace a task that has ended differs from one that has such a map.

* `SpacesInvariance`: Spec => [](UInv /\ DInv)
* `TablesAgree`: Spec => []TablesMatchAreas
* `FreeUnreachable`: Spec => []RecycledUnreachable
* `DataStaysOwn`: Spec => []OwnDataOnly
* `PanicsNever`: Spec => []NoPanic
* `EveryPageHeldOnce`: Spec => []PagesConserved
* `SpacesImplement`: Spec => ImplementsAddressSpace

None of the five invariants is inductive, and they lean on each other: that the tables of
one space survive a store of another needs that no page has two owners; that a
page has one owner after munmap needs that the tables and the areas name the
same pages; that unmap does not reach its panic needs the kernel's entry behind
user space; that a fault finds no page already there needs the agreement again.
So `DInv` carries them together. For one space, `Fits` says: its tables are a
tree (`Good`, of Sv39Proofs); what the tables say of the lower half is what the
areas hold, page by page (`Agrees`; `Backing` is the areas' pages as a set of
records); those pages are neither free nor tables and no two are the same
(`Owns`); and they hold zeroes or the task's own words (`Clean`). For all
spaces together, `MemInv` adds that the pages of two spaces are apart
(`Separate`), that each page behind the kernel image is free or in some space
(`NoneLost`), and that the kernel's tables hold what boot wrote. The rest of
DInv is about boot: a task that is not yet added has no space, and there is no
request before all are.

The argument has three layers. What an operation does to its own space:
`MapFits`, `UnmapFits`, `NewUserBuilt`, `DropSpaceFrees`, each with the case that
memory runs out in the middle. What it does to the others: it only writes pages
that were free or its own, and pages go from the free ones to the space and back
(`Moves`), so every other space keeps what it has (`SpacesKept`, `StepKeeps`).
What the hardware finds: a canonical address that is not of user space meets
the kernel's half or the unmapped page below it (`HighAddress`), so an access
that goes through is to a page of the task's own areas (`HitBacked`), and one that faults
is to a page that has none (`FaultMissing`). For PagesConserved, the holders of
a page are told apart by where they are (`OneHolder`), and NoneLost provides one
(`SomeHolder`).

SpacesImplement says that areas, page tables and frames together are the page
map of AddressSpace: what is reserved with which permissions, and what is
resident. Two sets stand between the detailed state and the abstract one.
`Grants` has the pages of the areas with their permissions; since areas do not
overlap it determines the map that ReservedOf reads off them (`ReservedShows`,
`ShowsOne`). `Backing`, by TablesMatchAreas, determines the resident pages
(`ViewIs`). Then what each operation does to the two sets: new_user makes them the
segments, the stack and its top page, each with its own permissions
(`NewUserShape`); mmap adds a range; the loop of VMSpace::unmap, which cuts and
moves areas in the list, leaves both sets as they are outside the range
(`SameRest`) and empty inside, since an area it puts where it has already been
was there before or is a part outside the range (`Stays`); a fault leaves the grants and makes one page resident
(`MapViews`). The last layer is arithmetic: the pages from VpnFromVa(addr) to
VpnFromVa(addr + len) rounded up, which the code computes, are those that hold a
byte of the range (`PageBounds`), for a request of no byte inside a page as well.
A fault that cannot be served is at a page that is not granted to such an
access, or not resident (`MissingBarred`): no task is killed for an access to a
resident page it may make.

### SchedulerProofs: the task list and the switch

For every number of tasks, every program length and both layouts of
run_next_task's locals (`SchedulerAssumption`):

* `Invariance`: Spec => []IInv; `TypeCorrect`: Spec => []TypeOK
* `RunsOne`: Spec => []OneRunning
* `ResumesCorrectly`: Spec => []ResumesItself
* `NeverPanics`: Spec => []NoPanic
* `GivesWay`: Spec => OthersGoFirst
* `LeavesByItself`: Spec => OnlyTheRunningTaskLeaves

The invariant adds to these properties that no task is listed twice (`Once`),
what holds during boot and what holds in user mode (`InUserMode`: tp, satp and
the one Running task are the same). Once is what the random swap of take_task_tcb
needs: "the entry with id tp" is a single one. The lemmas say what the removal of
an element, swap with the last, and the first Ready entry do to a list
(`TakeFacts`, `WithoutFacts`); Min of the positions comes from `WFMin` too.

### TaskStatsProofs: the records of a task

For every number of tasks, size of the syscall table and course of mtime
(`StatsAssumption`: mtime is at least 1 when the first task starts, as boot has
taken time):

* `StatsInvariance`: StatsSpec => []SInv
* `StatsTypeCorrect`: StatsSpec => []StatsTypeOK
* `TicksAdd`: StatsSpec => []TicksAccountedFor
* `CountsExact`: StatsSpec => []SyscallCountsExact

SInv is built on Scheduler's IInv, since the records of a handler go to the
task that tp names and the property is about the listed ones. It relates each
record to the task's true history: the running task's run started after its last
end, a waiting task's clock stands at its last end unless it yielded, and the
syscall table is filled from the front.

### TrapProofs: trap entry and exit, the copies

For every number of tasks, every program, size of user memory, set of calls and
heap (`TrapAssumption`, which only types the constants). All are of the form
SliceCoversSwitch /\ Spec => ..., and trap_window shows that the hypothesis is
needed:

* `TrapInvariance` and `TrapTypeCorrect`
* `HandlersMatch`: []HandlerMatchesMode
* `TasksResume`: []ResumesExactly
* `SumClosed`: []SumOnlyInCopy
* `StacksKept`: []StackNotReused
* `CopiesExactly`: []CopyExact
* `WritesAllOrNothing`: []WriteAllOrNothing

The invariant `HInv` has one conjunct per place the hart can be at: in user code,
at u_trap_handler, in the copy loop, at k_trap_handler inside the copy, in
either restore, in each of its instructions. Each says what sscratch, sstatus,
the stack pointer and the contexts hold there. HandlerMatchesMode is not
inductive alone: that the next trap is told right depends on sscratch being 0
from the entry on, which the exit restored, which depends on the context a
nested trap left alone. `DInv` says what the copy has done so far, for which
bytes, and with which answer write returned; it needs HInv to know that the
bytes already copied and the rest of the loop's registers survive a nested
fault. SumOnlyInCopy needs the contexts: SUM is off in every context of a trap
from user mode, so a restored or switched-to context cannot open it, and only a
context of a fault in the copy has it on.

### Only model-checked

* Liveness (`AllTasksEnd`, `KernelReturns`): fairness is out of the prover's
  reach.
* `Boot`. init_kernel_satp's three loops over the sections of a layout would
  each need an invariant about the whole kernel map.

## Not modelled

Console and log: formatting and output; the log level is set once at boot and
decides only what is printed. SBI calls: firmware. The kernel heap: a
third-party buddy allocator over a static array. The user programs: what they
may do is the choice of instructions and requests in the models. The scripts
that build them. The accessors of the riscv crate other than the bits of
sstatus the kernel changes. The conversion of mtime to milliseconds is left
out. Parsing of ELF files is the xmas-elf crate's; the models start from its
segments. What the panic handler prints before it shuts down is left out. The registers other than pc and a0 are left out of Scheduler, and
`Trap` keeps seven of the thirty-one. `bge` in the copy loop compares signed
numbers; user addresses are far below 2^63, and so is the range of a kernel
buffer, whose two ends have the same sign. In UserMemory the words of a page
other than the first are written only as table entries. Everything is modelled
for one hart, as the kernel is (the comment at ALL_TASKS says so).

## Plan

1. Done: allocator, page tables, address spaces, user memory, scheduler,
   statistics; the kernel's address space, boot and the application table; the
   trap path with the lock and the copies.
2. Done: proofs about the allocator, the page tables, the areas, tables and
   pages of user spaces, the scheduler, the statistics and the trap path.
3. Left: what of `Boot` does not depend on the whole kernel map.
