---------------------------- MODULE PageAllocator ----------------------------
(***************************************************************************)
(* The physical page allocator of os/src/mm/page_alloc.rs as a data        *)
(* structure: what PageAllocator::alloc and PageAllocator::dealloc do to   *)
(* the record PAGE_ALLOCATOR.  PageAlloc gives it a state machine, Sv39    *)
(* and VMSpace draw their pages from it.                                   *)
(***************************************************************************)
EXTENDS Integers, SequencesExt

CONSTANTS PAGE_SIZE_BYTES,   \* 4096 in the code
          MEM_START_PA,      \* the physical memory the kernel manages
          MEM_SIZE_BYTES,
          NONE               \* Option::None

ASSUME MemAssumption ==
    /\ PAGE_SIZE_BYTES \in Nat \ {0}
    /\ MEM_START_PA \in Nat
    /\ MEM_SIZE_BYTES \in Nat
    /\ NONE \notin Int

\* The two assert_eq! of compute_max_ppn.
ASSUME AlignAssumption ==
    /\ MEM_START_PA % PAGE_SIZE_BYTES = 0
    /\ MEM_SIZE_BYTES % PAGE_SIZE_BYTES = 0

\* PPN::from_pa, a right shift by the page order.
PpnFromPa(pa) == pa \div PAGE_SIZE_BYTES

\* Mutant: a kernel_end inside a page is not rounded up.
compute_first_unused_ppn_no_rounding(kernel_end_pa) == PpnFromPa(kernel_end_pa)

compute_first_unused_ppn(kernel_end_pa) ==
    IF kernel_end_pa % PAGE_SIZE_BYTES = 0
    THEN PpnFromPa(kernel_end_pa)
    ELSE PpnFromPa(kernel_end_pa + PAGE_SIZE_BYTES)

compute_max_ppn == PpnFromPa(MEM_START_PA + MEM_SIZE_BYTES)

\* Every page number the allocator can hand out, for any kernel image.
PPN == PpnFromPa(MEM_START_PA) .. compute_max_ppn - 1

NewAllocator(kernel_end_pa) ==
    [next_unused_ppn |-> compute_first_unused_ppn(kernel_end_pa),
     max_ppn         |-> compute_max_ppn,
     recycled_ppn    |-> << >>]

\* Mutant: the bound is off by one.
alloc_page_past_end(a) ==
    IF a.recycled_ppn # << >>
    THEN [page      |-> Last(a.recycled_ppn),
          allocator |-> [a EXCEPT !.recycled_ppn = Front(a.recycled_ppn)]]
    ELSE IF a.next_unused_ppn > a.max_ppn
    THEN [page |-> NONE, allocator |-> a]
    ELSE [page      |-> a.next_unused_ppn,
          allocator |-> [a EXCEPT !.next_unused_ppn = a.next_unused_ppn + 1]]

\* Mutant: the recycled page is read, not popped.
alloc_page_no_pop(a) ==
    IF a.recycled_ppn # << >> THEN [page |-> Last(a.recycled_ppn), allocator |-> a]
    ELSE IF a.next_unused_ppn >= a.max_ppn
    THEN [page |-> NONE, allocator |-> a]
    ELSE [page      |-> a.next_unused_ppn,
          allocator |-> [a EXCEPT !.next_unused_ppn = a.next_unused_ppn + 1]]

\* Mutant: recycled pages are never handed out again.
alloc_page_no_reuse(a) ==
    IF a.next_unused_ppn >= a.max_ppn
    THEN [page |-> NONE, allocator |-> a]
    ELSE [page      |-> a.next_unused_ppn,
          allocator |-> [a EXCEPT !.next_unused_ppn = a.next_unused_ppn + 1]]

\* A recycled page is preferred, the most recently recycled one first.
alloc_page(a) ==
    IF a.recycled_ppn # << >>
    THEN [page      |-> Last(a.recycled_ppn),
          allocator |-> [a EXCEPT !.recycled_ppn = Front(a.recycled_ppn)]]
    ELSE IF a.next_unused_ppn >= a.max_ppn
    THEN [page |-> NONE, allocator |-> a]
    ELSE [page      |-> a.next_unused_ppn,
          allocator |-> [a EXCEPT !.next_unused_ppn = a.next_unused_ppn + 1]]

dealloc(a, ppn) == [a EXCEPT !.recycled_ppn = Append(a.recycled_ppn, ppn)]

\* Dropping the elements of a Vec or of a BTreeMap, in order.
DeallocSeq(a, ppns) == [a EXCEPT !.recycled_ppn = a.recycled_ppn \o ppns]
==============================================================================
