------------------------------ MODULE PageAlloc ------------------------------
(***************************************************************************)
(* PAGE_ALLOCATOR of os/src/mm/page_alloc.rs and the Page handles it has   *)
(* given out.  A Page is owned, so safe code cannot copy it, but two Pages *)
(* with one ppn exist as soon as the allocator's list holds a ppn twice:   *)
(* handles therefore counts the live Pages of each ppn.                    *)
(***************************************************************************)
EXTENDS PageAllocator, FiniteSets

CONSTANTS KernelEnds,  \* the physical addresses the linker may give kernel_end
          MaxBatch     \* bounds the Vec given to dealloc_pages

ASSUME KernelEndAssumption ==
    /\ KernelEnds \subseteq MEM_START_PA .. MEM_START_PA + MEM_SIZE_BYTES
    /\ MaxBatch \in Nat

VARIABLES kernel_end,  \* the linker symbol
          allocator,   \* PAGE_ALLOCATOR
          handles,     \* handles[p]: the number of live Pages with ppn p
          forgotten,   \* pages whose Page was put in a ManuallyDrop
          result       \* what the last alloc_page returned

vars == <<kernel_end, allocator, handles, forgotten, result>>

Init ==
    /\ kernel_end \in KernelEnds
    /\ allocator = NewAllocator(kernel_end)
    /\ handles = [p \in PPN |-> 0]
    /\ forgotten = {}
    /\ result = NONE

AllocPage ==
    LET r == alloc_page(allocator) IN
    /\ allocator' = r.allocator
    /\ result' = r.page
    /\ handles' = IF r.page = NONE THEN handles
                  ELSE [handles EXCEPT ![r.page] = @ + 1]
    /\ UNCHANGED <<kernel_end, forgotten>>

Held == {p \in PPN : handles[p] > 0}

\* <Page as Drop>::drop
DropPage(p) ==
    /\ p \in Held
    /\ allocator' = dealloc(allocator, p)
    /\ handles' = [handles EXCEPT ![p] = @ - 1]
    /\ UNCHANGED <<kernel_end, forgotten, result>>

\* The Vec of pages is recycled under one lock, in the order of the Vec.
DeallocPages(ps) ==
    /\ \A i \in 1 .. Len(ps) : ps[i] \in Held
    /\ \A i, j \in 1 .. Len(ps) : i # j => ps[i] # ps[j]
    /\ allocator' = DeallocSeq(allocator, ps)
    /\ handles' = [p \in PPN |-> IF \E i \in 1 .. Len(ps) : ps[i] = p
                                 THEN handles[p] - 1 ELSE handles[p]]
    /\ UNCHANGED <<kernel_end, forgotten, result>>

\* RootPgt::forget_self, one page of its Vec: never recycled.
ForgetPage(p) ==
    /\ p \in Held
    /\ handles' = [handles EXCEPT ![p] = @ - 1]
    /\ forgotten' = forgotten \cup {p}
    /\ UNCHANGED <<kernel_end, allocator, result>>

Next ==
    \/ AllocPage
    \/ \E p \in PPN : DropPage(p) \/ ForgetPage(p)
    \/ \E n \in 0 .. MaxBatch : \E ps \in [1 .. n -> PPN] : DeallocPages(ps)

Spec == Init /\ [][Next]_vars
-----------------------------------------------------------------------------
FirstUnused == compute_first_unused_ppn(kernel_end)

Recycled == ToSet(allocator.recycled_ppn)

Unused == allocator.next_unused_ppn .. allocator.max_ppn - 1

\* Types: alloc and dealloc keep to page numbers of physical memory.
TypeOK ==
    /\ kernel_end \in KernelEnds
    /\ allocator \in [next_unused_ppn : Nat, max_ppn : Nat, recycled_ppn : Seq(PPN)]
    /\ allocator.max_ppn = compute_max_ppn
    /\ handles \in [PPN -> Nat]
    /\ forgotten \subseteq PPN
    /\ result \in PPN \cup {NONE}

\* Every page is in exactly one place: never handed out, in the recycled list
\* once, owned by one Page, or forgotten.  Neither a leak nor a second owner.
OnePlace ==
    /\ \A i, j \in 1 .. Len(allocator.recycled_ppn) :
          i # j => allocator.recycled_ppn[i] # allocator.recycled_ppn[j]
    /\ \A p \in PPN : handles[p] \in {0, 1}
    /\ Recycled \cap (Held \cup forgotten) = {}
    /\ Held \cap forgotten = {}
    /\ Unused \cap (Recycled \cup Held \cup forgotten) = {}
    /\ Unused \cup Recycled \cup Held \cup forgotten
           = FirstUnused .. allocator.max_ppn - 1

\* Whatever the alignment of kernel_end, the pages that are or may be handed out
\* are those of physical memory behind the kernel image: none overlaps it, and
\* none is left out.
OutsideKernel ==
    LET managed == Unused \cup Recycled \cup Held \cup forgotten IN
    /\ \A p \in managed : /\ p * PAGE_SIZE_BYTES >= kernel_end
                         /\ (p + 1) * PAGE_SIZE_BYTES <= MEM_START_PA + MEM_SIZE_BYTES
    /\ \A p \in PPN \ managed : p * PAGE_SIZE_BYTES < kernel_end

\* The free pages of the pool are the recycled and the unused ones.
Pool == INSTANCE PagePool
    WITH Pages <- PPN,
         free  <- Unused \cup Recycled,
         used  <- Held

\* The allocator implements the pool of pages: in particular alloc_page
\* returns None only when neither a recycled nor an unused page is left.
ImplementsPool == Pool!PoolSpec
=============================================================================
