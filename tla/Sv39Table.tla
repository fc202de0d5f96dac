------------------------------ MODULE Sv39Table ------------------------------
(***************************************************************************)
(* The life of one user RootPgt: the kernel's tables are built and         *)
(* forgotten, the user root is a copy of the kernel's root                 *)
(* (VMSpace::new_user), and then user pages are mapped one by one and      *)
(* unmapped by ranges.  The frames that are mapped are the caller's        *)
(* business (VMSpace), here they are any numbers.                          *)
(***************************************************************************)
EXTENDS KernelHalf, FiniteSets

CONSTANTS UserFrames,   \* page numbers user pages are mapped to
          UserFlags,    \* flag sets the callers ask for
          MapVpns,      \* the user pages the callers map
          RangeVpns     \* the ends of the ranges they unmap

\* There is a page for the user root, and the callers stay in user space
\* (check_u_va and check_u_va_range).
ASSUME TableAssumption ==
    /\ compute_first_unused_ppn(KernelEndPa) + 4 <= compute_max_ppn
    /\ \A ppn \in UserFrames, flags \in UserFlags : [ppn |-> ppn, flags |-> flags] \in PTE
    /\ NONE \notin PTE
    /\ MapVpns \subseteq UserVpns
    /\ RangeVpns \subseteq 0 .. USER_END_VPN

VARIABLES phys,         \* physical memory and PAGE_ALLOCATOR
          kernel_satp,  \* the root of the kernel's tables, KERNEL_SATP
          root,         \* the user RootPgt
          op,           \* the last operation
          res           \* and what it returned

vars == <<phys, kernel_satp, root, op, res>>

Init ==
    LET k == init_kernel_satp
        u == new_copy(k.phys, k.phys.mem[k.root.ppn])
    IN  /\ kernel_satp = k.root.ppn
        /\ phys = u.phys
        /\ root = u.root
        /\ op = NONE
        /\ res = "Ok"

Finish(r) ==
    /\ phys' = r.phys
    /\ root' = r.root
    /\ res' = r.res
    /\ UNCHANGED kernel_satp

MapCreate(vpn, ppn, flags) ==
    /\ op' = [name |-> "map", vpn |-> vpn, ppn |-> ppn, flags |-> flags]
    /\ Finish(map_create(phys, root, vpn, ppn, flags))

Unmap(first, end) ==
    /\ op' = [name |-> "unmap", first |-> first, end |-> end]
    /\ Finish(unmap(phys, root, first, end))

Next ==
    \/ \E vpn \in MapVpns, ppn \in UserFrames, flags \in UserFlags :
          MapCreate(vpn, ppn, flags)
    \/ \E first \in RangeVpns, end \in RangeVpns : Unmap(first, end)

Spec == Init /\ [][Next]_vars
-----------------------------------------------------------------------------
\* Types: the tables and what a RootPgt owns are pages of physical memory, and
\* map_create and unmap return Ok or one of the errors of PgtError.
TypeOK ==
    /\ phys.alloc.recycled_ppn \in Seq(PPN)
    /\ phys.alloc.next_unused_ppn \in Nat
    /\ DOMAIN phys.mem = PPN
    /\ kernel_satp \in PPN
    /\ root.ppn \in PPN /\ root.pages \in Seq(PPN)
    /\ res \in {"Ok", "AcquirePageFailed", "InvalidPteFlags", "DoubleMapping", "Panic"}

\* unmap never reaches the panic at its end, nor an assert: for every range of
\* user space it comes to a level-0 table at or above the end, which below the
\* kernel half may be none.
UnmapReturns == res # "Panic"

\* The pages of the RootPgt are its root and the tables its user half reaches,
\* each once: dropping the RootPgt recycles every table and nothing else, even
\* after a map_create that failed half way.
PagesAreTables ==
    /\ ToSet(root.pages)
           = {root.ppn} \cup Tables1(phys.mem, root.ppn, UserIndex)
                        \cup Tables0(phys.mem, root.ppn, UserIndex)
    /\ Len(root.pages) = Cardinality(ToSet(root.pages))
    /\ ToSet(root.pages) \cap ToSet(phys.alloc.recycled_ppn) = {}

\* No operation on a user table writes the kernel half, which every RootPgt
\* shares: the root's kernel entries and the tables below them stay.
KernelHalfUntouched ==
    [][/\ \A i \in KernelIndex : phys.mem'[root.ppn][i] = phys.mem[kernel_satp][i]
       /\ \A t \in KernelTables(phys.mem, kernel_satp) : phys.mem'[t] = phys.mem[t]]_vars

\* The map the hardware reads.
Flat == INSTANCE PageMap
    WITH ValidFlags <- is_valid_flags,
         map <- [v \in UserVpns |-> Translate(phys.mem, root.ppn, v)]

\* The tables implement the partial function from pages to entries as the
\* hardware reads it: a failed map_create changes no translation, and an unmap
\* takes away its range and nothing else, whatever tables exist.
ImplementsPageMap == Flat!MapSpec
=============================================================================
