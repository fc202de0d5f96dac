----------------------------- MODULE UserMemory -----------------------------
(***************************************************************************)
(* The tasks' address spaces in motion.  One action per way user memory    *)
(* changes: task creation at boot, the syscalls mmap and munmap, a memory  *)
(* access of the task or of the kernel on its behalf (copy_to_user,        *)
(* copy_from_user) with the page fault it may take, and the end of a task. *)
(* A handler runs with interrupts off on the only hart, so it is one step; *)
(* which task runs next is left open (Scheduler).                          *)
(***************************************************************************)
EXTENDS VMSpace

CONSTANTS Tasks,           \* 1 .. n, in the order start adds them
          Elf,             \* the loadable segments of the program
          MmapCalls,       \* <<addr, len, prot>>
          MunmapCalls,     \* <<addr, len>>
          Accesses,        \* <<va, kind>>, kind "load" or "store"
          MaxRequests,     \* bounds the length of a run
          SpuriousFaults   \* may an access fault although it is permitted?

ASSUME TasksAssumption == IsFiniteSet(Tasks) /\ Tasks = 1 .. Cardinality(Tasks)

\* The user crate's linker.ld puts the sections on pages of their own, far
\* below the stack.
ASSUME ElfAssumption ==
    /\ Elf \in Seq([va : Nat, mem_size : Nat \ {0}, file_size : Nat, align : Nat \ {0},
                    flags : SUBSET {"R", "W", "X"}])
    /\ \A i \in DOMAIN Elf :
          Elf[i].va + Elf[i].mem_size <= USER_SPACE_END - USER_STACK_MAX_SIZE_BYTES
    /\ \A i, j \in DOMAIN Elf : i # j =>
          \/ SegmentArea(Elf[i]).end_vpn <= SegmentArea(Elf[j]).start_vpn
          \/ SegmentArea(Elf[j]).end_vpn <= SegmentArea(Elf[i]).start_vpn

\* The arguments of a syscall and an address are usize values.
ASSUME RequestAssumption ==
    \A c \in MmapCalls \cup MunmapCalls :
        c[1] \in 0 .. USIZE - 1 /\ c[2] \in 0 .. USIZE - 1

ASSUME AccessAssumption == \A c \in Accesses : c[1] \in 0 .. USIZE - 1

VARIABLES phys,         \* physical memory and PAGE_ALLOCATOR
          kernel_satp,  \* KERNEL_SATP
          spaces,       \* spaces[t]: the VMSpace in t's TaskControlBlock, or NONE
          started,      \* tasks added so far
          halt,         \* "No", "Panic" or "TrapPanic"
          requests,     \* requests made so far
          op            \* the last request and its answer

vars == <<phys, kernel_satp, spaces, started, halt, requests, op>>

Init ==
    LET k == init_kernel_satp IN
    /\ phys = k.phys
    /\ kernel_satp = k.root.ppn
    /\ spaces = [t \in Tasks |-> NONE]
    /\ started = 0
    /\ halt = "No"
    /\ requests = 0
    /\ op = NONE

Word(t) == [data |-> t]

Halt(why) ==
    /\ halt' = why
    /\ op' = [name |-> "halt"]
    /\ UNCHANGED <<phys, spaces>>

\* add_task; all tasks are added before the first one runs.  The expect makes
\* a failure fatal.
AddTask ==
    LET t == started + 1
        r == new_user(phys, kernel_satp, Elf, Word(t))
    IN  /\ halt = "No" /\ t \in Tasks
        /\ started' = t
        /\ IF r.res = "Ok"
           THEN /\ phys' = r.phys
                /\ spaces' = [spaces EXCEPT ![t] = r.space]
                /\ op' = [name |-> "begin", task |-> t]
                /\ UNCHANGED halt
           ELSE Halt("Panic")
        /\ UNCHANGED <<kernel_satp, requests>>

\* Task t, alive and scheduled, makes a request.
Runs(t) ==
    /\ halt = "No" /\ started = Cardinality(Tasks) /\ spaces[t] # NONE
    /\ requests < MaxRequests
    /\ requests' = requests + 1

\* The vpn one past the last page that holds a byte of the range, by a sum
\* whose address from_va must find valid.
EndVa(addr, len) == addr + len + PAGE_SIZE_BYTES - 1

Mmap(t, addr, len, prot) ==
    LET r == add_new_area(spaces[t], VpnFromVa(addr), VpnFromVa(EndVa(addr, len)),
                          "Anonymous", prot \cup {"U"})
        Answer(a) == op' = [name |-> "mmap", task |-> t, addr |-> addr, len |-> len,
                            prot |-> prot, ans |-> a]
    IN  /\ Runs(t)
        /\ \/ /\ ~check_u_va_range(addr, len) \/ ~(prot \subseteq {"R", "W", "X"})
              /\ Answer(-1)
              /\ UNCHANGED <<phys, spaces, halt>>
           \/ /\ check_u_va_range(addr, len) /\ prot \subseteq {"R", "W", "X"}
              /\ IF is_valid_va(EndVa(addr, len))
                 THEN /\ spaces' = [spaces EXCEPT ![t] = r.space]
                      /\ Answer(IF r.res = "Ok" THEN 0 ELSE -1)
                      /\ UNCHANGED <<phys, halt>>
                 ELSE Halt("Panic")
        /\ UNCHANGED <<kernel_satp, started>>

Munmap(t, addr, len) ==
    LET r == unmap_range(phys, spaces[t], VpnFromVa(addr), VpnFromVa(EndVa(addr, len)))
        Answer(a) == op' = [name |-> "munmap", task |-> t, addr |-> addr, len |-> len,
                            ans |-> a]
    IN  /\ Runs(t)
        /\ \/ /\ ~check_u_va_range(addr, len)
              /\ Answer(-1)
              /\ UNCHANGED <<phys, spaces, halt>>
           \/ /\ check_u_va_range(addr, len) /\ len = 0
              /\ Answer(0)
              /\ UNCHANGED <<phys, spaces, halt>>
           \/ /\ check_u_va_range(addr, len) /\ len > 0
              /\ IF is_valid_va(EndVa(addr, len)) /\ r.res # "Panic"
                 THEN /\ phys' = r.phys
                      /\ spaces' = [spaces EXCEPT ![t] = r.space]
                      /\ Answer(IF r.res = "Ok" THEN 0 ELSE -1)
                      /\ UNCHANGED halt
                 ELSE Halt("Panic")
        /\ UNCHANGED <<kernel_satp, started>>

Need(kind) == IF kind = "store" THEN {"U", "W"} ELSE {"U", "R"}

\* Mutant: the TaskControlBlock is forgotten instead of dropped.
Finish_leaks(t) ==
    /\ phys' = phys
    /\ spaces' = [spaces EXCEPT ![t] = NONE]

\* run_next_task drops the TaskControlBlock of a task that is neither Ready
\* nor Running.
Finish(t) ==
    /\ phys' = DropSpace(phys, spaces[t])
    /\ spaces' = [spaces EXCEPT ![t] = NONE]

\* A load or a store, by the task ("user") or by the copy loop of uaccess.S
\* ("kernel", after check_u_va_range).  One that the translation permits goes
\* through, if the address is canonical; the page fault handlers serve the
\* others.  The task repeats the
\* instruction after a served fault, which is left to the next Access.
Access(t, va, kind, mode) ==
    LET need == Need(kind)
        vpn  == VpnFromVa(va)
        pte  == Translate(phys.mem, spaces[t].root_pgt.ppn, vpn)
        hit  == is_valid_va(va) /\ pte # NONE /\ need \subseteq pte.flags
        faults == ~hit \/ SpuriousFaults
        r    == map(phys, spaces[t], vpn, need)
        Answer(a) == op' = [name |-> "access", task |-> t, va |-> va, need |-> need,
                            mode |-> mode, ans |-> a]
    IN  /\ Runs(t)
        /\ mode = "kernel" => check_u_va(va)
        /\ \/ /\ hit
              /\ phys' = IF kind = "store" THEN [phys EXCEPT !.mem[pte.ppn][0] = Word(t)]
                         ELSE phys
              /\ Answer("done")
              /\ UNCHANGED <<spaces, halt>>
           \/ /\ ~hit /\ ~check_u_va(va)
              /\ Halt("TrapPanic")
           \/ /\ faults /\ check_u_va(va)
              /\ r.res \in {"Ok", "Panic"}
              /\ IF r.res = "Ok"
                 THEN /\ phys' = r.phys
                      /\ spaces' = [spaces EXCEPT ![t] = r.space]
                      /\ Answer("done")
                      /\ UNCHANGED halt
                 ELSE Halt("Panic")
           \/ /\ faults /\ check_u_va(va) /\ mode = "user"
              /\ r.res \notin {"Ok", "Panic"}
              /\ phys' = DropSpace(r.phys, r.space)
              /\ spaces' = [spaces EXCEPT ![t] = NONE]
              /\ Answer("killed")
              /\ UNCHANGED halt
           \/ /\ faults /\ mode = "kernel"
              /\ r.res \notin {"Ok", "Panic"}
              /\ phys' = r.phys
              /\ spaces' = [spaces EXCEPT ![t] = r.space]
              /\ Answer("failed")
              /\ UNCHANGED halt
        /\ UNCHANGED <<kernel_satp, started>>

\* sys_exit, or an illegal instruction or instruction page fault.
Exit(t) ==
    /\ Runs(t)
    /\ Finish(t)
    /\ op' = [name |-> "exit", task |-> t]
    /\ UNCHANGED <<kernel_satp, started, halt>>

\* The last task is gone, or the kernel has panicked: the machine is off.  Or
\* the bound on the requests is reached.
Off ==
    /\ \/ halt # "No"
       \/ requests = MaxRequests
       \/ started = Cardinality(Tasks) /\ \A t \in Tasks : spaces[t] = NONE
    /\ UNCHANGED vars

Next ==
    \/ AddTask
    \/ \E t \in Tasks :
          \/ \E c \in MmapCalls : Mmap(t, c[1], c[2], c[3])
          \/ \E c \in MunmapCalls : Munmap(t, c[1], c[2])
          \/ \E c \in Accesses, mode \in {"user", "kernel"} : Access(t, c[1], c[2], mode)
          \/ Exit(t)
    \/ Off

Spec == Init /\ [][Next]_vars
-----------------------------------------------------------------------------
Alive == {t \in Tasks : spaces[t] # NONE}

\* The translation of a user page in t's space.
Pte(t, vpn) == Translate(phys.mem, spaces[t].root_pgt.ppn, vpn)

Free ==
    ToSet(phys.alloc.recycled_ppn) \cup phys.alloc.next_unused_ppn .. phys.alloc.max_ppn - 1

\* Types: page tables and areas are backed by pages of physical memory.
TypeOK ==
    /\ DOMAIN phys.mem = PPN
    /\ phys.alloc.recycled_ppn \in Seq(PPN)
    /\ kernel_satp \in PPN
    /\ started \in 0 .. Cardinality(Tasks)
    /\ halt \in {"No", "Panic", "TrapPanic"}
    /\ \A t \in Alive : /\ spaces[t].root_pgt.pages \in Seq(PPN)
                        /\ \A i \in DOMAIN spaces[t].areas :
                              spaces[t].areas[i].pages
                                  \in [DOMAIN spaces[t].areas[i].pages -> PPN]

\* The areas of a space are not empty, do not overlap, and hold pages of their
\* own range only, however mmap and munmap cut them.
AreasDisjoint ==
    \A t \in Alive : LET areas == spaces[t].areas IN
        /\ \A i \in DOMAIN areas :
              /\ areas[i].start_vpn < areas[i].end_vpn
              /\ DOMAIN areas[i].pages \subseteq areas[i].start_vpn .. areas[i].end_vpn - 1
        /\ \A i, j \in DOMAIN areas :
              i # j => \/ areas[i].end_vpn <= areas[j].start_vpn
                       \/ areas[j].end_vpn <= areas[i].start_vpn

\* What holds the page p: the allocator as unused or in a slot of its list of
\* recycled pages, the kernel's tables, a slot of the pages of a RootPgt, a page
\* of an area.
Holders(p) ==
    LET a       == phys.alloc
        At(f)   == {x \in DOMAIN f : f[x] = p}
    IN  {<<"unused">> : q \in {p} \cap a.next_unused_ppn .. a.max_ppn - 1}
        \cup {<<"recycled", i>> : i \in At(a.recycled_ppn)}
        \cup {<<"kernel">> : q \in {p} \cap KernelTables(phys.mem, kernel_satp)}
        \cup (UNION {{<<"table", t, i>> : i \in At(spaces[t].root_pgt.pages)} : t \in Alive})
        \cup (UNION {UNION {{<<"area", t, i, v>> : v \in At(spaces[t].areas[i].pages)} :
                           i \in DOMAIN spaces[t].areas} : t \in Alive})

\* No page is lost and none has two owners: each page behind the kernel image is
\* unused, recycled, a kernel table, or owned once by one space, as a table or
\* under one area.
PagesConserved ==
    \A p \in compute_first_unused_ppn(KernelEndPa) .. compute_max_ppn - 1 :
        Cardinality(Holders(p)) = 1

\* The page tables and the areas agree on every user page: it is mapped exactly
\* when an area holds a page for it, to that page, with the area's permissions.
TablesMatchAreas ==
    \A t \in Alive, v \in UserVpns :
        LET areas   == spaces[t].areas
            holders == {i \in DOMAIN areas : v \in DOMAIN areas[i].pages}
        IN  IF holders = {} THEN Pte(t, v) = NONE
            ELSE \E i \in holders :
                    Pte(t, v) = [ppn   |-> areas[i].pages[v],
                                 flags |-> areas[i].permissions \cup {"V"}]

\* The invariant the allocator documents: a page that is not yet allocated or
\* has been recycled cannot be reached through any task's user mappings.
RecycledUnreachable ==
    \A t \in Alive, v \in UserVpns : Pte(t, v) # NONE => Pte(t, v).ppn \notin Free

\* A task finds in its memory zeroes and what it, or the kernel for it, put
\* there; never what another task or a page table left in a reused page.
OwnDataOnly ==
    \A t \in Alive, v \in UserVpns :
        Pte(t, v) # NONE => \A i \in Index : phys.mem[Pte(t, v).ppn][i] \in {Pte0, Word(t)}

\* No assertion or panic of the memory code is reached by any sequence of
\* syscalls and accesses: not unmap's "should not reach here", not from_va on
\* the rounded end of a range, not map on the kernel stack.  (trap_panic, the
\* answer to an access outside user space, is the code's own choice.)  Only the
\* expect of add_task may fail, before the first request, for want of a page or
\* for a segment that is malformed.
NoPanic ==
    halt = "Panic" =>
        /\ requests = 0
        /\ \/ new_user(phys, kernel_satp, Elf, Word(started)).res
                  \in {"CreateRootPgtFailed", "AcquirePageFailed"}
           \/ \E i \in DOMAIN Elf : \/ PAGE_SIZE_BYTES % Elf[i].align # 0
                                    \/ ~is_valid_flags(to_pte_flags(Elf[i].flags))

Anonymous(space) == {i \in DOMAIN space.areas : space.areas[i].map_type = "Anonymous"}

ReservedOf(space) ==
    [v \in {w \in UserVpns : \E i \in Anonymous(space) : contain_vpn(space.areas[i], w)} |->
        space.areas[FindArea(space.areas, v)].permissions]

SegmentVpns(seg) ==
    {v \in UserVpns : /\ v * PAGE_SIZE_BYTES < seg.va + seg.mem_size
                      /\ seg.va < (v + 1) * PAGE_SIZE_BYTES}

ElfVpns == UNION {SegmentVpns(Elf[i]) : i \in DOMAIN Elf}

StackVpns == {v \in UserVpns : v * PAGE_SIZE_BYTES >= USER_SPACE_END - USER_STACK_MAX_SIZE_BYTES}

\* Reserved is what the areas say, resident what the hardware translates.
Abstract == INSTANCE AddressSpace
    WITH Image    <- [v \in ElfVpns \cup StackVpns |->
                        IF v \in StackVpns THEN {"R", "W", "U"}
                        ELSE (CHOOSE seg \in ToSet(Elf) : v \in SegmentVpns(seg)).flags
                                 \cup {"U"}],
         Loaded   <- ElfVpns \cup {USER_END_VPN - 1},
         reserved <- [t \in Tasks |-> IF spaces[t] = NONE THEN NONE ELSE ReservedOf(spaces[t])],
         resident <- [t \in Tasks |-> IF spaces[t] = NONE THEN {}
                                      ELSE {v \in UserVpns : Pte(t, v) # NONE}]

\* The tasks' spaces implement the abstract address space: a served mmap
\* reserves exactly the pages that hold a byte of its range, munmap takes
\* exactly those away, an access succeeds only where it is permitted, and a
\* request of one task never changes the memory of another.
ImplementsAddressSpace == Abstract!SpaceSpec
=============================================================================
