-------------------------------- MODULE Boot --------------------------------
(***************************************************************************)
(* From _start to the first task: entry.S, rust_main, mm::init and the     *)
(* loop of task::start, for every layout of the image the linker may make. *)
(* One action per stage; a stage that fails is fatal (expect).             *)
(***************************************************************************)
EXTENDS KernelSpace, AppTable

CONSTANTS Images,   \* pages of text, rodata, data and bss
          AllFiles  \* the files that may be in user/src/bin

VARIABLES sections,  \* the symbols of the linker script
          bin, TEST, \* at build time: the files in user/src/bin, and if TEST is 1
          k,         \* physical memory, the kernel's RootPgt, the last result
          satp,      \* "bare", "boot" or "kernel"
          base,      \* pc and sp are "low" (physical) or "high" (virtual)
          stage,     \* the next call
          added      \* the ELFs add_task has been given so far

vars == <<sections, bin, TEST, k, satp, base, stage, added>>

Stages == <<"mmio", "text", "stack", "rodata", "data", "bss", "phys_mem", "activate">>

\* What memory may hold when the machine starts, read as a table.
Garbage == [i \in Index |-> [ppn |-> PpnFromPa(MEM_START_PA), flags |-> {"V", "R", "W"}]]

Init ==
    /\ \E pages \in Images : sections = Sections(pages)
    /\ bin \in SUBSET AllFiles /\ TEST \in BOOLEAN
    /\ k = Result([mem |-> [p \in PPN |-> Garbage], alloc |-> << >>], NONE, "Ok")
    /\ satp = "bare" /\ base = "low"
    /\ stage = "boot_pgt"
    /\ added = << >>

InRange(va, range) == range[1] <= va /\ va < range[2]

BootPpn == PpnFromPa(get_pa_from_va(sections.boot_pgt[1]))

\* .L_activate_boot_pgt
ActivateBootPgt ==
    /\ stage = "boot_pgt"
    /\ k' = [k EXCEPT !.phys.mem[BootPpn] = boot_pgt]
    /\ satp' = "boot"
    /\ stage' = "jump"
    /\ UNCHANGED <<sections, bin, TEST, base, added>>

\* The rest of _start moves sp and pc up; rust_main then calls mm::init.
Jump ==
    /\ stage = "jump"
    /\ base' = "high"
    /\ stage' = "new"
    /\ UNCHANGED <<sections, bin, TEST, k, satp, added>>

\* Drop of a RootPgt: its pages are recycled.
DropRoot(phys, root) == [phys EXCEPT !.alloc = DeallocSeq(@, root.pages)]

\* Mutant: the RootPgt goes out of scope with its pages.
forget_self_drops(phys, root) == DropRoot(phys, root)

\* Each page goes into a ManuallyDrop: none is recycled.
forget_self(phys, root) == phys

\* What init_kernel_satp leaves of its RootPgt: an error (?) drops it; after the
\* last stage KERNEL_SATP has its number, and forget_self consumes it.
RootLeft(r, next) ==
    CASE r.res # "Ok" /\ r.root # NONE     -> DropRoot(r.phys, r.root)
      [] r.res = "Ok" /\ next = "activate" -> forget_self(r.phys, r.root)
      [] OTHER                             -> r.phys

\* A stage with the result r.
Done(r, next) ==
    /\ k' = [r EXCEPT !.phys = RootLeft(r, next)]
    /\ stage' = IF r.res = "Ok" THEN next ELSE "panic"
    /\ UNCHANGED <<sections, bin, TEST, satp, base, added>>

\* clear_bss
Cleared(mem) ==
    [p \in PPN |-> IF InRange(get_va_from_pa(p * PAGE_SIZE_BYTES), sections.bss) THEN ZeroPage
                   ELSE mem[p]]

\* mm::init up to RootPgt::new.  The allocator starts on first use, behind the image.
NewRoot ==
    /\ stage = "new"
    /\ Done(new([mem   |-> Cleared(k.phys.mem),
                 alloc |-> NewAllocator(get_pa_from_va(kernel_end(sections)))]), Stages[1])

\* One of the map_ calls of init_kernel_satp.
Map(i) ==
    /\ stage = Stages[i]
    /\ \E r \in {CASE Stages[i] = "mmio" -> map_virt_mmio(k)
                   [] Stages[i] = "phys_mem" -> map_phys_mem(k, sections)
                   [] OTHER -> MapSection(k, sections, Stages[i])} :
          Done(r, Stages[i + 1])

\* activate_kernel_space
Activate ==
    /\ stage = "activate"
    /\ satp' = "kernel"
    /\ stage' = "start"
    /\ UNCHANGED <<sections, bin, TEST, k, base, added>>

\* The table that build.rs has made.
Table == write_app_asms(get_app_names(bin, TEST))

\* One turn of the loop in start.
AddTask ==
    /\ stage = "start"
    /\ Len(added) < get_total_apps(Table)
    /\ added' = Append(added, get_app_elf(Table, Len(added)))
    /\ UNCHANGED <<sections, bin, TEST, k, satp, base, stage>>

Next == ActivateBootPgt \/ Jump \/ NewRoot \/ (\E i \in 1 .. 7 : Map(i)) \/ Activate \/ AddTask

Spec == Init /\ [][Next]_vars
-----------------------------------------------------------------------------
(* Properties *)

\* What the kernel half is meant to be: devices and memory behind the image
\* readable and writable, each section with its permissions, and nothing else.
Expected(vpn) ==
    LET va == vpn * PAGE_SIZE_BYTES
        pa == get_pa_from_va(va)
        device == \E i \in DOMAIN QEMU_VIRT_MMIO :
                     LET d == QEMU_VIRT_MMIO[i] IN
                     /\ d[2] > 0 /\ pa < d[1] + d[2] /\ d[1] < pa + PAGE_SIZE_BYTES
        free == kernel_end(sections) <= va /\ pa < MEM_START_PA + MEM_SIZE_BYTES
        of   == {s \in DOMAIN Permissions : InRange(va, sections[s])}
        To(flags) == [ppn |-> PpnFromPa(pa), flags |-> flags]
    IN  IF va < KERNEL_VA_OFFSET THEN NONE
        ELSE IF device \/ free THEN To({"R", "W"})
        ELSE IF of # {} THEN To(Permissions[CHOOSE s \in of : TRUE])
        ELSE NONE

\* Wherever the image ends relative to pages and large pages, and wherever
\* memory ends: each device, each section and each page the allocator may hand
\* out is mapped at its offset, once, with its permissions; text is not
\* writable, the page below the boot stack and all of user space are unmapped.
KernelMapExact ==
    satp = "kernel" => \A vpn \in Vpns : Reaches(k.phys.mem, k.root.ppn, vpn) = Expected(vpn)

\* init_kernel_satp never maps a page twice nor meets an unaligned large range:
\* it fails only when memory runs out.
FailsOnlyWithoutMemory ==
    stage = "panic" => /\ k.res = "AcquirePageFailed"
                       /\ k.phys.alloc.next_unused_ppn = compute_max_ppn

\* The tables the kernel's root reaches are the pages of the RootPgt, each once,
\* and though the RootPgt is gone the allocator will not hand one of them out.
TablesKept ==
    stage \in {"activate", "start"} =>
        LET mem    == k.phys.mem
            level1 == TablesBelow(mem, {k.root.ppn})
            tables == {k.root.ppn} \cup level1 \cup TablesBelow(mem, level1)
        IN  /\ tables = ToSet(k.root.pages)
            /\ IsInjective(k.root.pages)
            /\ \A p \in tables : /\ p < k.phys.alloc.next_unused_ppn
                                 /\ p \notin ToSet(k.phys.alloc.recycled_ppn)

\* Through both changes of satp the hart goes on executing its text, with its
\* stack where it was: each page of the text is executable and each page of the
\* stack writable, at the addresses the hart uses, and backed by the same page.
HartStaysMapped ==
    satp # "bare" =>
        LET root  == IF satp = "boot" THEN BootPpn ELSE k.root.ppn
            At(q) == PpnFromPa(IF base = "low" THEN 0 ELSE KERNEL_VA_OFFSET) + q
            Pages(range) == PpnFromPa(get_pa_from_va(range[1])) .. PpnFromPa(get_pa_from_va(range[2])) - 1
            Ok(q, need)  == LET r == Reaches(k.phys.mem, root, At(q)) IN
                            r # NONE /\ r.ppn = q /\ need \in r.flags
        IN  /\ \A q \in Pages(sections.text) : Ok(q, "X")
            /\ \A q \in Pages(sections.stack) : Ok(q, "W")

\* The kernel reads back what build.rs has written: each program is one task,
\* with all the bytes of its ELF, in the order of the names; its name is found
\* at its index; test programs are among them if and only if TEST is 1.
TasksGetTheirElf ==
    LET programs == {f \in bin : f.test => TEST} IN
    /\ \A i \in DOMAIN added : \E f \in programs :
          added[i] = ElfBytes(f) /\ get_app_name(Table, i - 1) = NameBytes(f)
    /\ \A f, g \in programs, i, j \in DOMAIN added :
          added[i] = ElfBytes(f) /\ added[j] = ElfBytes(g) => (i < j <=> f.name < g.name)
    /\ stage = "start" /\ ~ENABLED AddTask => ToSet(added) = {ElfBytes(f) : f \in programs}
=============================================================================
