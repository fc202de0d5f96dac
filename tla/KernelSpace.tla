----------------------------- MODULE KernelSpace -----------------------------
(***************************************************************************)
(* The kernel's own address space: the sections of os/src/linker.ld, the   *)
(* page table entry.S makes for the way from physical to virtual addresses *)
(* and the mappings of init_kernel_satp in os/src/mm/vm.rs with their      *)
(* rounding to pages and to large pages.                                   *)
(*                                                                         *)
(* As in Sv39, virtual addresses are those of the 39 bits, so the kernel   *)
(* half starts at KERNEL_VA_OFFSET.  k = [phys, root, res] is the Result   *)
(* of the calls so far.                                                    *)
(***************************************************************************)
EXTENDS Sv39

CONSTANTS KERNEL_BASE_PA,   \* where the image starts
          STACK_BYTES,      \* the boot stack
          QEMU_VIRT_MMIO    \* <<base_pa, size_bytes>> of the devices

LARGE_PAGE_SIZE_BYTES == PTES_PER_TABLE * PAGE_SIZE_BYTES
HUGE_PAGE_SIZE_BYTES  == PTES_PER_TABLE * LARGE_PAGE_SIZE_BYTES
KERNEL_VA_OFFSET      == KERNEL_ROOT * HUGE_PAGE_SIZE_BYTES

ASSUME KernelSpaceAssumption ==
    /\ KERNEL_BASE_PA % PAGE_SIZE_BYTES = 0
    /\ STACK_BYTES % PAGE_SIZE_BYTES = 0

get_va_from_pa(pa) == pa + KERNEL_VA_OFFSET
get_pa_from_va(va) == va - KERNEL_VA_OFFSET
-----------------------------------------------------------------------------
(* linker.ld: the sections of an image with `pages` pages in each, as      *)
(* ranges of virtual addresses; all borders are page aligned.              *)
Sections(pages) ==
    LET Bytes(name) == pages[name] * PAGE_SIZE_BYTES
        text    == get_va_from_pa(KERNEL_BASE_PA)
        boot    == text + Bytes("text")
        stack   == boot + PAGE_SIZE_BYTES
        rodata  == stack + STACK_BYTES
        data    == rodata + Bytes("rodata")
        bss     == data + Bytes("data")
        end     == bss + Bytes("bss")
    IN  [text |-> <<text, boot>>, boot_pgt |-> <<boot, stack>>, stack |-> <<stack, rodata>>,
         rodata |-> <<rodata, data>>, data |-> <<data, bss>>, bss |-> <<bss, end>>]

kernel_end(sections) == sections.bss[2]
-----------------------------------------------------------------------------
(* entry.S: entries for huge pages only *)

\* Mutant: the identity mapping is left out.
boot_pgt_no_identity ==
    [i \in Index |->
        IF i >= KERNEL_ROOT
        THEN [ppn |-> PpnFromPa((i - KERNEL_ROOT) * HUGE_PAGE_SIZE_BYTES), flags |-> {"V", "R", "W", "X"}]
        ELSE Pte0]

\* Loop1 clears the table, the huge page of text_start is mapped to itself and
\* Loop2 maps the upper half to physical memory from 0 on.
boot_pgt ==
    [i \in Index |->
        IF i >= KERNEL_ROOT
        THEN [ppn |-> PpnFromPa((i - KERNEL_ROOT) * HUGE_PAGE_SIZE_BYTES), flags |-> {"V", "R", "W", "X"}]
        ELSE IF i = KERNEL_BASE_PA \div HUGE_PAGE_SIZE_BYTES
        THEN [ppn |-> PpnFromPa(i * HUGE_PAGE_SIZE_BYTES), flags |-> {"V", "R", "W", "X"}]
        ELSE Pte0]
-----------------------------------------------------------------------------
(* vm.rs *)

\* One turn of the loops over a range: nothing happens after an error.
MapPage(k, va, flags) ==
    IF k.res # "Ok" THEN k
    ELSE map_create(k.phys, k.root, PpnFromPa(va), PpnFromPa(get_pa_from_va(va)), flags)

MapLargePage(k, va, flags) ==
    IF k.res # "Ok" THEN k
    ELSE map_create_large(k.phys, k.root, PpnFromPa(va), PpnFromPa(get_pa_from_va(va)), flags)

\* The number of turns of (start..end).step_by(size)
Turns(start, end, size) == IF end <= start THEN 0 ELSE (end - start + size - 1) \div size

map_kernel_range(k, start_va, end_va, permissions) ==
    LET turns == Turns(start_va, end_va, PAGE_SIZE_BYTES)
        loop[n \in 0 .. turns] ==
            IF n = 0 THEN k
            ELSE MapPage(loop[n - 1], start_va + (n - 1) * PAGE_SIZE_BYTES, permissions \cup {"V"})
    IN  loop[turns]

\* The two assertions make a range that is not aligned fatal.
map_kernel_range_large(k, start_va, end_va, permissions) ==
    LET turns == Turns(start_va, end_va, LARGE_PAGE_SIZE_BYTES)
        loop[n \in 0 .. turns] ==
            IF n = 0 THEN k
            ELSE MapLargePage(loop[n - 1], start_va + (n - 1) * LARGE_PAGE_SIZE_BYTES,
                              permissions \cup {"V"})
    IN  IF k.res = "Ok" /\ (start_va % LARGE_PAGE_SIZE_BYTES # 0 \/ end_va % LARGE_PAGE_SIZE_BYTES # 0)
        THEN [k EXCEPT !.res = "Panic"] ELSE loop[turns]

map_virt_mmio(k) ==
    LET loop[n \in 0 .. Len(QEMU_VIRT_MMIO)] ==
            IF n = 0 THEN k
            ELSE map_kernel_range(loop[n - 1], get_va_from_pa(QEMU_VIRT_MMIO[n][1]),
                     get_va_from_pa(QEMU_VIRT_MMIO[n][1] + QEMU_VIRT_MMIO[n][2]), {"R", "W"})
    IN  loop[Len(QEMU_VIRT_MMIO)]

RoundUp(a, size)   == IF a % size = 0 THEN a ELSE a - (a % size) + size
RoundDown(a, size) == IF a % size = 0 THEN a ELSE a - (a % size)

compute_phy_mem_page_start(end)       == RoundUp(end, PAGE_SIZE_BYTES)

\* Mutant: the start is rounded down, as the end is.
compute_phy_mem_large_page_start_down(end) == RoundDown(end, LARGE_PAGE_SIZE_BYTES)

compute_phy_mem_large_page_start(end) == RoundUp(end, LARGE_PAGE_SIZE_BYTES)
compute_phy_mem_large_page_end(end)   == RoundDown(end, LARGE_PAGE_SIZE_BYTES)

\* Mutant: the end is taken for a large page, too.
map_phys_mem_no_tail(k, sections) ==
    LET start == compute_phy_mem_page_start(kernel_end(sections))
        end   == get_va_from_pa(MEM_START_PA + MEM_SIZE_BYTES)
        large == compute_phy_mem_large_page_start(start)
    IN  map_kernel_range_large(map_kernel_range(k, start, large, {"R", "W"}), large, end, {"R", "W"})

map_phys_mem(k, sections) ==
    LET start       == compute_phy_mem_page_start(kernel_end(sections))
        end         == get_va_from_pa(MEM_START_PA + MEM_SIZE_BYTES)
        large_start == compute_phy_mem_large_page_start(start)
        large_end   == compute_phy_mem_large_page_end(end)
        rw          == {"R", "W"}
    IN  IF large_end <= large_start THEN map_kernel_range(k, start, end, rw)
        ELSE map_kernel_range(
                 map_kernel_range_large(map_kernel_range(k, start, large_start, rw),
                                        large_start, large_end, rw),
                 large_end, end, rw)

\* The permissions map_kernel_text to map_kernel_bss ask for.
Permissions == [text |-> {"R", "X"}, stack |-> {"R", "W"}, rodata |-> {"R"},
                data |-> {"R", "W"}, bss |-> {"R", "W"}]

MapSection(k, sections, name) ==
    map_kernel_range(k, sections[name][1], sections[name][2], Permissions[name])
-----------------------------------------------------------------------------
\* What a virtual page is translated to: the page of the leaf and, below a
\* large or a huge page, the page's place in it.
Reaches(mem, root, vpn) ==
    LET idx  == parse_vpn(vpn)
        pte  == Translate(mem, root, vpn)
        pte2 == mem[root][idx[2]]
        pte1 == mem[pte2.ppn][idx[1]]
        below == IF is_leaf(pte2) THEN vpn % ROOT_SPAN
                 ELSE IF is_leaf(pte1) THEN idx[0] ELSE 0
    IN  IF pte = NONE THEN NONE ELSE [ppn |-> pte.ppn + below, flags |-> pte.flags \ {"V"}]

Vpns == 0 .. PTES_PER_TABLE * ROOT_SPAN - 1

\* The tables reached from the root.
TablesBelow(mem, tables) ==
    UNION {{mem[t][i].ppn : i \in {j \in Index : is_valid(mem[t][j]) /\ ~is_leaf(mem[t][j])}} :
           t \in tables}
=============================================================================
