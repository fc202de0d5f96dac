------------------------------- MODULE VMSpace -------------------------------
(***************************************************************************)
(* The user address space of os/src/mm/vm.rs: a RootPgt and a list of      *)
(* areas, each with the pages that back it.  A method maps (phys, space)   *)
(* to [phys, space, res], res being "Ok", the VMError, or "Panic".         *)
(* An area is [start_vpn, end_vpn, map_type, permissions, pages], pages a  *)
(* partial function from virtual to physical page numbers.  Flag words are *)
(* sets of flag names.                                                     *)
(***************************************************************************)
EXTENDS KernelHalf, FiniteSets

CONSTANTS USIZE,                      \* 2^64: addresses and lengths are below it
          USER_STACK_MAX_SIZE_BYTES

\* Half of the Sv39 space; addresses from here up to the mirrored half at the
\* end of the 64-bit range are not canonical.
SV39_HALF == KERNEL_ROOT * ROOT_SPAN * PAGE_SIZE_BYTES

\* Mutant: no page is kept free below the kernel half.
USER_SPACE_END_no_guard == SV39_HALF

USER_SPACE_END == SV39_HALF - PAGE_SIZE_BYTES

\* The kernel half is the upper half of the Sv39 space, and in its low 39 bits
\* the upper half of the 64-bit range is that.
ASSUME VMAssumption ==
    /\ USIZE \in Nat /\ 2 * SV39_HALF <= USIZE
    /\ 2 * KERNEL_ROOT <= PTES_PER_TABLE
    /\ (USIZE - 2 * SV39_HALF) % (PTES_PER_TABLE * ROOT_SPAN * PAGE_SIZE_BYTES) = 0
    /\ USER_STACK_MAX_SIZE_BYTES \in Nat \ {0}
    /\ USER_STACK_MAX_SIZE_BYTES % PAGE_SIZE_BYTES = 0
    /\ USER_STACK_MAX_SIZE_BYTES <= USER_SPACE_END

ALL_PERMISSION_FLAGS == {"R", "W", "X", "U"}

check_u_va(va) == va < USER_SPACE_END

\* checked_add fails on overflow; end - 1 wraps for the empty range at 0.
check_u_va_range(start, len) ==
    /\ check_u_va(start)
    /\ start + len < USIZE
    /\ check_u_va((start + len - 1) % USIZE)

\* The assertion of VPN::from_va; the number itself is va \div PAGE_SIZE_BYTES.
is_valid_va(va) == va < SV39_HALF \/ USIZE - SV39_HALF <= va

VpnFromVa(va) == va \div PAGE_SIZE_BYTES

\* Its error is a flag outside ALL_PERMISSION_FLAGS, which no area has.
to_pte_flags(permissions) == permissions \cup {"V"}

NoPages == [v \in {} |-> NONE]

VMArea(start_vpn, end_vpn, map_type, permissions) ==
    [start_vpn |-> start_vpn, end_vpn |-> end_vpn, map_type |-> map_type,
     permissions |-> permissions, pages |-> NoPages]

contain_vpn(area, vpn) == area.start_vpn <= vpn /\ vpn < area.end_vpn

\* BTreeMap::insert; the caller drops the page it replaces.
Insert(pages, vpn, ppn) == [v \in DOMAIN pages \cup {vpn} |->
                               IF v = vpn THEN ppn ELSE pages[v]]

\* The pages whose vpn is in the set S.
Only(pages, S) == Restrict(pages, DOMAIN pages \cap S)

\* A BTreeMap drops its pages in the order of their vpns.
DropPages(phys, pages) ==
    LET first == Min(DOMAIN pages)
        n     == Max(DOMAIN pages) - first + 1
        loop[k \in 0 .. n] ==
            IF k = 0 THEN phys.alloc
            ELSE IF first + k - 1 \in DOMAIN pages
            THEN dealloc(loop[k - 1], pages[first + k - 1]) ELSE loop[k - 1]
    IN  IF DOMAIN pages = {} THEN phys ELSE [phys EXCEPT !.alloc = loop[n]]

VMResult(phys, space, res) == [phys |-> phys, space |-> space, res |-> res]
-----------------------------------------------------------------------------
(* VMSpace::new_user.  s is a VMResult; a step does nothing once one has   *)
(* failed.                                                                 *)

\* Mutant: the page is not zeroed.
AnonymousFrame_not_zeroed(phys) ==
    LET r == alloc_page(phys.alloc) IN
    [page |-> r.page, phys |-> [phys EXCEPT !.alloc = r.allocator]]

\* The page that backs one of an anonymous area.
AnonymousFrame(phys) == alloc_zeroed_page(phys)

AnonymousPage(s, vpn, flags, word) ==
    LET r  == AnonymousFrame(s.phys)
        ph == [r.phys EXCEPT !.mem[r.page][0] = word]
        m  == map_create(ph, s.space.root_pgt, vpn, r.page, flags)
    IN  IF s.res # "Ok" THEN s
        ELSE IF r.page = NONE THEN [s EXCEPT !.res = "AcquirePageFailed"]
        ELSE VMResult(m.phys,
                      [s.space EXCEPT
                          !.root_pgt = m.root,
                          !.areas[Len(s.space.areas)].pages = Insert(@, vpn, r.page)],
                      m.res)

AddArea(s, area) == [s EXCEPT !.space.areas = Append(@, area)]

\* create_area_from_ph: the pages that hold a byte of the segment.
SegmentArea(seg) ==
    VMArea(VpnFromVa(seg.va), VpnFromVa(seg.va + seg.mem_size + PAGE_SIZE_BYTES - 1),
           "Anonymous", seg.flags \cup {"U"})

\* A loadable segment is mapped eagerly, page by page; the part of it that is
\* in the file is copied, from its first page on.  seg = [va, mem_size,
\* file_size, align, flags]; word stands for the bytes of the file.
map_user_elf_segment(s, seg, word) ==
    LET area  == SegmentArea(seg)
        flags == to_pte_flags(area.permissions)
        n     == area.end_vpn - area.start_vpn
        data(k) == IF k * PAGE_SIZE_BYTES < seg.file_size THEN word ELSE Pte0
        loop[k \in 0 .. n] ==
            IF k = 0 THEN AddArea(s, area)
            ELSE AnonymousPage(loop[k - 1], area.start_vpn + k - 1, flags, data(k - 1))
    IN  IF s.res # "Ok" THEN s
        ELSE IF PAGE_SIZE_BYTES % seg.align # 0 THEN [s EXCEPT !.res = "AlignDataFailed"]
        ELSE loop[n]

map_user_elf(s, elf, word) ==
    LET loop[i \in 0 .. Len(elf)] ==
            IF i = 0 THEN s ELSE map_user_elf_segment(loop[i - 1], elf[i], word)
    IN  loop[Len(elf)]

\* Only the top page of the stack is mapped at once.
add_user_stack_area(s) ==
    LET end  == VpnFromVa(USER_SPACE_END)
        area == VMArea(VpnFromVa(USER_SPACE_END - USER_STACK_MAX_SIZE_BYTES), end,
                       "Anonymous", {"R", "W", "U"})
    IN  IF s.res # "Ok" THEN s
        ELSE AnonymousPage(AddArea(s, area), end - 1, to_pte_flags(area.permissions), Pte0)

\* The kernel stack is a page that the kernel half maps already, at the
\* distance of the kernel's offset.  It is not zeroed.
KernelVpn(ppn) == KERNEL_ROOT * ROOT_SPAN + ppn

\* Mutant: the virtual page number is taken for the physical one.
KernelStackArea_by_vpn(ppn) ==
    LET vpn == KernelVpn(ppn) IN
    [VMArea(vpn, vpn + 1, "KernelVaOffset", {"R", "W"})
        EXCEPT !.pages = Insert(NoPages, vpn, vpn)]

KernelStackArea(ppn) ==
    LET vpn == KernelVpn(ppn) IN
    [VMArea(vpn, vpn + 1, "KernelVaOffset", {"R", "W"})
        EXCEPT !.pages = Insert(NoPages, vpn, ppn)]

add_kernel_stack_area(s) ==
    LET r == alloc_page(s.phys.alloc)
    IN  IF s.res # "Ok" THEN s
        ELSE IF r.page = NONE THEN [s EXCEPT !.res = "AcquirePageFailed"]
        ELSE AddArea([s EXCEPT !.phys.alloc = r.allocator], KernelStackArea(r.page))

new_user(phys, kernel_satp, elf, word) ==
    LET r == new_copy(phys, phys.mem[kernel_satp])
        s == VMResult(r.phys, [root_pgt |-> r.root, areas |-> << >>], "Ok")
    IN  IF r.res # "Ok" THEN VMResult(phys, NONE, "CreateRootPgtFailed")
        ELSE add_kernel_stack_area(add_user_stack_area(map_user_elf(s, elf, word)))
-----------------------------------------------------------------------------
(* Faults, mmap and munmap.                                                *)
FindArea(areas, vpn) == SelectInSeq(areas, LAMBDA a : contain_vpn(a, vpn))

\* Mutant: the page of a failed mapping stays with the area.
MapFailed_keeps_page(m, space, i, vpn, ppn) ==
    VMResult(m.phys,
             [root_pgt |-> m.root,
              areas |-> [space.areas EXCEPT ![i].pages = Insert(@, vpn, ppn)]],
             m.res)

\* map_create refused: the page is taken out of the area again, and recycled.
MapFailed(m, space, i, vpn, ppn) ==
    VMResult([m.phys EXCEPT !.alloc = dealloc(@, ppn)],
             [root_pgt |-> m.root,
              areas |-> [space.areas EXCEPT ![i].pages = Only(@, DOMAIN @ \ {vpn})]],
             m.res)

\* VMSpace::map.  A page the area already has for vpn is dropped by the
\* insert, before map_create refuses the second mapping.
map(phys, space, vpn, min_permissions) ==
    LET i    == FindArea(space.areas, vpn)
        area == space.areas[i]
        r    == AnonymousFrame(phys)
        old  == Only(area.pages, {vpn})
        m    == map_create(DropPages(r.phys, old), space.root_pgt, vpn, r.page,
                           to_pte_flags(area.permissions))
    IN  IF i = 0 THEN VMResult(phys, space, "NoAreaContainVpn")
        ELSE IF ~(min_permissions \subseteq area.permissions)
        THEN VMResult(phys, space, "PermissionDenied")
        ELSE IF area.map_type # "Anonymous" THEN VMResult(phys, space, "Panic")
        ELSE IF r.page = NONE THEN VMResult(phys, space, "AcquirePageFailed")
        ELSE IF m.res = "Ok"
        THEN VMResult(m.phys,
                      [root_pgt |-> m.root,
                       areas |-> [space.areas EXCEPT ![i].pages = Insert(@, vpn, r.page)]],
                      "Ok")
        ELSE MapFailed(m, space, i, vpn, r.page)

\* Mutant: only the start of the new area is compared with the others.
is_overlapping_start(area, start_vpn, end_vpn) == contain_vpn(area, start_vpn)

is_overlapping(area, start_vpn, end_vpn) ==
    ~(area.end_vpn <= start_vpn \/ end_vpn <= area.start_vpn)

add_new_area(space, start_vpn, end_vpn, map_type, permissions) ==
    IF end_vpn <= start_vpn THEN [space |-> space, res |-> "EmptyArea"]
    ELSE IF ~(permissions \subseteq ALL_PERMISSION_FLAGS)
    THEN [space |-> space, res |-> "InvalidPermissions"]
    ELSE IF \A i \in DOMAIN space.areas :
               ~is_overlapping(space.areas[i], start_vpn, end_vpn)
    THEN [space |-> [space EXCEPT !.areas =
                        Append(@, VMArea(start_vpn, end_vpn, map_type, permissions))],
          res   |-> "Ok"]
    ELSE [space |-> space, res |-> "AreaOverlapping"]

\* Vec::swap_remove(i)
SwapRemove(seq, i) == Front([seq EXCEPT ![i] = Last(seq)])

\* The part of an area below, and the part from vpn on.
Below(area, vpn) == [area EXCEPT !.end_vpn = vpn, !.pages = Only(@, area.start_vpn .. vpn - 1)]

From(area, vpn) == [area EXCEPT !.start_vpn = vpn, !.pages = Only(@, vpn .. area.end_vpn - 1)]

\* Mutant: an area cut in the middle loses its upper part.
Remaining_no_upper(areas, i, from, to) ==
    IF from = areas[i].start_vpn /\ to = areas[i].end_vpn THEN SwapRemove(areas, i)
    ELSE IF from = areas[i].start_vpn THEN [areas EXCEPT ![i] = From(@, to)]
    ELSE [areas EXCEPT ![i] = Below(@, from)]

\* The areas once the pages from .. to - 1 are taken out of the one with index i.
Remaining(areas, i, from, to) ==
    LET area == areas[i] IN
    IF from = area.start_vpn /\ to = area.end_vpn THEN SwapRemove(areas, i)
    ELSE IF from = area.start_vpn THEN [areas EXCEPT ![i] = From(area, to)]
    ELSE IF to = area.end_vpn THEN [areas EXCEPT ![i] = Below(area, from)]
    ELSE Append([areas EXCEPT ![i] = Below(area, from)], From(area, to))

\* One turn of VMSpace::unmap, for the area with index i: what is left of it
\* after [start_vpn, end_vpn) is taken away, the page table first.
UnmapArea(s, i, start_vpn, end_vpn) ==
    LET area  == s.space.areas[i]
        from  == IF start_vpn <= area.start_vpn THEN area.start_vpn ELSE start_vpn
        to    == IF area.end_vpn <= end_vpn THEN area.end_vpn ELSE end_vpn
        u     == unmap(s.phys, s.space.root_pgt, from, to)
        gone  == DropPages(u.phys, Only(area.pages, from .. to - 1))
    IN  IF s.res # "Ok" \/ area.end_vpn <= start_vpn \/ end_vpn <= area.start_vpn THEN s
        ELSE IF u.res # "Ok" THEN [s EXCEPT !.res = u.res]
        ELSE VMResult(gone, [s.space EXCEPT !.areas = Remaining(@, i, from, to)], "Ok")

\* The areas are visited from the last to the first.
unmap_range(phys, space, start_vpn, end_vpn) ==
    LET n == Len(space.areas)
        loop[k \in 0 .. n] ==
            IF k = 0 THEN VMResult(phys, space, "Ok")
            ELSE UnmapArea(loop[k - 1], n + 1 - k, start_vpn, end_vpn)
    IN  loop[n]

\* Drop of a VMSpace: the tables, then the areas in order.
DropSpace(phys, space) ==
    LET loop[i \in 0 .. Len(space.areas)] ==
            IF i = 0 THEN [phys EXCEPT !.alloc = DeallocSeq(@, space.root_pgt.pages)]
            ELSE DropPages(loop[i - 1], space.areas[i].pages)
    IN  loop[Len(space.areas)]
=============================================================================
