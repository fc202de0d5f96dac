-------------------------------- MODULE Sv39 --------------------------------
(***************************************************************************)
(* The page tables of os/src/mm/sv39.rs.  Physical memory and the page     *)
(* allocator are one record phys; a RootPgt is [ppn, pages].  Every method *)
(* that may allocate or write tables maps (phys, root) to                  *)
(* [phys, root, res], res being "Ok", the PgtError, or "Panic".            *)
(*                                                                         *)
(* A page is an array of PTES_PER_TABLE words.  A word is the record of a  *)
(* PTE, or opaque user data.  Virtual page numbers are the 27-bit ones of  *)
(* Sv39, so the kernel half starts at root index KERNEL_ROOT (256).        *)
(***************************************************************************)
EXTENDS PageAllocator

CONSTANTS PTES_PER_TABLE,   \* 512 in the code
          KERNEL_ROOT       \* first root index of the kernel half

ASSUME Sv39Assumption ==
    /\ PTES_PER_TABLE \in Nat
    /\ KERNEL_ROOT \in 1 .. PTES_PER_TABLE - 1

Index == 0 .. PTES_PER_TABLE - 1

\* The pages one entry of the root spans, 2^18 in the code.
ROOT_SPAN == PTES_PER_TABLE * PTES_PER_TABLE

\* The entries VPN_0, VPN_1 and VPN_2 of parse_vpn, indexed by the level.
parse_vpn(vpn) ==
    [level \in 0 .. 2 |->
        CASE level = 0 -> vpn % PTES_PER_TABLE
          [] level = 1 -> (vpn \div PTES_PER_TABLE) % PTES_PER_TABLE
          [] level = 2 -> (vpn \div ROOT_SPAN) % PTES_PER_TABLE]

VpnOf(vpn2, vpn1, vpn0) ==
    vpn2 * ROOT_SPAN + vpn1 * PTES_PER_TABLE + vpn0
-----------------------------------------------------------------------------
(* PTE *)
PTE == [ppn : Nat, flags : SUBSET {"V", "R", "W", "X", "U", "G", "A", "D"}]

Pte0 == [ppn |-> 0, flags |-> {}]

ZeroPage == [i \in Index |-> Pte0]

\* PTE::new fails on these: V clear, or one of the two reserved encodings
\* (writable but not readable).
is_valid_flags(flags) == "V" \in flags /\ ~("W" \in flags /\ "R" \notin flags)

is_valid(pte) == "V" \in pte.flags

is_leaf(pte) == is_valid(pte) /\ pte.flags \cap {"X", "W"} # {}
-----------------------------------------------------------------------------
(* RootPgt *)
alloc_zeroed_page(phys) ==
    LET r == alloc_page(phys.alloc) IN
    [page |-> r.page,
     phys |-> [alloc |-> r.allocator,
               mem   |-> IF r.page = NONE THEN phys.mem
                         ELSE [phys.mem EXCEPT ![r.page] = ZeroPage]]]

Result(phys, root, res) == [phys |-> phys, root |-> root, res |-> res]

\* RootPgt::new and RootPgt::new_copy; root is NONE on failure.
new(phys) ==
    LET r == alloc_zeroed_page(phys) IN
    IF r.page = NONE THEN Result(phys, NONE, "AcquirePageFailed")
    ELSE Result(r.phys, [ppn |-> r.page, pages |-> <<r.page>>], "Ok")

new_copy(phys, entries) ==
    LET r == alloc_page(phys.alloc) IN
    IF r.page = NONE THEN Result(phys, NONE, "AcquirePageFailed")
    ELSE Result([alloc |-> r.allocator, mem |-> [phys.mem EXCEPT ![r.page] = entries]],
                [ppn |-> r.page, pages |-> <<r.page>>], "Ok")

\* The new table of a walk: entered at slot i of the current one, kept with the
\* pages of the root, and moved to.
TableAt(w, i, r) ==
    [r.phys EXCEPT !.mem[w.table][i] = [ppn |-> r.page, flags |-> {"V"}]]

\* Mutant: the entry's old page number is kept instead of the new table's.
NewTable_keeps_old(w, i, r) ==
    [phys  |-> TableAt(w, i, r),
     root  |-> [w.root EXCEPT !.pages = Append(@, w.phys.mem[w.table][i].ppn)],
     res   |-> "Ok",
     table |-> r.page]

\* Mutant: the table is not kept with the pages of the root.
NewTable_not_kept(w, i, r) ==
    [phys |-> TableAt(w, i, r), root |-> w.root, res |-> "Ok", table |-> r.page]

NewTable(w, i, r) ==
    [phys  |-> TableAt(w, i, r),
     root  |-> [w.root EXCEPT !.pages = Append(@, r.page)],
     res   |-> "Ok",
     table |-> r.page]

\* One turn of map_create's walk: make sure the entry of the table points to
\* a table one level down, and move there.  w is a Result with the current
\* table.  What was created before an error stays.
Descend(w, i) ==
    LET pte == w.phys.mem[w.table][i]
        r   == alloc_zeroed_page(w.phys)
    IN  IF w.res # "Ok" THEN w
        ELSE IF is_leaf(pte) THEN [w EXCEPT !.res = "DoubleMapping"]
        ELSE IF is_valid(pte) THEN [w EXCEPT !.table = pte.ppn]
        ELSE IF r.page = NONE THEN [w EXCEPT !.res = "AcquirePageFailed"]
        ELSE NewTable(w, i, r)

StartWalk(phys, root) ==
    [phys |-> phys, root |-> root, res |-> "Ok", table |-> root.ppn]

map_create(phys, root, vpn, ppn, flags) ==
    LET idx == parse_vpn(vpn)
        w   == Descend(Descend(StartWalk(phys, root), idx[2]), idx[1])
    IN  IF ~is_valid_flags(flags) THEN Result(phys, root, "InvalidPteFlags")
        ELSE IF w.res # "Ok" THEN Result(w.phys, w.root, w.res)
        ELSE IF is_valid(w.phys.mem[w.table][idx[0]])
        THEN Result(w.phys, w.root, "DoubleMapping")
        ELSE Result([w.phys EXCEPT
                        !.mem[w.table][idx[0]] = [ppn |-> ppn, flags |-> flags]],
                    w.root, "Ok")

\* The large page containing vpn is mapped to the large page containing ppn.
\* Only a leaf in the level-1 table counts as a double mapping.
map_create_large(phys, root, vpn, ppn, flags) ==
    LET idx  == parse_vpn(vpn)
        base == ppn - (ppn % PTES_PER_TABLE)
        w    == Descend(StartWalk(phys, root), idx[2])
    IN  IF ~is_valid_flags(flags) THEN Result(phys, root, "InvalidPteFlags")
        ELSE IF w.res # "Ok" THEN Result(w.phys, w.root, w.res)
        ELSE IF is_leaf(w.phys.mem[w.table][idx[1]])
        THEN Result(w.phys, w.root, "DoubleMapping")
        ELSE Result([w.phys EXCEPT
                        !.mem[w.table][idx[1]] = [ppn |-> base, flags |-> flags]],
                    w.root, "Ok")
-----------------------------------------------------------------------------
(* RootPgt::unmap.  The state of its three loops is u = [mem, vpn, res]:   *)
(* vpn is parsed_vpn, where a loop starts; res is "Go" until it returns.   *)

\* Mutant: an entry is cleared before it is compared with end_vpn.
UnmapTable0_no_end(u, table0, first, end_vpn) ==
    [mem |-> [u.mem EXCEPT ![table0] =
                 [i \in Index |-> IF u.vpn[0] <= i THEN Pte0 ELSE u.mem[table0][i]]],
     vpn |-> [u.vpn EXCEPT ![0] = 0],
     res |-> IF end_vpn <= first + PTES_PER_TABLE - 1 THEN "Ok" ELSE "Go"]

\* The innermost loop over a level-0 table whose first page is `first`: it
\* returns at the first slot at or above end_vpn.
UnmapTable0(u, table0, first, end_vpn) ==
    [mem |-> [u.mem EXCEPT ![table0] =
                 [i \in Index |-> IF u.vpn[0] <= i /\ first + i < end_vpn
                                  THEN Pte0 ELSE u.mem[table0][i]]],
     vpn |-> [u.vpn EXCEPT ![0] = 0],
     res |-> IF end_vpn <= first + PTES_PER_TABLE - 1 THEN "Ok" ELSE "Go"]

\* Mutant: a missing level-0 table does not reset the slot the next one starts at.
UnmapStep1_no_reset(u, table1, vpn2, vpn1, end_vpn) ==
    LET pte1 == u.mem[table1][vpn1] IN
    IF u.res # "Go" \/ vpn1 < u.vpn[1] \/ ~is_valid(pte1) THEN u
    ELSE IF is_leaf(pte1) THEN [u EXCEPT !.res = "Panic"]
    ELSE UnmapTable0(u, pte1.ppn, VpnOf(vpn2, vpn1, 0), end_vpn)

UnmapStep1(u, table1, vpn2, vpn1, end_vpn) ==
    LET pte1 == u.mem[table1][vpn1] IN
    IF u.res # "Go" \/ vpn1 < u.vpn[1] THEN u
    ELSE IF ~is_valid(pte1) THEN [u EXCEPT !.vpn[0] = 0]
    ELSE IF is_leaf(pte1) THEN [u EXCEPT !.res = "Panic"]
    ELSE UnmapTable0(u, pte1.ppn, VpnOf(vpn2, vpn1, 0), end_vpn)

\* loop[n] is the state before the turn with index n.
UnmapTable1(u, table1, vpn2, end_vpn) ==
    LET loop[n \in 0 .. PTES_PER_TABLE] ==
            IF n = 0 THEN u
            ELSE UnmapStep1(loop[n - 1], table1, vpn2, n - 1, end_vpn)
    IN  [loop[PTES_PER_TABLE] EXCEPT !.vpn[1] = 0]

UnmapStep2(u, root_ppn, vpn2, end_vpn) ==
    LET pte2 == u.mem[root_ppn][vpn2] IN
    IF u.res # "Go" \/ vpn2 < u.vpn[2] THEN u
    ELSE IF ~is_valid(pte2) THEN [u EXCEPT !.vpn[1] = 0, !.vpn[0] = 0]
    ELSE IF is_leaf(pte2) THEN [u EXCEPT !.res = "Panic"]
    ELSE UnmapTable1(u, pte2.ppn, vpn2, end_vpn)

\* Mutant: the test for an empty range is inverted.
unmap_inverted_test(phys, root, start_vpn, end_vpn) == Result(phys, root, "Ok")

\* Falling out of the outermost loop is the panic at the end of the function.
unmap(phys, root, start_vpn, end_vpn) ==
    LET loop[n \in 0 .. PTES_PER_TABLE] ==
            IF n = 0
            THEN [mem |-> phys.mem, vpn |-> parse_vpn(start_vpn), res |-> "Go"]
            ELSE UnmapStep2(loop[n - 1], root.ppn, n - 1, end_vpn)
        u == loop[PTES_PER_TABLE]
    IN  IF end_vpn <= start_vpn THEN Result(phys, root, "Ok")
        ELSE Result([phys EXCEPT !.mem = u.mem], root,
                    IF u.res = "Ok" THEN "Ok" ELSE "Panic")
-----------------------------------------------------------------------------
(* The translation the hardware makes of a virtual page: the leaf entry it *)
(* finds, or NONE.  An entry is a leaf when R, W or X is set.              *)
Translate(mem, root_ppn, vpn) ==
    LET idx     == parse_vpn(vpn)
        Leaf(p) == p.flags \cap {"R", "W", "X"} # {}
        pte2    == mem[root_ppn][idx[2]]
        pte1    == mem[pte2.ppn][idx[1]]
        pte0    == mem[pte1.ppn][idx[0]]
    IN  IF ~is_valid(pte2) THEN NONE
        ELSE IF Leaf(pte2) THEN pte2
        ELSE IF ~is_valid(pte1) THEN NONE
        ELSE IF Leaf(pte1) THEN pte1
        ELSE IF is_valid(pte0) THEN pte0 ELSE NONE
=============================================================================
