-------------------------- MODULE UserMemoryProofs --------------------------
(***************************************************************************)
(* Proofs about UserMemory, for every number of tasks, every size of the   *)
(* tables and of memory, every program and every sequence of requests: the *)
(* areas of a space stay disjoint, and everything keeps its type.  Nothing *)
(* is supposed of what the tables hold, so that the argument is about the  *)
(* bookkeeping of VMSpace and of the allocator alone.                      *)
(***************************************************************************)
EXTENDS UserMemory, Sv39Proofs, FiniteSetTheorems
-----------------------------------------------------------------------------
(* Types.                                                                  *)

Lo    == PpnFromPa(MEM_START_PA)
Alloc == [next_unused_ppn : Lo .. compute_max_ppn, max_ppn : {compute_max_ppn},
          recycled_ppn : Seq(PPN)]

\* A page holds table entries, or what a task has stored.
Words == PTE \cup {Word(t) : t \in Tasks}
Phys  == [alloc : Alloc, mem : Memory(Words)]
Root  == [ppn : PPN, pages : Seq(PPN)]

PageMaps == UNION {[S -> PPN] : S \in SUBSET Nat}
Flags    == SUBSET {"R", "W", "X", "U"}

\* An area is not empty and holds pages of its own range only.
Area == {a \in [start_vpn : Nat, end_vpn : Nat, map_type : {"Anonymous", "KernelVaOffset"},
                permissions : Flags, pages : PageMaps] :
            /\ a.start_vpn < a.end_vpn
            /\ DOMAIN a.pages \subseteq a.start_vpn .. a.end_vpn - 1}

Space == [root_pgt : Root, areas : Seq(Area)]
Res   == {"Ok", "Panic", "AcquirePageFailed", "InvalidPteFlags", "DoubleMapping",
          "AlignDataFailed", "NoAreaContainVpn", "PermissionDenied"}
State == [phys : Phys, space : Space, res : Res]

\* No two areas overlap.
Apart(areas) ==
    \A i, j \in 1 .. Len(areas) : i # j =>
        \/ areas[i].end_vpn <= areas[j].start_vpn
        \/ areas[j].end_vpn <= areas[i].start_vpn

\* The page numbers of the allocator.
LEMMA PageNumbers ==
    /\ Lo \in Nat /\ compute_max_ppn \in Nat /\ PPN = Lo .. compute_max_ppn - 1
    /\ NONE \notin PPN
<1>1. PAGE_SIZE_BYTES \in Nat /\ PAGE_SIZE_BYTES > 0 /\ MEM_START_PA \in Nat /\ MEM_SIZE_BYTES \in Nat
      /\ NONE \notin Int
  BY MemAssumption
<1>2. \A x \in Nat : PpnFromPa(x) \in Nat
  BY <1>1 DEF PpnFromPa
<1>3. MEM_START_PA + MEM_SIZE_BYTES \in Nat
  BY <1>1
<1> QED BY <1>1, <1>2, <1>3 DEF Lo, compute_max_ppn, PPN

\* alloc_page takes a page of memory, or none.
LEMMA AllocType ==
    ASSUME NEW a \in Alloc
    PROVE  alloc_page(a).allocator \in Alloc /\ alloc_page(a).page \in PPN \cup {NONE}
<1>1. /\ a.next_unused_ppn \in Lo .. compute_max_ppn /\ a.max_ppn = compute_max_ppn
      /\ a.recycled_ppn \in Seq(PPN)
  BY DEF Alloc
<1>2. CASE a.recycled_ppn # << >>
  <2>1. Len(a.recycled_ppn) \in Nat /\ Len(a.recycled_ppn) > 0
    BY <1>1, <1>2
  <2>2. Last(a.recycled_ppn) \in PPN
    BY <1>1, <2>1 DEF Last
  <2>3. Front(a.recycled_ppn) \in Seq(PPN)
    BY <1>1, <2>1 DEF Front
  <2>4. [a EXCEPT !.recycled_ppn = Front(a.recycled_ppn)] \in Alloc
    BY <2>3 DEF Alloc
  <2> QED BY <1>2, <2>2, <2>4 DEF alloc_page
<1>3. CASE a.recycled_ppn = << >> /\ a.next_unused_ppn >= a.max_ppn
  BY <1>3 DEF alloc_page
<1>4. CASE a.recycled_ppn = << >> /\ ~(a.next_unused_ppn >= a.max_ppn)
  <2>1. a.next_unused_ppn \in PPN /\ a.next_unused_ppn + 1 \in Lo .. compute_max_ppn
    BY <1>1, <1>4, PageNumbers
  <2>2. [a EXCEPT !.next_unused_ppn = a.next_unused_ppn + 1] \in Alloc
    BY <2>1 DEF Alloc
  <2> QED BY <1>4, <2>1, <2>2 DEF alloc_page
<1> QED BY <1>2, <1>3, <1>4

\* dealloc, of one page and of a Vec of pages.
LEMMA DeallocType ==
    ASSUME NEW a \in Alloc
    PROVE  /\ \A p \in PPN : dealloc(a, p) \in Alloc
           /\ \A q \in Seq(PPN) : DeallocSeq(a, q) \in Alloc
<1>1. a.recycled_ppn \in Seq(PPN)
  BY DEF Alloc
<1>2. \A p \in PPN : Append(a.recycled_ppn, p) \in Seq(PPN)
  BY <1>1
<1>3. \A q \in Seq(PPN) : a.recycled_ppn \o q \in Seq(PPN)
  BY <1>1
<1> QED BY <1>2, <1>3 DEF Alloc, dealloc, DeallocSeq

\* The cleared entry and a task's data are words.
LEMMA WordTypes ==
    /\ Pte0 \in Words /\ Pte0 \in PTE /\ ZeroPage \in [Index -> Words]
    /\ \A t \in Tasks : Word(t) \in Words
    /\ \A p \in Nat, f \in SUBSET {"V", "R", "W", "X", "U"} : [ppn |-> p, flags |-> f] \in Words
<1>1. Pte0 \in PTE
  BY DEF Pte0, PTE
<1>2. \A p \in Nat, f \in SUBSET {"V", "R", "W", "X", "U"} : [ppn |-> p, flags |-> f] \in PTE
  BY DEF PTE
<1> QED BY <1>1, <1>2 DEF Words, ZeroPage

\* Any write of a word keeps memory's type, wherever it goes.
LEMMA MemoryWrite ==
    ASSUME NEW m \in Memory(Words), NEW t, NEW i, NEW w \in Words
    PROVE  [m EXCEPT ![t][i] = w] \in Memory(Words)
BY DEF Memory

\* A phys is the record of its two parts.
LEMMA PhysParts ==
    ASSUME NEW ph \in Phys
    PROVE  /\ ph.alloc \in Alloc /\ ph.mem \in Memory(Words)
           /\ \A a \in Alloc : [ph EXCEPT !.alloc = a] \in Phys
           /\ \A m \in Memory(Words) : [ph EXCEPT !.mem = m] \in Phys
           /\ \A t, i, w : w \in Words => [ph EXCEPT !.mem[t][i] = w] \in Phys
<1>1. ph.alloc \in Alloc /\ ph.mem \in Memory(Words)
  BY DEF Phys
<1>2. \A a \in Alloc : [ph EXCEPT !.alloc = a] \in Phys
  BY DEF Phys
<1>3. \A m \in Memory(Words) : [ph EXCEPT !.mem = m] \in Phys
  BY DEF Phys
<1>4. ASSUME NEW t, NEW i, NEW w \in Words PROVE [ph EXCEPT !.mem[t][i] = w] \in Phys
  <2>1. PICK m \in Memory(Words) : m = [ph.mem EXCEPT ![t][i] = w]
    BY <1>1, MemoryWrite
  <2>2. [ph EXCEPT !.mem[t][i] = w] = [ph EXCEPT !.mem = m]
    BY <2>1
  <2> QED BY <2>2, <1>3
<1> QED BY <1>1, <1>2, <1>3, <1>4
-----------------------------------------------------------------------------
(* The page tables.                                                        *)

\* alloc_zeroed_page
LEMMA ZeroedType ==
    ASSUME NEW ph \in Phys
    PROVE  /\ alloc_zeroed_page(ph).phys \in Phys
           /\ alloc_zeroed_page(ph).page \in PPN \cup {NONE}
<1>1. PICK r : r = alloc_page(ph.alloc)
  OBVIOUS
<1>2. r.allocator \in Alloc /\ r.page \in PPN \cup {NONE}
  BY <1>1, AllocType, PhysParts
<1>3. ph.mem \in Memory(Words)
  BY PhysParts
<1>4. r.page \in PPN => [ph.mem EXCEPT ![r.page] = ZeroPage] \in Memory(Words)
  <2>1. PICK z \in [Index -> Words] : z = ZeroPage
    BY WordTypes
  <2> QED BY <2>1, <1>3 DEF Memory
<1>5. PICK m \in Memory(Words) :
         m = IF r.page = NONE THEN ph.mem ELSE [ph.mem EXCEPT ![r.page] = ZeroPage]
  BY <1>2, <1>3, <1>4
<1>6. alloc_zeroed_page(ph) = [page |-> r.page, phys |-> [alloc |-> r.allocator, mem |-> m]]
  BY <1>1, <1>5 DEF alloc_zeroed_page
<1> QED BY <1>2, <1>6 DEF Phys

\* A walk of map_create; its current table may be anything the entries say.
IsWalk(w) ==
    /\ w = [phys |-> w.phys, root |-> w.root, res |-> w.res, table |-> w.table]
    /\ w.phys \in Phys /\ w.root \in Root
    /\ w.res \in {"Ok", "DoubleMapping", "AcquirePageFailed"}

LEMMA DescendType ==
    ASSUME NEW w, IsWalk(w), NEW i
    PROVE  IsWalk(Descend(w, i)) /\ Descend(w, i).root.ppn = w.root.ppn
<1>w. PICK ph \in Phys, rt \in Root, rs \in {"Ok", "DoubleMapping", "AcquirePageFailed"}, t \in {w.table} :
         w = [phys |-> ph, root |-> rt, res |-> rs, table |-> t]
  BY DEF IsWalk
<1>0. w.phys = ph /\ w.root = rt /\ w.res = rs /\ w.table = t
  BY <1>w
<1>r. PICK r : r = alloc_zeroed_page(ph)
  OBVIOUS
<1>1. r.phys \in Phys /\ r.page \in PPN \cup {NONE}
  BY <1>r, ZeroedType
<1>2. \A x \in {"DoubleMapping", "AcquirePageFailed"} :
         IsWalk([w EXCEPT !.res = x]) /\ [w EXCEPT !.res = x].root.ppn = w.root.ppn
  BY <1>w DEF IsWalk
<1>3. \A x : IsWalk([w EXCEPT !.table = x]) /\ [w EXCEPT !.table = x].root.ppn = w.root.ppn
  BY <1>w DEF IsWalk
<1>4. ASSUME r.page \in PPN PROVE IsWalk(NewTable(w, i, r)) /\ NewTable(w, i, r).root.ppn = w.root.ppn
  <2>1. r.page \in Nat
    BY <1>4, PageNumbers
  <2>2. [ppn |-> r.page, flags |-> {"V"}] \in Words
    BY <2>1, WordTypes
  <2>3. TableAt(w, i, r) \in Phys
    BY <1>1, <2>2, PhysParts DEF TableAt
  <2>4. rt.pages \in Seq(PPN) /\ rt = [ppn |-> rt.ppn, pages |-> rt.pages] /\ rt.ppn \in PPN
    BY DEF Root
  <2>5. PICK q \in Seq(PPN) : q = Append(rt.pages, r.page)
    <3>1. PICK p \in PPN, l \in Seq(PPN) : p = r.page /\ l = rt.pages
      BY <1>4, <2>4
    <3>2. Append(l, p) \in Seq(PPN)
      OBVIOUS
    <3> QED BY <3>1, <3>2
  <2>6. [rt EXCEPT !.pages = Append(@, r.page)] = [ppn |-> rt.ppn, pages |-> q]
    <3>1. [rt EXCEPT !.pages = q] = [ppn |-> rt.ppn, pages |-> q]
      BY <2>4
    <3> QED BY <3>1, <2>5
  <2>7. [ppn |-> rt.ppn, pages |-> q] \in Root
    BY <2>4 DEF Root
  <2>8. NewTable(w, i, r) = [phys |-> TableAt(w, i, r), root |-> [ppn |-> rt.ppn, pages |-> q],
                             res |-> "Ok", table |-> r.page]
    BY <1>0, <2>6 DEF NewTable
  <2> QED BY <2>3, <2>7, <2>8, <1>0 DEF IsWalk
<1>5. r.page # NONE => r.page \in PPN
  BY <1>1
<1> QED BY <1>0, <1>r, <1>2, <1>3, <1>4, <1>5, Zenon DEF Descend

\* A walk starts at the root.
LEMMA StartType ==
    ASSUME NEW ph \in Phys, NEW rt \in Root
    PROVE  IsWalk(StartWalk(ph, rt)) /\ StartWalk(ph, rt).root.ppn = rt.ppn
BY DEF StartWalk, IsWalk

\* What map_create and map_create_large return.
IsResult(r, rt) ==
    /\ r = [phys |-> r.phys, root |-> r.root, res |-> r.res]
    /\ r.phys \in Phys /\ r.root \in Root /\ r.root.ppn = rt.ppn
    /\ r.res \in {"Ok", "InvalidPteFlags", "DoubleMapping", "AcquirePageFailed"}

LEMMA ResultType ==
    ASSUME NEW ph \in Phys, NEW rt \in Root, NEW rt0, rt.ppn = rt0.ppn,
           NEW res \in {"Ok", "InvalidPteFlags", "DoubleMapping", "AcquirePageFailed"}
    PROVE  IsResult(Result(ph, rt, res), rt0)
BY DEF IsResult, Result

LEMMA MapCreateType ==
    ASSUME NEW ph \in Phys, NEW rt \in Root, NEW vpn, NEW ppn \in Nat,
           NEW flags \in SUBSET {"V", "R", "W", "X", "U"}
    PROVE  IsResult(map_create(ph, rt, vpn, ppn, flags), rt)
<1>1. PICK idx, w0, w1, w :
         /\ idx = parse_vpn(vpn) /\ w0 = StartWalk(ph, rt)
         /\ w1 = Descend(w0, idx[2]) /\ w = Descend(w1, idx[1])
  OBVIOUS
<1>2. IsWalk(w0) /\ w0.root.ppn = rt.ppn
  BY <1>1, StartType
<1>3. IsWalk(w1) /\ w1.root.ppn = rt.ppn
  BY <1>1, <1>2, DescendType
<1>4. IsWalk(w) /\ w.root.ppn = rt.ppn
  BY <1>1, <1>3, DescendType
<1>5. w.phys \in Phys /\ w.root \in Root /\ w.res \in {"Ok", "DoubleMapping", "AcquirePageFailed"}
  BY <1>4 DEF IsWalk
<1>6. [ppn |-> ppn, flags |-> flags] \in Words
  BY WordTypes
<1>7. PICK out \in Phys : out = [w.phys EXCEPT !.mem[w.table][idx[0]] = [ppn |-> ppn, flags |-> flags]]
  BY <1>5, <1>6, PhysParts
<1>8. \/ map_create(ph, rt, vpn, ppn, flags) = Result(ph, rt, "InvalidPteFlags")
      \/ map_create(ph, rt, vpn, ppn, flags) = Result(w.phys, w.root, w.res)
      \/ map_create(ph, rt, vpn, ppn, flags) = Result(w.phys, w.root, "DoubleMapping")
      \/ map_create(ph, rt, vpn, ppn, flags) = Result(out, w.root, "Ok")
  BY <1>1, <1>7, Zenon DEF map_create
<1>9. IsResult(Result(ph, rt, "InvalidPteFlags"), rt)
  BY ResultType
<1>10. IsResult(Result(w.phys, w.root, w.res), rt)
  BY <1>4, <1>5, ResultType
<1>11. IsResult(Result(w.phys, w.root, "DoubleMapping"), rt)
  BY <1>4, <1>5, ResultType
<1>12. IsResult(Result(out, w.root, "Ok"), rt)
  BY <1>4, <1>5, ResultType
<1> QED BY <1>8, <1>9, <1>10, <1>11, <1>12

LEMMA MapLargeType ==
    ASSUME NEW ph \in Phys, NEW rt \in Root, NEW vpn, NEW ppn \in Nat,
           NEW flags \in SUBSET {"V", "R", "W", "X", "U"}
    PROVE  IsResult(map_create_large(ph, rt, vpn, ppn, flags), rt)
<1>1. PICK idx, w0, w, base :
         /\ idx = parse_vpn(vpn) /\ w0 = StartWalk(ph, rt) /\ w = Descend(w0, idx[2])
         /\ base = ppn - (ppn % PTES_PER_TABLE)
  OBVIOUS
<1>2. IsWalk(w0) /\ w0.root.ppn = rt.ppn
  BY <1>1, StartType
<1>4. IsWalk(w) /\ w.root.ppn = rt.ppn
  BY <1>1, <1>2, DescendType
<1>5. w.phys \in Phys /\ w.root \in Root /\ w.res \in {"Ok", "DoubleMapping", "AcquirePageFailed"}
  BY <1>4 DEF IsWalk
<1>b. base \in Nat
  <2>1. PTES_PER_TABLE \in Nat /\ PTES_PER_TABLE # 0
    BY Shape
  <2>2. ppn % PTES_PER_TABLE \in Nat /\ ppn \div PTES_PER_TABLE \in Nat
        /\ ppn = (ppn \div PTES_PER_TABLE) * PTES_PER_TABLE + (ppn % PTES_PER_TABLE)
    BY <2>1, DivMod
  <2>3. (ppn \div PTES_PER_TABLE) * PTES_PER_TABLE \in Nat
    BY <2>1, <2>2
  <2> QED BY <1>1, <2>2, <2>3
<1>6. [ppn |-> base, flags |-> flags] \in Words
  BY <1>b, WordTypes
<1>7. PICK out \in Phys : out = [w.phys EXCEPT !.mem[w.table][idx[1]] = [ppn |-> base, flags |-> flags]]
  BY <1>5, <1>6, PhysParts
<1>8. \/ map_create_large(ph, rt, vpn, ppn, flags) = Result(ph, rt, "InvalidPteFlags")
      \/ map_create_large(ph, rt, vpn, ppn, flags) = Result(w.phys, w.root, w.res)
      \/ map_create_large(ph, rt, vpn, ppn, flags) = Result(w.phys, w.root, "DoubleMapping")
      \/ map_create_large(ph, rt, vpn, ppn, flags) = Result(out, w.root, "Ok")
  BY <1>1, <1>7, Zenon DEF map_create_large
<1>9. IsResult(Result(ph, rt, "InvalidPteFlags"), rt)
  BY ResultType
<1>10. IsResult(Result(w.phys, w.root, w.res), rt)
  BY <1>4, <1>5, ResultType
<1>11. IsResult(Result(w.phys, w.root, "DoubleMapping"), rt)
  BY <1>4, <1>5, ResultType
<1>12. IsResult(Result(out, w.root, "Ok"), rt)
  BY <1>4, <1>5, ResultType
<1> QED BY <1>8, <1>9, <1>10, <1>11, <1>12

\* unmap keeps the root and the allocator, and writes words only.
LEMMA UnmapResultType ==
    ASSUME NEW ph \in Phys, NEW rt \in Root, NEW s \in Int, NEW e \in Int
    PROVE  /\ unmap(ph, rt, s, e).phys \in Phys
           /\ unmap(ph, rt, s, e).res \in {"Ok", "Panic"}
<1>1. Pte0 \in Words /\ ph.mem \in Memory(Words)
  BY WordTypes, PhysParts
<1>2. \/ unmap(ph, rt, s, e) = Result(ph, rt, "Ok")
      \/ \E m \in Memory(Words), res \in {"Ok", "Panic"} :
            unmap(ph, rt, s, e) = Result([ph EXCEPT !.mem = m], rt, res)
  BY <1>1, UnmapType
<1>3. CASE unmap(ph, rt, s, e) = Result(ph, rt, "Ok")
  BY <1>3 DEF Result
<1>4. CASE \E m \in Memory(Words), res \in {"Ok", "Panic"} :
              unmap(ph, rt, s, e) = Result([ph EXCEPT !.mem = m], rt, res)
  <2>1. PICK m \in Memory(Words), res \in {"Ok", "Panic"} :
              unmap(ph, rt, s, e) = Result([ph EXCEPT !.mem = m], rt, res)
    BY <1>4
  <2>2. [ph EXCEPT !.mem = m] \in Phys
    BY PhysParts
  <2> QED BY <2>1, <2>2 DEF Result
<1> QED BY <1>2, <1>3, <1>4

\* RootPgt::new and RootPgt::new_copy.
LEMMA NewType ==
    ASSUME NEW ph \in Phys
    PROVE  /\ new(ph).res = "Ok" => new(ph).phys \in Phys /\ new(ph).root \in Root
           /\ new(ph).res # "Ok" => alloc_page(ph.alloc).page = NONE
<1>1. PICK r : r = alloc_zeroed_page(ph)
  OBVIOUS
<1>2. r.phys \in Phys /\ r.page \in PPN \cup {NONE} /\ r.page = alloc_page(ph.alloc).page
  BY <1>1, ZeroedType DEF alloc_zeroed_page
<1>3. CASE r.page = NONE
  BY <1>1, <1>2, <1>3 DEF new, Result
<1>4. CASE r.page # NONE
  <2>1. PICK p \in PPN : p = r.page
    BY <1>2, <1>4
  <2>2. <<p>> \in Seq(PPN)
    OBVIOUS
  <2>3. [ppn |-> p, pages |-> <<p>>] \in Root
    BY <2>2 DEF Root
  <2>4. new(ph) = Result(r.phys, [ppn |-> p, pages |-> <<p>>], "Ok")
    BY <1>1, <1>4, <2>1 DEF new
  <2> QED BY <1>2, <2>3, <2>4 DEF Result
<1> QED BY <1>3, <1>4

LEMMA NewCopyType ==
    ASSUME NEW ph \in Phys, NEW p0 \in PPN, new_copy(ph, ph.mem[p0]).res = "Ok"
    PROVE  new_copy(ph, ph.mem[p0]).phys \in Phys /\ new_copy(ph, ph.mem[p0]).root \in Root
<1>1. PICK r : r = alloc_page(ph.alloc)
  OBVIOUS
<1>2. r.allocator \in Alloc /\ r.page \in PPN \cup {NONE} /\ ph.mem \in Memory(Words)
  BY <1>1, AllocType, PhysParts
<1>3. r.page # NONE
  BY <1>1 DEF new_copy, Result
<1>4. PICK p \in PPN : p = r.page
  BY <1>2, <1>3
<1>5. PICK z \in [Index -> Words] : z = ph.mem[p0]
  BY <1>2 DEF Memory
<1>6. [ph.mem EXCEPT ![p] = z] \in Memory(Words)
  BY <1>2 DEF Memory
<1>7. [alloc |-> r.allocator, mem |-> [ph.mem EXCEPT ![p] = z]] \in Phys
  BY <1>2, <1>6 DEF Phys
<1>8. <<p>> \in Seq(PPN)
  OBVIOUS
<1>9. [ppn |-> p, pages |-> <<p>>] \in Root
  BY <1>8 DEF Root
<1>10. new_copy(ph, ph.mem[p0]) = Result([alloc |-> r.allocator, mem |-> [ph.mem EXCEPT ![p] = z]],
                                         [ppn |-> p, pages |-> <<p>>], "Ok")
  BY <1>1, <1>3, <1>4, <1>5 DEF new_copy
<1> QED BY <1>7, <1>9, <1>10 DEF Result

\* The kernel's own tables.
LEMMA BootType == init_kernel_satp.phys \in Phys /\ init_kernel_satp.root.ppn \in PPN
<1>f. PICK f : f = compute_first_unused_ppn(KernelEndPa)
  OBVIOUS
<1>1. f \in Lo .. compute_max_ppn - 3
  <2>1. PAGE_SIZE_BYTES \in Nat /\ PAGE_SIZE_BYTES > 0 /\ MEM_START_PA \in Nat /\ KernelEndPa \in Nat
        /\ MEM_START_PA <= KernelEndPa
    BY MemAssumption, KernelHalfAssumption
  <2>2. \A x \in Nat : MEM_START_PA <= x =>
           MEM_START_PA \div PAGE_SIZE_BYTES <= x \div PAGE_SIZE_BYTES /\ x \div PAGE_SIZE_BYTES \in Nat
    <3> TAKE x \in Nat
    <3> HAVE MEM_START_PA <= x
    <3>1. /\ x \div PAGE_SIZE_BYTES \in Nat /\ x % PAGE_SIZE_BYTES < PAGE_SIZE_BYTES
          /\ x % PAGE_SIZE_BYTES \in Nat
          /\ x = (x \div PAGE_SIZE_BYTES) * PAGE_SIZE_BYTES + (x % PAGE_SIZE_BYTES)
      BY <2>1, DivMod
    <3>2. PICK q \in Nat, r \in Nat : q = x \div PAGE_SIZE_BYTES /\ r = x % PAGE_SIZE_BYTES
      BY <3>1
    <3>3. /\ MEM_START_PA \div PAGE_SIZE_BYTES \in Nat
          /\ MEM_START_PA % PAGE_SIZE_BYTES \in Nat
          /\ MEM_START_PA = (MEM_START_PA \div PAGE_SIZE_BYTES) * PAGE_SIZE_BYTES
                              + (MEM_START_PA % PAGE_SIZE_BYTES)
      BY <2>1, DivMod
    <3>4. PICK u \in Nat, v \in Nat :
             u = MEM_START_PA \div PAGE_SIZE_BYTES /\ v = MEM_START_PA % PAGE_SIZE_BYTES
      BY <3>3
    <3>5. x = q * PAGE_SIZE_BYTES + r /\ r < PAGE_SIZE_BYTES
          /\ MEM_START_PA = u * PAGE_SIZE_BYTES + v
      BY <3>1, <3>2, <3>3, <3>4
    <3>6. ASSUME q < u PROVE FALSE
      <4>1. q * PAGE_SIZE_BYTES + PAGE_SIZE_BYTES <= u * PAGE_SIZE_BYTES
            /\ q * PAGE_SIZE_BYTES \in Int /\ u * PAGE_SIZE_BYTES \in Int
        BY <3>6, <2>1, MulStep
      <4> QED BY <4>1, <3>5, <2>1
    <3> QED BY <3>1, <3>2, <3>4, <3>6
  <2>3. KernelEndPa + PAGE_SIZE_BYTES \in Nat /\ MEM_START_PA <= KernelEndPa + PAGE_SIZE_BYTES
    BY <2>1
  <2>4. f \in Nat /\ Lo <= f
    BY <1>f, <2>1, <2>2, <2>3 DEF compute_first_unused_ppn, PpnFromPa, Lo
  <2> QED BY <2>4, <1>f, PageNumbers, KernelHalfAssumption
<1>a. PICK a : a = NewAllocator(KernelEndPa)
  OBVIOUS
<1>2. a \in Alloc /\ alloc_page(a).page = f /\ f \in PPN
  <2>1. a = [next_unused_ppn |-> f, max_ppn |-> compute_max_ppn, recycled_ppn |-> << >>]
    BY <1>a, <1>f DEF NewAllocator
  <2>2. << >> \in Seq(PPN) /\ f \in Lo .. compute_max_ppn /\ ~(f >= compute_max_ppn)
    BY <1>1, PageNumbers
  <2>3. alloc_page(a) = [page |-> f, allocator |-> [a EXCEPT !.next_unused_ppn = f + 1]]
    BY <2>1, <2>2 DEF alloc_page
  <2> QED BY <2>1, <2>2, <2>3, PageNumbers DEF Alloc
<1>p. PICK ph : ph = [mem |-> [p \in PPN |-> ZeroPage], alloc |-> a]
  OBVIOUS
<1>3. ph \in Phys /\ ph.alloc = a
  <2>1. [p \in PPN |-> ZeroPage] \in Memory(Words)
    BY WordTypes DEF Memory
  <2> QED BY <1>p, <1>2, <2>1 DEF Phys
<1>r. PICK r0, r1, r2 : /\ r0 = new(ph)
                        /\ r1 = map_create(r0.phys, r0.root, DeviceVpn, DeviceFrame, KernelFlags)
                        /\ r2 = map_create_large(r1.phys, r1.root, LargeVpn, LargeFrame, KernelFlags)
  OBVIOUS
<1>4. r0.phys \in Phys /\ r0.root \in Root
  <2>1. alloc_page(ph.alloc).page # NONE
    BY <1>2, <1>3, PageNumbers
  <2> QED BY <2>1, <1>3, <1>r, NewType
<1>5. /\ DeviceFrame \in Nat /\ LargeFrame \in Nat
      /\ KernelFlags \in SUBSET {"V", "R", "W", "X", "U"}
  BY KernelHalfAssumption DEF KernelFlags
<1>6. r1.phys \in Phys /\ r1.root \in Root
  BY <1>4, <1>5, <1>r, MapCreateType DEF IsResult
<1>7. r2.phys \in Phys /\ r2.root \in Root
  BY <1>6, <1>5, <1>r, MapLargeType DEF IsResult
<1>8. init_kernel_satp = r2
  BY <1>r, <1>p, <1>a DEF init_kernel_satp
<1> QED BY <1>7, <1>8 DEF Root
-----------------------------------------------------------------------------
(* The pages of an area.                                                   *)

\* A set of numbers that is bounded and not empty has a least and a greatest
\* element.
LEMMA MinMax ==
    ASSUME NEW a \in Nat, NEW b \in Nat, NEW S \in SUBSET (a .. b), S # {}
    PROVE  Min(S) \in S /\ Max(S) \in S /\ \A y \in S : Min(S) <= y /\ y <= Max(S)
<1>0. OpToRel(<, Nat) = {ss \in Nat \X Nat : ss[1] < ss[2]}
  BY DEF OpToRel
<1>1. \A T \in SUBSET Nat : T # {} => \E m \in T : \A y \in T : m <= y
  <2> TAKE T \in SUBSET Nat
  <2> HAVE T # {}
  <2>1. PICK m \in T : \A y \in T : ~(<<y, m>> \in OpToRel(<, Nat))
    BY WFMin, NatLessThanWellFounded
  <2>2. \A y \in T : ~(y < m)
    BY <1>0, <2>1
  <2>3. \A y \in T : m <= y
    BY <2>2
  <2> QED BY <2>3
<1>2. PICK lo \in S : \A y \in S : lo <= y
  <2>1. S \in SUBSET Nat
    OBVIOUS
  <2> QED BY <1>1, <2>1
<1>3. PICK hi \in S : \A y \in S : hi >= y
  <2> DEFINE T == {b - y : y \in S}
  <2>1. T \in SUBSET Nat /\ T # {}
    OBVIOUS
  <2>2. PICK m \in T : \A y \in T : m <= y
    BY <2>1, <1>1
  <2>3. PICK hi \in S : m = b - hi
    OBVIOUS
  <2>4. \A y \in S : b - hi <= b - y
    BY <2>2, <2>3
  <2>5. \A y \in S : hi >= y
    BY <2>4
  <2> QED BY <2>5
<1>4. Min(S) \in S /\ \A y \in S : Min(S) <= y
  BY <1>2 DEF Min
<1>5. Max(S) \in S /\ \A y \in S : Max(S) >= y
  BY <1>3 DEF Max
<1> QED BY <1>4, <1>5

\* A map of pages is a function from its domain to pages.
LEMMA PageMapIs ==
    ASSUME NEW p
    PROVE  p \in PageMaps <=> (p \in [DOMAIN p -> PPN] /\ DOMAIN p \subseteq Nat)
<1>1. ASSUME p \in PageMaps PROVE p \in [DOMAIN p -> PPN] /\ DOMAIN p \subseteq Nat
  <2>1. PICK S \in SUBSET Nat : p \in [S -> PPN]
    BY <1>1 DEF PageMaps
  <2>2. DOMAIN p = S
    BY <2>1
  <2> QED BY <2>1, <2>2
<1>2. ASSUME p \in [DOMAIN p -> PPN], DOMAIN p \subseteq Nat PROVE p \in PageMaps
  <2>1. PICK S \in SUBSET Nat : S = DOMAIN p
    BY <1>2
  <2>2. p \in [S -> PPN]
    BY <1>2, <2>1
  <2> QED BY <2>2 DEF PageMaps
<1> QED BY <1>1, <1>2

\* BTreeMap::insert, and the part of a map within a set.
LEMMA InsertType ==
    ASSUME NEW p \in PageMaps, NEW v \in Nat, NEW ppn \in PPN
    PROVE  Insert(p, v, ppn) \in PageMaps /\ DOMAIN Insert(p, v, ppn) = DOMAIN p \cup {v}
<1>1. p \in [DOMAIN p -> PPN] /\ DOMAIN p \subseteq Nat
  BY PageMapIs
<1>2. PICK q : q = Insert(p, v, ppn)
  OBVIOUS
<1>3. q = [w \in DOMAIN p \cup {v} |-> IF w = v THEN ppn ELSE p[w]]
  BY <1>2 DEF Insert
<1>4. DOMAIN q = DOMAIN p \cup {v} /\ q \in [DOMAIN q -> PPN] /\ DOMAIN q \subseteq Nat
  BY <1>1, <1>3
<1> QED BY <1>2, <1>4, PageMapIs

LEMMA OnlyType ==
    ASSUME NEW p \in PageMaps, NEW S
    PROVE  Only(p, S) \in PageMaps /\ DOMAIN Only(p, S) = DOMAIN p \cap S
<1>1. p \in [DOMAIN p -> PPN] /\ DOMAIN p \subseteq Nat
  BY PageMapIs
<1>2. PICK q : q = Only(p, S)
  OBVIOUS
<1>3. q = [w \in DOMAIN p \cap S |-> p[w]]
  BY <1>2 DEF Only, Restrict
<1>4. DOMAIN q = DOMAIN p \cap S /\ q \in [DOMAIN q -> PPN] /\ DOMAIN q \subseteq Nat
  BY <1>1, <1>3
<1> QED BY <1>2, <1>4, PageMapIs

\* g are the allocators the loop of DropPages goes through, from the first page
\* of the map on.
DropRun(g, N, first, ph, p) ==
    /\ N \in Nat /\ first \in Int /\ \A v \in DOMAIN p : first <= v /\ v < first + N
    /\ g[0] = ph.alloc
    /\ \A n \in 0 .. N - 1 :
          g[n + 1] = IF first + (n + 1) - 1 \in DOMAIN p
                     THEN dealloc(g[n], p[first + (n + 1) - 1]) ELSE g[n]
    /\ DropPages(ph, p) = [ph EXCEPT !.alloc = g[N]]

\* Dropping a BTreeMap gives its pages to the allocator.
LEMMA DropPagesType ==
    ASSUME NEW ph \in Phys, NEW p \in PageMaps, NEW a \in Nat, NEW b \in Nat,
           DOMAIN p \subseteq a .. b
    PROVE  /\ DropPages(ph, p) \in Phys
           /\ DOMAIN p = {} => DropPages(ph, p) = ph
           /\ DOMAIN p # {} => \E g, N, first : DropRun(g, N, first, ph, p)
<1>1. CASE DOMAIN p = {}
  BY <1>1 DEF DropPages
<1>2. CASE DOMAIN p # {}
  <2> DEFINE first == Min(DOMAIN p)
             N     == Max(DOMAIN p) - first + 1
             Step(n, x) == IF first + (n + 1) - 1 \in DOMAIN p THEN dealloc(x, p[first + (n + 1) - 1]) ELSE x
             loop[k \in 0 .. N] ==
               IF k = 0 THEN ph.alloc
               ELSE IF first + k - 1 \in DOMAIN p
               THEN dealloc(loop[k - 1], p[first + k - 1]) ELSE loop[k - 1]
  <2>1. DropPages(ph, p) = [ph EXCEPT !.alloc = loop[N]]
    BY <1>2 DEF DropPages
  <2>m. PICK D \in SUBSET (a .. b) : D = DOMAIN p /\ D # {}
    BY <1>2
  <2>f. Min(D) \in Int /\ Max(D) \in Int /\ Min(D) <= Max(D)
    <3>1. Min(D) \in D /\ Max(D) \in D /\ \A y \in D : Min(D) <= y /\ y <= Max(D)
      BY <2>m, MinMax
    <3>2. PICK x \in D, y \in D : x = Min(D) /\ y = Max(D)
      BY <3>1
    <3>3. x <= y
      BY <3>1, <3>2
    <3> QED BY <3>2, <3>3
  <2>n. N \in Nat /\ first \in Int
    BY <2>m, <2>f
  <2>d. \A v \in DOMAIN p : first <= v /\ v < first + N
    <3>1. \A y \in D : Min(D) <= y /\ y <= Max(D)
      BY <2>m, MinMax
    <3>2. \A y \in D : y \in Int
      BY <2>m
    <3> QED BY <2>f, <2>m, <3>1, <3>2
  <2>2. \A n \in 0 .. N - 1, x \in Alloc : Step(n, x) \in Alloc
    <3> TAKE n \in 0 .. N - 1, x \in Alloc
    <3>1. PICK v : v = first + (n + 1) - 1
      OBVIOUS
    <3>2. v \in DOMAIN p => p[v] \in PPN
      BY PageMapIs
    <3>3. v \in DOMAIN p => dealloc(x, p[v]) \in Alloc
      BY <3>2, DeallocType
    <3> QED BY <3>1, <3>3
  <2> HIDE DEF N, first
  <2>3. PICK f : /\ f = [k \in 0 .. N |-> IF k = 0 THEN ph.alloc
                                         ELSE IF first + k - 1 \in DOMAIN p
                                         THEN dealloc(f[k - 1], p[first + k - 1]) ELSE f[k - 1]]
                 /\ \A n \in 0 .. N : f[n] \in Alloc
    <3>1. PICK E : E = [n \in 0 .. N |-> Alloc]
      OBVIOUS
    <3>2. PICK S : S = [n \in 0 .. N - 1 |-> [x \in Alloc |-> Step(n, x)]]
      OBVIOUS
    <3>3. ph.alloc \in E[0] /\ Turns(S, N, E)
      <4>1. ph.alloc \in E[0]
        BY <3>1, <2>n, PhysParts
      <4> HIDE DEF Step
      <4>2. Turns(S, N, E)
        BY <3>1, <3>2, <2>2, <2>n DEF Turns
      <4> QED BY <4>1, <4>2
    <3>4. PICK f : Run(f, S, N, E, ph.alloc)
      BY <3>3, <2>n, LoopRuns
    <3>5. \A n \in 0 .. N : f[n] \in Alloc
      BY <3>4, <3>1 DEF Run
    <3>6. ASSUME NEW k \in 0 .. N, k # 0
          PROVE  S[k - 1][f[k - 1]] = IF first + k - 1 \in DOMAIN p
                                      THEN dealloc(f[k - 1], p[first + k - 1]) ELSE f[k - 1]
      <4>1. k - 1 \in 0 .. N - 1 /\ (k - 1) + 1 = k /\ f[k - 1] \in Alloc
        BY <3>6, <3>5, <2>n
      <4>2. S[k - 1][f[k - 1]] = Step(k - 1, f[k - 1])
        BY <3>2, <4>1
      <4> QED BY <4>1, <4>2
    <3>7. f = [k \in 0 .. N |-> IF k = 0 THEN ph.alloc
                                ELSE IF first + k - 1 \in DOMAIN p
                                THEN dealloc(f[k - 1], p[first + k - 1]) ELSE f[k - 1]]
      BY <3>4, <3>6 DEF Run
    <3> QED BY <3>5, <3>7
  <2>4. loop = [k \in 0 .. N |-> IF k = 0 THEN ph.alloc
                                 ELSE IF first + k - 1 \in DOMAIN p
                                 THEN dealloc(loop[k - 1], p[first + k - 1]) ELSE loop[k - 1]]
    BY <2>3
  <2>5. PICK g : g = loop
                 /\ g = [k \in 0 .. N |-> IF k = 0 THEN ph.alloc
                                 ELSE IF first + k - 1 \in DOMAIN p
                                 THEN dealloc(g[k - 1], p[first + k - 1]) ELSE g[k - 1]]
    BY <2>4
  <2> HIDE DEF loop
  <2>6. ASSUME NEW n \in 0 .. N - 1 PROVE g[n + 1] = Step(n, g[n])
    <3>1. n + 1 \in 0 .. N /\ n + 1 # 0 /\ (n + 1) - 1 = n
      BY <2>n
    <3> QED BY <2>5, <3>1
  <2>7. g[0] = ph.alloc
    BY <2>5, <2>n
  <2> HIDE DEF Step
  <2>8. \A n \in 0 .. N : g[n] \in Alloc
    <3>1. PICK E : E = [n \in 0 .. N |-> Alloc]
      OBVIOUS
    <3>2. g[0] \in E[0]
      BY <3>1, <2>7, <2>n, PhysParts
    <3>3. ASSUME NEW n \in 0 .. N - 1, g[n] \in E[n] PROVE g[n + 1] \in E[n + 1]
      <4>1. E[n] = Alloc /\ E[n + 1] = Alloc
        BY <3>1, <2>n
      <4> QED BY <4>1, <3>3, <2>2, <2>6
    <3>4. \A n \in 0 .. N : g[n] \in E[n]
      BY <3>2, <3>3, <2>n, LoopStays
    <3> QED BY <3>1, <3>4
  <2>9. g[N] \in Alloc
    BY <2>8, <2>n
  <2>10. DropRun(g, N, first, ph, p)
    <3>1. DropPages(ph, p) = [ph EXCEPT !.alloc = g[N]]
      BY <2>1, <2>5
    <3>2. \A n \in 0 .. N - 1 :
             g[n + 1] = IF first + (n + 1) - 1 \in DOMAIN p
                        THEN dealloc(g[n], p[first + (n + 1) - 1]) ELSE g[n]
      BY <2>6 DEF Step
    <3> QED BY <2>n, <2>d, <2>7, <3>1, <3>2 DEF DropRun
  <2> QED BY <2>1, <2>5, <2>9, <2>10, <1>2, PhysParts
<1> QED BY <1>1, <1>2

\* The parts of an area, and an area of given parts.
LEMMA AreaParts ==
    ASSUME NEW a \in Area
    PROVE  /\ a.start_vpn \in Nat /\ a.end_vpn \in Nat /\ a.start_vpn < a.end_vpn
           /\ a.permissions \in Flags /\ a.pages \in PageMaps
           /\ a.map_type \in {"Anonymous", "KernelVaOffset"}
           /\ DOMAIN a.pages \subseteq a.start_vpn .. a.end_vpn - 1
           /\ a = [start_vpn |-> a.start_vpn, end_vpn |-> a.end_vpn, map_type |-> a.map_type,
                   permissions |-> a.permissions, pages |-> a.pages]
BY DEF Area

LEMMA AreaOf ==
    ASSUME NEW s \in Nat, NEW e \in Nat, s < e, NEW t \in {"Anonymous", "KernelVaOffset"},
           NEW f \in Flags, NEW p \in PageMaps, DOMAIN p \subseteq s .. e - 1
    PROVE  [start_vpn |-> s, end_vpn |-> e, map_type |-> t, permissions |-> f, pages |-> p] \in Area
BY DEF Area

LEMMA NoPagesType == NoPages \in PageMaps /\ DOMAIN NoPages = {}
<1>1. PICK q : q = NoPages
  OBVIOUS
<1>2. q = [v \in {} |-> NONE]
  BY <1>1 DEF NoPages
<1>3. DOMAIN q = {} /\ q \in [DOMAIN q -> PPN] /\ DOMAIN q \subseteq Nat
  BY <1>2
<1> QED BY <1>1, <1>3, PageMapIs

\* A new area has no pages yet.
LEMMA NewAreaType ==
    ASSUME NEW s \in Nat, NEW e \in Nat, s < e, NEW t \in {"Anonymous", "KernelVaOffset"},
           NEW f \in Flags
    PROVE  /\ VMArea(s, e, t, f) \in Area
           /\ VMArea(s, e, t, f).start_vpn = s /\ VMArea(s, e, t, f).end_vpn = e
           /\ VMArea(s, e, t, f).permissions = f /\ VMArea(s, e, t, f).map_type = t
           /\ DOMAIN VMArea(s, e, t, f).pages = {}
<1>1. DOMAIN NoPages \subseteq s .. e - 1 /\ NoPages \in PageMaps /\ DOMAIN NoPages = {}
  BY NoPagesType
<1>2. PICK p : p = NoPages
  OBVIOUS
<1>3. VMArea(s, e, t, f) = [start_vpn |-> s, end_vpn |-> e, map_type |-> t, permissions |-> f, pages |-> p]
  BY <1>2 DEF VMArea
<1>4. [start_vpn |-> s, end_vpn |-> e, map_type |-> t, permissions |-> f, pages |-> p] \in Area
  BY <1>1, <1>2, AreaOf
<1> QED BY <1>1, <1>2, <1>3, <1>4

\* The pages of an area are replaced.
LEMMA AreaPages ==
    ASSUME NEW a \in Area, NEW p \in PageMaps, DOMAIN p \subseteq a.start_vpn .. a.end_vpn - 1,
           NEW b, b = [a EXCEPT !.pages = p]
    PROVE  /\ b \in Area
           /\ b.start_vpn = a.start_vpn /\ b.end_vpn = a.end_vpn /\ b.permissions = a.permissions
           /\ b.map_type = a.map_type /\ b.pages = p
<1>1. b = [start_vpn |-> a.start_vpn, end_vpn |-> a.end_vpn, map_type |-> a.map_type,
           permissions |-> a.permissions, pages |-> p]
  <2>1. PICK s, e, t, f, q : a = [start_vpn |-> s, end_vpn |-> e, map_type |-> t,
                                  permissions |-> f, pages |-> q]
    BY AreaParts
  <2> QED BY <2>1
<1>2. [start_vpn |-> a.start_vpn, end_vpn |-> a.end_vpn, map_type |-> a.map_type,
       permissions |-> a.permissions, pages |-> p] \in Area
  BY AreaParts, AreaOf
<1> QED BY <1>1, <1>2

\* The pages of an area go back to the allocator.
LEMMA DropAreaType ==
    ASSUME NEW ph \in Phys, NEW a \in Area, NEW S
    PROVE  DropPages(ph, a.pages) \in Phys /\ DropPages(ph, Only(a.pages, S)) \in Phys
<1>1. a.pages \in PageMaps /\ a.start_vpn \in Nat /\ a.end_vpn \in Nat
      /\ DOMAIN a.pages \subseteq a.start_vpn .. a.end_vpn - 1
  BY AreaParts
<1>2. PICK p \in PageMaps, q \in PageMaps : p = a.pages /\ q = Only(a.pages, S)
  BY <1>1, OnlyType
<1>3. DOMAIN p \subseteq a.start_vpn .. a.end_vpn
  BY <1>1, <1>2
<1>4. DOMAIN q = DOMAIN p \cap S
  BY <1>2, OnlyType
<1>5. DOMAIN q \subseteq a.start_vpn .. a.end_vpn
  BY <1>3, <1>4
<1>6. DropPages(ph, p) \in Phys
  BY <1>1, <1>3, DropPagesType
<1>7. DropPages(ph, q) \in Phys
  BY <1>1, <1>5, DropPagesType
<1> QED BY <1>2, <1>6, <1>7

\* g is what the drop of a VMSpace goes through.
SpaceRun(g, ph, sp) ==
    /\ g[0] = [ph EXCEPT !.alloc = DeallocSeq(@, sp.root_pgt.pages)]
    /\ \A n \in 0 .. Len(sp.areas) - 1 : g[n + 1] = DropPages(g[n], sp.areas[n + 1].pages)
    /\ DropSpace(ph, sp) = g[Len(sp.areas)]
    /\ \A n \in 0 .. Len(sp.areas) : g[n] \in Phys

LEMMA DropSpaceType ==
    ASSUME NEW ph \in Phys, NEW sp \in Space
    PROVE  DropSpace(ph, sp) \in Phys /\ \E g : SpaceRun(g, ph, sp)
<1> DEFINE N == Len(sp.areas)
           Step(n, x) == DropPages(x, sp.areas[n + 1].pages)
           u == [ph EXCEPT !.alloc = DeallocSeq(@, sp.root_pgt.pages)]
           loop[i \in 0 .. N] == IF i = 0 THEN [ph EXCEPT !.alloc = DeallocSeq(@, sp.root_pgt.pages)]
                                 ELSE DropPages(loop[i - 1], sp.areas[i].pages)
<1>1. DropSpace(ph, sp) = loop[N]
  BY DEF DropSpace
<1>t. sp.root_pgt.pages \in Seq(PPN) /\ sp.areas \in Seq(Area)
  BY DEF Space, Root
<1>n. N \in Nat
  BY <1>t
<1>u. u \in Phys
  <2>1. DeallocSeq(ph.alloc, sp.root_pgt.pages) \in Alloc
    BY <1>t, PhysParts, DeallocType
  <2> QED BY <2>1, PhysParts
<1>2. \A n \in 0 .. N - 1, x \in Phys : Step(n, x) \in Phys
  <2> TAKE n \in 0 .. N - 1, x \in Phys
  <2>1. PICK a \in Area : a = sp.areas[n + 1]
    BY <1>t, <1>n
  <2>2. DropPages(x, a.pages) \in Phys
    BY DropAreaType
  <2> QED BY <2>1, <2>2
<1> HIDE DEF N, u
<1>3. PICK f : f = [i \in 0 .. N |-> IF i = 0 THEN u ELSE DropPages(f[i - 1], sp.areas[i].pages)]
  <2>1. PICK E : E = [n \in 0 .. N |-> Phys]
    OBVIOUS
  <2>2. PICK S : S = [n \in 0 .. N - 1 |-> [x \in Phys |-> Step(n, x)]]
    OBVIOUS
  <2>3. u \in E[0]
    BY <2>1, <1>n, <1>u
  <2>4. Turns(S, N, E)
    <3> HIDE DEF Step
    <3> QED BY <2>1, <2>2, <1>2, <1>n DEF Turns
  <2>5. PICK f : Run(f, S, N, E, u)
    BY <2>3, <2>4, <1>n, LoopRuns
  <2>6. \A n \in 0 .. N : f[n] \in Phys
    BY <2>5, <2>1 DEF Run
  <2>7. ASSUME NEW i \in 0 .. N, i # 0 PROVE S[i - 1][f[i - 1]] = DropPages(f[i - 1], sp.areas[i].pages)
    <3>1. i - 1 \in 0 .. N - 1 /\ (i - 1) + 1 = i /\ f[i - 1] \in Phys
      BY <2>7, <2>6, <1>n
    <3>2. S[i - 1][f[i - 1]] = Step(i - 1, f[i - 1])
      BY <2>2, <3>1
    <3> QED BY <3>1, <3>2
  <2>8. f = [i \in 0 .. N |-> IF i = 0 THEN u ELSE DropPages(f[i - 1], sp.areas[i].pages)]
    BY <2>5, <2>7 DEF Run
  <2> QED BY <2>8
<1>4. loop = [i \in 0 .. N |-> IF i = 0 THEN [ph EXCEPT !.alloc = DeallocSeq(@, sp.root_pgt.pages)]
                               ELSE DropPages(loop[i - 1], sp.areas[i].pages)]
  BY <1>3 DEF u
<1>5. PICK g : g = loop
               /\ g = [i \in 0 .. N |-> IF i = 0 THEN u ELSE DropPages(g[i - 1], sp.areas[i].pages)]
  BY <1>4 DEF u
<1> HIDE DEF loop
<1>6. ASSUME NEW n \in 0 .. N - 1 PROVE g[n + 1] = Step(n, g[n])
  <2>1. n + 1 \in 0 .. N /\ n + 1 # 0 /\ (n + 1) - 1 = n
    BY <1>n
  <2> QED BY <1>5, <2>1
<1>7. g[0] = u
  BY <1>5, <1>n
<1> HIDE DEF Step
<1>8. \A n \in 0 .. N : g[n] \in Phys
  <2>1. PICK E : E = [n \in 0 .. N |-> Phys]
    OBVIOUS
  <2>2. g[0] \in E[0]
    BY <2>1, <1>7, <1>n, <1>u
  <2>3. ASSUME NEW n \in 0 .. N - 1, g[n] \in E[n] PROVE g[n + 1] \in E[n + 1]
    <3>1. E[n] = Phys /\ E[n + 1] = Phys
      BY <2>1, <1>n
    <3> QED BY <3>1, <2>3, <1>2, <1>6
  <2>4. \A n \in 0 .. N : g[n] \in E[n]
    BY <2>2, <2>3, <1>n, LoopStays
  <2> QED BY <2>1, <2>4
<1>9. SpaceRun(g, ph, sp)
  <2>1. \A n \in 0 .. N - 1 : g[n + 1] = DropPages(g[n], sp.areas[n + 1].pages)
    BY <1>6 DEF Step
  <2> QED BY <2>1, <1>1, <1>5, <1>7, <1>8 DEF SpaceRun, N, u
<1> QED BY <1>1, <1>5, <1>8, <1>9, <1>n
-----------------------------------------------------------------------------
(* Lists of areas.                                                         *)

\* The areas of b lie where those of a do.
SameRanges(a, b) ==
    /\ Len(a) = Len(b)
    /\ \A i \in 1 .. Len(a) : a[i].start_vpn = b[i].start_vpn /\ a[i].end_vpn = b[i].end_vpn

LEMMA SameApart ==
    ASSUME NEW a, NEW b, SameRanges(a, b), Apart(a)
    PROVE  Apart(b)
BY DEF SameRanges, Apart

\* They differ in the area i at most.
SameBut(a, b, i) == \A j \in 1 .. Len(a) : j # i => b[j] = a[j]

\* One area gets other pages.
Repaged(al, bs, i, p) == bs = [al EXCEPT ![i].pages = p]

LEMMA SetPages ==
    ASSUME NEW al \in Seq(Area), NEW i \in 1 .. Len(al), NEW p \in PageMaps,
           DOMAIN p \subseteq al[i].start_vpn .. al[i].end_vpn - 1,
           NEW bs, Repaged(al, bs, i, p)
    PROVE  /\ bs \in Seq(Area) /\ SameRanges(al, bs) /\ bs[i].pages = p
           /\ bs[i].permissions = al[i].permissions /\ bs[i].map_type = al[i].map_type
           /\ SameBut(al, bs, i)
<1>1. PICK a \in Area : a = al[i]
  OBVIOUS
<1>2. PICK b : b = [a EXCEPT !.pages = p]
  OBVIOUS
<1>3. b \in Area /\ b.start_vpn = a.start_vpn /\ b.end_vpn = a.end_vpn
  BY <1>1, <1>2, AreaPages
<1>4. bs = [al EXCEPT ![i] = b]
  BY <1>1, <1>2 DEF Repaged
<1>5. bs \in Seq(Area) /\ Len(bs) = Len(al) /\ bs[i] = b
      /\ \A j \in 1 .. Len(al) : j # i => bs[j] = al[j]
  BY <1>3, <1>4
<1>6. \A j \in 1 .. Len(al) : al[j].start_vpn = bs[j].start_vpn /\ al[j].end_vpn = bs[j].end_vpn
  BY <1>1, <1>3, <1>5
<1>7. b.pages = p /\ b.permissions = a.permissions /\ b.map_type = a.map_type
  BY <1>1, <1>2, AreaPages
<1> QED BY <1>1, <1>5, <1>6, <1>7 DEF SameRanges, SameBut

\* An area is put at the end of the list.
LEMMA AddedArea ==
    ASSUME NEW al \in Seq(Area), NEW x \in Area, NEW bs, bs = Append(al, x)
    PROVE  /\ bs \in Seq(Area) /\ Len(bs) = Len(al) + 1 /\ bs[Len(bs)] = x
           /\ \A i \in 1 .. Len(al) : bs[i] = al[i]
OBVIOUS

LEMMA AddedApart ==
    ASSUME NEW al \in Seq(Area), NEW x \in Area, Apart(al),
           \A i \in 1 .. Len(al) : al[i].end_vpn <= x.start_vpn \/ x.end_vpn <= al[i].start_vpn
    PROVE  Apart(Append(al, x))
<1>1. PICK bs : bs = Append(al, x)
  OBVIOUS
<1>2. /\ Len(bs) = Len(al) + 1 /\ bs[Len(bs)] = x /\ Len(al) \in Nat
      /\ \A i \in 1 .. Len(al) : bs[i] = al[i]
  BY <1>1
<1>3. ASSUME NEW i \in 1 .. Len(bs), NEW j \in 1 .. Len(bs), i # j
      PROVE  bs[i].end_vpn <= bs[j].start_vpn \/ bs[j].end_vpn <= bs[i].start_vpn
  <2>1. CASE i \in 1 .. Len(al) /\ j \in 1 .. Len(al)
    BY <2>1, <1>2, <1>3 DEF Apart
  <2>2. CASE i \in 1 .. Len(al) /\ j = Len(bs)
    BY <2>2, <1>2
  <2>3. CASE i = Len(bs) /\ j \in 1 .. Len(al)
    BY <2>3, <1>2
  <2> QED BY <2>1, <2>2, <2>3, <1>2, <1>3
<1> QED BY <1>1, <1>3 DEF Apart

\* The parts of a space and of a state.
LEMMA StateParts ==
    /\ \A sp \in Space : sp.root_pgt \in Root /\ sp.areas \in Seq(Area)
                         /\ sp = [root_pgt |-> sp.root_pgt, areas |-> sp.areas]
    /\ \A rt \in Root, al \in Seq(Area) : [root_pgt |-> rt, areas |-> al] \in Space
    /\ \A s \in State : s.phys \in Phys /\ s.space \in Space /\ s.res \in Res
                        /\ s = VMResult(s.phys, s.space, s.res)
    /\ \A ph \in Phys, sp \in Space, res \in Res : VMResult(ph, sp, res) \in State
BY DEF Space, State, VMResult

\* An area is added to a state.
LEMMA AddAreaType ==
    ASSUME NEW s \in State, NEW x \in Area
    PROVE  /\ AddArea(s, x) \in State
           /\ AddArea(s, x).space.areas = Append(s.space.areas, x)
           /\ AddArea(s, x).res = s.res
<1>1. PICK ph \in Phys, rt \in Root, al \in Seq(Area), res \in Res :
         s = [phys |-> ph, space |-> [root_pgt |-> rt, areas |-> al], res |-> res]
  BY StateParts DEF VMResult
<1>2. PICK bs \in Seq(Area) : bs = Append(al, x)
  BY AddedArea
<1>a. s.space.areas = al /\ s.res = res
  BY <1>1
<1>3. AddArea(s, x) = [phys |-> ph, space |-> [root_pgt |-> rt, areas |-> bs], res |-> res]
  <2>1. AddArea(s, x) = [s EXCEPT !.space.areas = bs]
    BY <1>2, <1>a DEF AddArea
  <2>2. [s EXCEPT !.space.areas = bs] = [phys |-> ph, space |-> [root_pgt |-> rt, areas |-> bs], res |-> res]
    BY <1>1
  <2> QED BY <2>1, <2>2
<1>4. [phys |-> ph, space |-> [root_pgt |-> rt, areas |-> bs], res |-> res] \in State
  BY StateParts DEF VMResult
<1> QED BY <1>1, <1>2, <1>3, <1>4
-----------------------------------------------------------------------------
(* new_user.                                                               *)

LEMMA FlagWords ==
    /\ \A f \in Flags : to_pte_flags(f) \in SUBSET {"V", "R", "W", "X", "U"}
    /\ \A r \in {"Ok", "InvalidPteFlags", "DoubleMapping", "AcquirePageFailed"} : r \in Res
BY DEF Flags, to_pte_flags, Res

\* The page p is put under the last area, and map_create called for it.
Laid(s, vpn, flags, word, out, p, m, br) ==
    LET z  == alloc_zeroed_page(s.phys)
        ar == s.space.areas
    IN  /\ p \in PPN /\ z.page = p
        /\ m = map_create([z.phys EXCEPT !.mem[p][0] = word], s.space.root_pgt, vpn, p, flags)
        /\ br = [ar EXCEPT ![Len(ar)].pages = Insert(ar[Len(ar)].pages, vpn, p)]
        /\ out = VMResult(m.phys, [root_pgt |-> m.root, areas |-> br], m.res)

\* A page of the last area is backed; no area moves.
LEMMA AnonymousPageType ==
    ASSUME NEW s \in State, Len(s.space.areas) > 0,
           NEW a \in Area, a = s.space.areas[Len(s.space.areas)],
           NEW vpn \in a.start_vpn .. a.end_vpn - 1,
           NEW flags \in SUBSET {"V", "R", "W", "X", "U"}, NEW word \in Words,
           NEW out, out = AnonymousPage(s, vpn, flags, word)
    PROVE  /\ out \in State /\ SameRanges(s.space.areas, out.space.areas)
           /\ s.res = "Ok" => \/ alloc_zeroed_page(s.phys).page = NONE /\ out.res = "AcquirePageFailed"
                              \/ \E p, m, br : Laid(s, vpn, flags, word, out, p, m, br)
<1>s. PICK ph \in Phys, rt \in Root, al \in Seq(Area), res \in Res :
         s = [phys |-> ph, space |-> [root_pgt |-> rt, areas |-> al], res |-> res]
  BY StateParts DEF VMResult
<1>a. s.space.areas = al /\ s.res = res /\ s.phys = ph /\ s.space.root_pgt = rt
      /\ s.space = [root_pgt |-> rt, areas |-> al]
  BY <1>s
<1>b. SameRanges(al, al)
  BY DEF SameRanges
<1>r. PICK r : r = alloc_zeroed_page(ph)
  OBVIOUS
<1>1. r.phys \in Phys /\ r.page \in PPN \cup {NONE}
  BY <1>r, ZeroedType
<1>2. CASE res # "Ok"
  BY <1>2, <1>a, <1>b DEF AnonymousPage
<1>3. CASE res = "Ok" /\ r.page = NONE
  <2>1. out = [s EXCEPT !.res = "AcquirePageFailed"]
    BY <1>3, <1>a, <1>r DEF AnonymousPage, AnonymousFrame
  <2>2. out = [phys |-> ph, space |-> [root_pgt |-> rt, areas |-> al], res |-> "AcquirePageFailed"]
    BY <2>1, <1>s
  <2>3. [phys |-> ph, space |-> [root_pgt |-> rt, areas |-> al], res |-> "AcquirePageFailed"] \in State
    BY StateParts DEF VMResult, Res
  <2> QED BY <2>2, <2>3, <1>3, <1>r, <1>a, <1>b
<1>4. CASE res = "Ok" /\ r.page # NONE
  <2>p. PICK p \in PPN : p = r.page
    BY <1>4, <1>1
  <2>n. p \in Nat
    BY PageNumbers
  <2>1. PICK q \in Phys : q = [r.phys EXCEPT !.mem[p][0] = word]
    BY <1>1, PhysParts
  <2>2. PICK m : m = map_create(q, rt, vpn, p, flags)
    OBVIOUS
  <2>3. m.phys \in Phys /\ m.root \in Root /\ m.res \in Res
    BY <2>n, <2>2, MapCreateType, FlagWords DEF IsResult
  <2>k. PICK k \in 1 .. Len(al) : k = Len(al) /\ a = al[k]
    BY <1>a
  <2>4. a.pages \in PageMaps /\ a.start_vpn \in Nat /\ a.end_vpn \in Nat /\ vpn \in Nat
        /\ DOMAIN a.pages \subseteq a.start_vpn .. a.end_vpn - 1
    BY AreaParts
  <2>5. PICK pages \in PageMaps : pages = Insert(a.pages, vpn, p) /\ DOMAIN pages = DOMAIN a.pages \cup {vpn}
    <3>1. PICK old \in PageMaps, v \in Nat : old = a.pages /\ v = vpn
      BY <2>4
    <3>2. Insert(old, v, p) \in PageMaps /\ DOMAIN Insert(old, v, p) = DOMAIN old \cup {v}
      BY InsertType
    <3> QED BY <3>1, <3>2
  <2>6. DOMAIN pages \subseteq al[k].start_vpn .. al[k].end_vpn - 1
    BY <2>4, <2>5, <2>k
  <2>7. PICK bs : bs = [al EXCEPT ![k].pages = pages]
    OBVIOUS
  <2>8. bs \in Seq(Area) /\ SameRanges(al, bs)
    BY <2>6, <2>7, SetPages DEF Repaged
  <2>9. out = VMResult(m.phys,
                       [s.space EXCEPT !.root_pgt = m.root,
                                       !.areas[Len(s.space.areas)].pages = Insert(@, vpn, r.page)],
                       m.res)
    BY <1>4, <1>a, <1>r, <2>p, <2>1, <2>2 DEF AnonymousPage, AnonymousFrame
  <2>10. [s.space EXCEPT !.root_pgt = m.root,
                         !.areas[Len(s.space.areas)].pages = Insert(@, vpn, r.page)]
           = [root_pgt |-> m.root, areas |-> bs]
    <3>1. PICK sp : sp = [root_pgt |-> rt, areas |-> al]
      OBVIOUS
    <3>2. sp.areas[k].pages = a.pages /\ sp.areas = al
      BY <3>1, <2>k
    <3>3. [sp EXCEPT !.root_pgt = m.root, !.areas[k].pages = Insert(@, vpn, p)]
            = [sp EXCEPT !.root_pgt = m.root, !.areas[k].pages = pages]
      BY <3>1, <3>2, <2>5
    <3>4. [sp EXCEPT !.root_pgt = m.root, !.areas[k].pages = pages] = [root_pgt |-> m.root, areas |-> bs]
      <4>1. PICK w : w = [root_pgt |-> m.root, areas |-> al]
        OBVIOUS
      <4>2. [sp EXCEPT !.root_pgt = m.root] = w
        BY <3>1, <4>1
      <4>3. [sp EXCEPT !.root_pgt = m.root, !.areas[k].pages = pages] = [w EXCEPT !.areas[k].pages = pages]
        BY <4>2, Zenon
      <4>a. w.areas = al
        BY <4>1
      <4>b. bs = [w.areas EXCEPT ![k].pages = pages]
        BY <4>a, <2>7
      <4>4. [w EXCEPT !.areas[k].pages = pages] = [w EXCEPT !.areas = bs]
        BY <4>b
      <4>5. [w EXCEPT !.areas = bs] = [root_pgt |-> m.root, areas |-> bs]
        BY <4>1
      <4> QED BY <4>3, <4>4, <4>5
    <3> QED BY <3>1, <3>3, <3>4, <1>a, <2>k, <2>p
  <2>11. out = VMResult(m.phys, [root_pgt |-> m.root, areas |-> bs], m.res)
    BY <2>9, <2>10
  <2>12. [root_pgt |-> m.root, areas |-> bs] \in Space
    BY <2>3, <2>8, StateParts
  <2>13. out \in State
    BY <2>3, <2>11, <2>12, StateParts
  <2>14. out.space.areas = bs
    BY <2>11 DEF VMResult
  <2>15. Laid(s, vpn, flags, word, out, p, m, bs)
    <3>1. bs = [al EXCEPT ![Len(al)].pages = Insert(al[Len(al)].pages, vpn, p)]
      BY <2>5, <2>7, <2>k
    <3> QED BY <3>1, <2>p, <2>1, <2>2, <2>11, <1>r, <1>a DEF Laid
  <2> QED BY <2>8, <2>13, <2>14, <2>15, <1>a
<1> QED BY <1>2, <1>3, <1>4

\* Division by the page size is monotone, and a bound below a multiple of it.
LEMMA PageDiv ==
    ASSUME NEW x \in Nat, NEW d \in Nat, d # 0
    PROVE  /\ x \div d \in Nat
           /\ (x + d) \div d = x \div d + 1
           /\ \A y \in Nat : x <= y => x \div d <= y \div d
           /\ \A q \in Nat : x < q * d + d => x \div d <= q
           /\ \A q \in Nat : x = q * d => x \div d = q
<1>1. PICK k \in Nat, r \in Nat : k = x \div d /\ r < d /\ x = k * d + r
  BY DivMod
<1>m. k * d \in Nat
  OBVIOUS
<1>2. (x + d) \div d = k + 1
  <2>1. x + d = (k + 1) * d + r
    BY <1>1
  <2>2. x + d \in Nat /\ k + 1 \in Nat
    OBVIOUS
  <2> QED BY <2>1, <2>2, <1>1, DivUnique
<1>3. ASSUME NEW q \in Nat, x < q * d + d PROVE k <= q
  <2>1. ASSUME q < k PROVE FALSE
    <3>1. q * d + d <= k * d /\ q * d \in Int
      BY <2>1, MulStep
    <3> QED BY <3>1, <1>3, <1>1, <1>m
  <2> QED BY <2>1
<1>4. ASSUME NEW y \in Nat, x <= y PROVE k <= y \div d
  <2>1. PICK j \in Nat, t \in Nat : j = y \div d /\ t < d /\ y = j * d + t
    BY DivMod
  <2>2. j * d \in Nat
    OBVIOUS
  <2>3. x < j * d + d
    BY <1>4, <2>1, <2>2
  <2> QED BY <1>3, <2>1, <2>3
<1>5. ASSUME NEW q \in Nat, x = q * d PROVE x \div d = q
  <2>1. x = q * d + 0
    BY <1>5, <1>m
  <2> QED BY <2>1, DivUnique
<1> QED BY <1>1, <1>2, <1>3, <1>4, <1>5

\* The loadable segments of a program.
Segs == [va : Nat, mem_size : Nat \ {0}, file_size : Nat, align : Nat \ {0},
         flags : SUBSET {"R", "W", "X"}]

\* create_area_from_ph makes an area that is not empty.
LEMMA SegmentAreaType ==
    ASSUME NEW seg \in Segs
    PROVE  SegmentArea(seg) \in Area
<1>1. PAGE_SIZE_BYTES \in Nat /\ PAGE_SIZE_BYTES # 0
  BY MemAssumption
<1>2. seg.va \in Nat /\ seg.mem_size \in Nat /\ seg.mem_size > 0 /\ seg.flags \in SUBSET {"R", "W", "X"}
  BY DEF Segs
<1>3. PICK x \in Nat, y \in Nat : /\ x = seg.va /\ y = seg.va + seg.mem_size + PAGE_SIZE_BYTES - 1
                                  /\ x + PAGE_SIZE_BYTES <= y
  BY <1>1, <1>2
<1>4. PICK z \in Nat : z = x + PAGE_SIZE_BYTES
  BY <1>1
<1>5. /\ x \div PAGE_SIZE_BYTES \in Nat /\ y \div PAGE_SIZE_BYTES \in Nat
      /\ z \div PAGE_SIZE_BYTES = x \div PAGE_SIZE_BYTES + 1
      /\ z \div PAGE_SIZE_BYTES <= y \div PAGE_SIZE_BYTES
  BY <1>1, <1>3, <1>4, PageDiv
<1>6. PICK s \in Nat, e \in Nat : s = VpnFromVa(seg.va) /\ s < e
                /\ e = VpnFromVa(seg.va + seg.mem_size + PAGE_SIZE_BYTES - 1)
  BY <1>3, <1>5 DEF VpnFromVa
<1>7. seg.flags \cup {"U"} \in Flags
  BY <1>2 DEF Flags
<1>8. VMArea(s, e, "Anonymous", seg.flags \cup {"U"}) \in Area
  BY <1>6, <1>7, NewAreaType
<1> QED BY <1>6, <1>8 DEF SegmentArea

LEMMA SameTrans ==
    ASSUME NEW a, NEW b, NEW c, SameRanges(a, b), SameRanges(b, c)
    PROVE  SameRanges(a, c)
BY DEF SameRanges

\* What a page of a segment holds of the file.
SegmentData(seg, k, word) == IF k * PAGE_SIZE_BYTES < seg.file_size THEN word ELSE Pte0

\* g are the states the loop over the pages of a segment goes through.
SegmentRun(g, s, seg, word, out) ==
    LET area == SegmentArea(seg)
        N    == area.end_vpn - area.start_vpn
    IN  /\ PAGE_SIZE_BYTES % seg.align = 0
        /\ g[0] = AddArea(s, area)
        /\ \A n \in 0 .. N - 1 :
              g[n + 1] = AnonymousPage(g[n], area.start_vpn + (n + 1) - 1,
                                       to_pte_flags(area.permissions), SegmentData(seg, n, word))
        /\ out = g[N]
        /\ \A n \in 0 .. N :
              g[n] \in State /\ SameRanges(Append(s.space.areas, area), g[n].space.areas)

\* A segment becomes an area behind the others.
LEMMA SegmentType ==
    ASSUME NEW s \in State, NEW seg \in Segs, NEW word \in Words,
           NEW out, out = map_user_elf_segment(s, seg, word)
    PROVE  /\ out \in State
           /\ out.res = "Ok" => /\ s.res = "Ok"
                                /\ SameRanges(Append(s.space.areas, SegmentArea(seg)), out.space.areas)
           /\ \/ s.res # "Ok" /\ out = s
              \/ PAGE_SIZE_BYTES % seg.align # 0 /\ out.res = "AlignDataFailed"
              \/ \E g : SegmentRun(g, s, seg, word, out)
<1>a. PICK area \in Area : area = SegmentArea(seg)
  BY SegmentAreaType
<1>f. PICK flags \in SUBSET {"V", "R", "W", "X", "U"} : flags = to_pte_flags(area.permissions)
  BY AreaParts, FlagWords
<1>n. PICK N \in Nat : N = area.end_vpn - area.start_vpn /\ area.start_vpn \in Nat /\ area.end_vpn \in Nat
  BY AreaParts
<1> DEFINE Data(k) == IF k * PAGE_SIZE_BYTES < seg.file_size THEN word ELSE Pte0
           Step(n, x) == AnonymousPage(x, area.start_vpn + (n + 1) - 1, flags, Data(n))
           u == AddArea(s, area)
           D == {x \in State : SameRanges(Append(s.space.areas, area), x.space.areas)}
           loop[k \in 0 .. N] == IF k = 0 THEN AddArea(s, area)
                                 ELSE AnonymousPage(loop[k - 1], area.start_vpn + k - 1, flags, Data(k - 1))
<1>1. CASE s.res # "Ok"
  BY <1>1 DEF map_user_elf_segment
<1>2. CASE s.res = "Ok" /\ PAGE_SIZE_BYTES % seg.align # 0
  <2>1. out = [s EXCEPT !.res = "AlignDataFailed"]
    BY <1>2 DEF map_user_elf_segment
  <2>2. PICK ph \in Phys, sp \in Space, res \in Res : s = [phys |-> ph, space |-> sp, res |-> res]
    BY StateParts DEF VMResult
  <2>3. out = [phys |-> ph, space |-> sp, res |-> "AlignDataFailed"]
    BY <2>1, <2>2
  <2>4. out \in State
    BY <2>3 DEF State, Res
  <2> QED BY <2>3, <2>4, <1>2
<1>3. CASE s.res = "Ok" /\ PAGE_SIZE_BYTES % seg.align = 0
  <2>1. out = loop[N]
    BY <1>3, <1>a, <1>f, <1>n DEF map_user_elf_segment
  <2>u. u \in D
    <3>1. u \in State /\ u.space.areas = Append(s.space.areas, area)
      BY AddAreaType
    <3> HIDE DEF u
    <3> QED BY <3>1 DEF SameRanges
  <2>2. \A n \in 0 .. N - 1, x \in D : Step(n, x) \in D
    <3> TAKE n \in 0 .. N - 1, x \in D
    <3>1. x \in State /\ SameRanges(Append(s.space.areas, area), x.space.areas)
      OBVIOUS
    <3>2. PICK al \in Seq(Area), bs \in Seq(Area) : /\ al = Append(s.space.areas, area) /\ bs = x.space.areas
                                                    /\ Len(al) > 0 /\ al[Len(al)] = area
      <4>1. s.space.areas \in Seq(Area) /\ x.space.areas \in Seq(Area)
        BY <3>1, StateParts
      <4>2. PICK l \in Seq(Area) : l = s.space.areas
        BY <4>1
      <4>3. Append(l, area) \in Seq(Area) /\ Len(Append(l, area)) > 0
            /\ Append(l, area)[Len(Append(l, area))] = area
        OBVIOUS
      <4> QED BY <4>1, <4>2, <4>3
    <3>3. PICK k \in 1 .. Len(bs) : k = Len(bs) /\ Len(bs) > 0
      BY <3>1, <3>2 DEF SameRanges
    <3>4. PICK a \in Area : a = bs[k]
      OBVIOUS
    <3>5. a.start_vpn = area.start_vpn /\ a.end_vpn = area.end_vpn
      BY <3>1, <3>2, <3>3, <3>4 DEF SameRanges
    <3>6. PICK vpn \in a.start_vpn .. a.end_vpn - 1 : vpn = area.start_vpn + (n + 1) - 1
      <4>1. PICK b \in Nat, e \in Nat : b = area.start_vpn /\ e = area.end_vpn /\ N = e - b
        BY <1>n
      <4>2. b + (n + 1) - 1 \in b .. e - 1
        <5>1. n \in Nat /\ n + 1 <= e - b
          BY <4>1
        <5>2. \A i, j, m \in Nat : i + 1 <= m - j => j + (i + 1) - 1 \in j .. m - 1
          OBVIOUS
        <5> QED BY <5>1, <5>2
      <4> QED BY <4>1, <4>2, <3>5
    <3>7. PICK w \in Words : w = Data(n)
      BY WordTypes
    <3> HIDE DEF Data
    <3>8. PICK y : y = AnonymousPage(x, vpn, flags, w)
      OBVIOUS
    <3>9. y \in State /\ SameRanges(x.space.areas, y.space.areas)
      BY <3>1, <3>2, <3>3, <3>4, <3>8, AnonymousPageType
    <3>10. SameRanges(Append(s.space.areas, area), y.space.areas)
      BY <3>1, <3>9, SameTrans
    <3> QED BY <3>6, <3>7, <3>8, <3>9, <3>10
  <2> HIDE DEF u, D
  <2>3. PICK f : f = [k \in 0 .. N |-> IF k = 0 THEN u
                        ELSE AnonymousPage(f[k - 1], area.start_vpn + k - 1, flags, Data(k - 1))]
    <3>1. PICK E : E = [n \in 0 .. N |-> D]
      OBVIOUS
    <3>2. PICK S : S = [n \in 0 .. N - 1 |-> [x \in D |-> Step(n, x)]]
      OBVIOUS
    <3>3. u \in E[0]
      BY <3>1, <2>u
    <3>4. Turns(S, N, E)
      <4> HIDE DEF Step
      <4> QED BY <3>1, <3>2, <2>2 DEF Turns
    <3>5. PICK f : Run(f, S, N, E, u)
      BY <3>3, <3>4, LoopRuns
    <3>6. \A n \in 0 .. N : f[n] \in D
      BY <3>5, <3>1 DEF Run
    <3> HIDE DEF Data
    <3>7. ASSUME NEW k \in 0 .. N, k # 0
          PROVE  S[k - 1][f[k - 1]] = AnonymousPage(f[k - 1], area.start_vpn + k - 1, flags, Data(k - 1))
      <4>1. k - 1 \in 0 .. N - 1 /\ (k - 1) + 1 = k /\ f[k - 1] \in D
        BY <3>7, <3>6
      <4>2. S[k - 1][f[k - 1]] = Step(k - 1, f[k - 1])
        BY <3>2, <4>1
      <4> QED BY <4>1, <4>2
    <3>8. f = [k \in 0 .. N |-> IF k = 0 THEN u
                 ELSE AnonymousPage(f[k - 1], area.start_vpn + k - 1, flags, Data(k - 1))]
      BY <3>5, <3>7 DEF Run
    <3> QED BY <3>8
  <2> HIDE DEF Data
  <2>4. loop = [k \in 0 .. N |-> IF k = 0 THEN AddArea(s, area)
                   ELSE AnonymousPage(loop[k - 1], area.start_vpn + k - 1, flags, Data(k - 1))]
    BY <2>3 DEF u
  <2>5. PICK g : /\ g = loop
                 /\ g = [k \in 0 .. N |-> IF k = 0 THEN u
                           ELSE AnonymousPage(g[k - 1], area.start_vpn + k - 1, flags, Data(k - 1))]
    BY <2>4 DEF u
  <2> HIDE DEF loop
  <2>6. ASSUME NEW n \in 0 .. N - 1 PROVE g[n + 1] = Step(n, g[n])
    <3>1. n + 1 \in 0 .. N /\ n + 1 # 0 /\ (n + 1) - 1 = n
      OBVIOUS
    <3> QED BY <2>5, <3>1
  <2>7. g[0] = u
    BY <2>5
  <2> HIDE DEF Step
  <2>8. \A n \in 0 .. N : g[n] \in D
    <3>1. PICK E : E = [n \in 0 .. N |-> D]
      OBVIOUS
    <3>2. g[0] \in E[0]
      BY <3>1, <2>7, <2>u
    <3>3. ASSUME NEW n \in 0 .. N - 1, g[n] \in E[n] PROVE g[n + 1] \in E[n + 1]
      <4>1. E[n] = D /\ E[n + 1] = D
        BY <3>1
      <4> QED BY <4>1, <3>3, <2>2, <2>6
    <3>4. \A n \in 0 .. N : g[n] \in E[n]
      BY <3>2, <3>3, LoopStays
    <3> QED BY <3>1, <3>4
  <2>9. out \in D
    BY <2>1, <2>5, <2>8
  <2>10. SegmentRun(g, s, seg, word, out)
    <3>1. \A n \in 0 .. N - 1 :
             g[n + 1] = AnonymousPage(g[n], area.start_vpn + (n + 1) - 1, flags, SegmentData(seg, n, word))
      BY <2>6 DEF Step, Data, SegmentData
    <3>2. \A n \in 0 .. N : g[n] \in State /\ SameRanges(Append(s.space.areas, area), g[n].space.areas)
      BY <2>8 DEF D
    <3>3. out = g[N] /\ g[0] = AddArea(s, area)
      BY <2>1, <2>5, <2>7 DEF u
    <3> QED BY <3>1, <3>2, <3>3, <1>3, <1>a, <1>f, <1>n DEF SegmentRun
  <2> QED BY <2>9, <2>10, <1>3, <1>a DEF D
<1> QED BY <1>1, <1>2, <1>3

\* Unless a step has failed, the first i segments have their areas.
Placed(s, i) ==
    s.res = "Ok" =>
        /\ Len(s.space.areas) = i
        /\ \A j \in 1 .. i : /\ s.space.areas[j].start_vpn = SegmentArea(Elf[j]).start_vpn
                             /\ s.space.areas[j].end_vpn = SegmentArea(Elf[j]).end_vpn

LEMMA PlacedNext ==
    ASSUME NEW s \in State, NEW i \in 0 .. Len(Elf) - 1, Placed(s, i), NEW word \in Words,
           NEW out, out = map_user_elf_segment(s, Elf[i + 1], word)
    PROVE  out \in State /\ Placed(out, i + 1)
<1>e. Elf \in Seq(Segs) /\ Len(Elf) \in Nat
  BY ElfAssumption DEF Segs
<1>1. PICK seg \in Segs : seg = Elf[i + 1]
  BY <1>e
<1>a. PICK area \in Area : area = SegmentArea(seg)
  BY SegmentAreaType
<1>2. out \in State /\ (out.res = "Ok" => /\ s.res = "Ok"
                                         /\ SameRanges(Append(s.space.areas, area), out.space.areas))
  BY <1>1, <1>a, SegmentType
<1>3. ASSUME out.res = "Ok" PROVE Placed(out, i + 1)
  <2>1. PICK al \in Seq(Area) : al = s.space.areas
    BY StateParts
  <2>2. PICK bs \in Seq(Area), cs \in {out.space.areas} : bs = Append(al, area) /\ cs = out.space.areas
    BY AddedArea
  <2>3. Len(al) = i /\ \A j \in 1 .. i : /\ al[j].start_vpn = SegmentArea(Elf[j]).start_vpn
                                         /\ al[j].end_vpn = SegmentArea(Elf[j]).end_vpn
    BY <1>2, <1>3, <2>1 DEF Placed
  <2>4. Len(bs) = i + 1 /\ bs[i + 1] = area /\ \A j \in 1 .. i : bs[j] = al[j]
    BY <2>2, <2>3, AddedArea
  <2>5. SameRanges(bs, cs)
    BY <1>2, <1>3, <2>1, <2>2
  <2>6. ASSUME NEW j \in 1 .. i + 1
        PROVE  /\ cs[j].start_vpn = SegmentArea(Elf[j]).start_vpn
               /\ cs[j].end_vpn = SegmentArea(Elf[j]).end_vpn
    <3>1. cs[j].start_vpn = bs[j].start_vpn /\ cs[j].end_vpn = bs[j].end_vpn
      BY <2>4, <2>5 DEF SameRanges
    <3>2. CASE j = i + 1
      BY <3>1, <3>2, <2>4, <1>a, <1>1
    <3>3. CASE j \in 1 .. i
      BY <3>1, <3>3, <2>3, <2>4
    <3> QED BY <3>2, <3>3, <1>e
  <2>7. Len(cs) = i + 1
    BY <2>4, <2>5 DEF SameRanges
  <2> QED BY <2>2, <2>6, <2>7 DEF Placed
<1> QED BY <1>2, <1>3 DEF Placed

\* g are the states the loop over the segments goes through.
ElfRun(g, s, word, out) ==
    /\ g[0] = s
    /\ \A n \in 0 .. Len(Elf) - 1 : g[n + 1] = map_user_elf_segment(g[n], Elf[n + 1], word)
    /\ out = g[Len(Elf)]
    /\ \A n \in 0 .. Len(Elf) : g[n] \in State /\ Placed(g[n], n)

LEMMA ElfType ==
    ASSUME NEW s \in State, s.space.areas = << >>, NEW word \in Words,
           NEW out, out = map_user_elf(s, Elf, word)
    PROVE  out \in State /\ Placed(out, Len(Elf)) /\ \E g : ElfRun(g, s, word, out)
<1>n. PICK N \in Nat : N = Len(Elf)
  BY ElfAssumption
<1> DEFINE Step(n, x) == map_user_elf_segment(x, Elf[n + 1], word)
           loop[i \in 0 .. N] == IF i = 0 THEN s ELSE map_user_elf_segment(loop[i - 1], Elf[i], word)
<1>1. out = loop[N]
  BY <1>n DEF map_user_elf
<1>E. PICK E : E = [n \in 0 .. N |-> {x \in State : Placed(x, n)}]
  OBVIOUS
<1>e. \A n \in 0 .. N : \A x : x \in E[n] <=> x \in State /\ Placed(x, n)
  BY <1>E
<1>u. s \in E[0]
  <2>1. Placed(s, 0)
    BY DEF Placed
  <2> QED BY <2>1, <1>e
<1>2. ASSUME NEW n \in 0 .. N - 1, NEW x \in E[n] PROVE Step(n, x) \in E[n + 1]
  <2>1. x \in State /\ Placed(x, n) /\ n + 1 \in 0 .. N /\ n \in 0 .. Len(Elf) - 1
    BY <1>e, <1>n
  <2>2. PICK y : y = map_user_elf_segment(x, Elf[n + 1], word)
    OBVIOUS
  <2>3. y \in State /\ Placed(y, n + 1)
    BY <2>1, <2>2, PlacedNext
  <2> QED BY <2>1, <2>2, <2>3, <1>e
<1>3. PICK f : f = [i \in 0 .. N |-> IF i = 0 THEN s ELSE map_user_elf_segment(f[i - 1], Elf[i], word)]
  <2>2. PICK S : S = [n \in 0 .. N - 1 |-> [x \in E[n] |-> Step(n, x)]]
    OBVIOUS
  <2>4. Turns(S, N, E)
    <3> HIDE DEF Step
    <3> QED BY <2>2, <1>2 DEF Turns
  <2>5. PICK f : Run(f, S, N, E, s)
    BY <1>u, <2>4, LoopRuns
  <2>6. \A n \in 0 .. N : f[n] \in E[n]
    BY <2>5 DEF Run
  <2>7. ASSUME NEW i \in 0 .. N, i # 0 PROVE S[i - 1][f[i - 1]] = map_user_elf_segment(f[i - 1], Elf[i], word)
    <3>1. i - 1 \in 0 .. N - 1 /\ i - 1 \in 0 .. N /\ (i - 1) + 1 = i
      BY <2>7
    <3>a. f[i - 1] \in E[i - 1]
      BY <3>1, <2>6
    <3>2. S[i - 1][f[i - 1]] = Step(i - 1, f[i - 1])
      BY <2>2, <3>1, <3>a
    <3> QED BY <3>1, <3>2
  <2>8. f = [i \in 0 .. N |-> IF i = 0 THEN s ELSE map_user_elf_segment(f[i - 1], Elf[i], word)]
    BY <2>5, <2>7 DEF Run
  <2> QED BY <2>8
<1>4. loop = [i \in 0 .. N |-> IF i = 0 THEN s ELSE map_user_elf_segment(loop[i - 1], Elf[i], word)]
  BY <1>3
<1>5. PICK g : g = loop
               /\ g = [i \in 0 .. N |-> IF i = 0 THEN s ELSE map_user_elf_segment(g[i - 1], Elf[i], word)]
  BY <1>4
<1> HIDE DEF loop
<1>6. ASSUME NEW n \in 0 .. N - 1 PROVE g[n + 1] = Step(n, g[n])
  <2>1. n + 1 \in 0 .. N /\ n + 1 # 0 /\ (n + 1) - 1 = n
    OBVIOUS
  <2> QED BY <1>5, <2>1
<1>7. g[0] = s
  BY <1>5
<1> HIDE DEF Step
<1>8. \A n \in 0 .. N : g[n] \in E[n]
  BY <1>7, <1>u, <1>2, <1>6, LoopStays
<1>9. out \in E[N]
  BY <1>1, <1>5, <1>8
<1>10. ElfRun(g, s, word, out)
  <2>1. \A n \in 0 .. N - 1 : g[n + 1] = map_user_elf_segment(g[n], Elf[n + 1], word)
    BY <1>6 DEF Step
  <2>2. \A n \in 0 .. N : g[n] \in State /\ Placed(g[n], n)
    BY <1>8, <1>e
  <2> QED BY <2>1, <2>2, <1>1, <1>5, <1>7, <1>n DEF ElfRun
<1> QED BY <1>9, <1>10, <1>e, <1>n

\* Where the stack starts.
StackStart == VpnFromVa(USER_SPACE_END - USER_STACK_MAX_SIZE_BYTES)

\* The stack is not empty and ends with user space; a range of bytes that ends
\* below the stack has its last page there, too.
LEMMA UserRange ==
    /\ StackStart \in Nat /\ USER_END_VPN \in Nat /\ StackStart < USER_END_VPN
    /\ VpnFromVa(USER_SPACE_END) = USER_END_VPN
    /\ \A x \in Nat : x <= USER_SPACE_END - USER_STACK_MAX_SIZE_BYTES =>
          VpnFromVa(x + PAGE_SIZE_BYTES - 1) <= StackStart
<1>1. PICK d \in Nat : d = PAGE_SIZE_BYTES /\ d > 0
  BY MemAssumption
<1>2. PICK m \in Nat : m = KERNEL_ROOT * ROOT_SPAN /\ m >= 1
  <2>1. KERNEL_ROOT \in Nat /\ ROOT_SPAN \in Nat /\ 1 <= KERNEL_ROOT /\ 1 <= ROOT_SPAN
    BY Shape
  <2>2. KERNEL_ROOT * ROOT_SPAN \in Nat /\ KERNEL_ROOT * ROOT_SPAN >= 1
    BY <2>1
  <2> QED BY <2>2
<1>3. PICK q \in Nat : q = m - 1 /\ q = USER_END_VPN
  BY <1>2 DEF USER_END_VPN
<1>4. USER_SPACE_END = q * d /\ q * d \in Nat
  <2>1. USER_SPACE_END = m * d - d
    BY <1>1, <1>2 DEF USER_SPACE_END, SV39_HALF
  <2>2. m * d = q * d + d /\ q * d \in Nat
    BY <1>2, <1>3
  <2> QED BY <2>1, <2>2
<1>5. PICK b \in Nat : b = USER_STACK_MAX_SIZE_BYTES /\ b > 0 /\ b % d = 0 /\ b <= q * d
  BY <1>1, <1>4, VMAssumption
<1>6. PICK k \in Nat : b = k * d
  <2>1. b \div d \in Nat /\ b = (b \div d) * d + (b % d)
    BY <1>1, DivMod
  <2>2. PICK k \in Nat : k = b \div d
    BY <2>1
  <2>3. b = k * d + 0 /\ k * d \in Nat
    BY <2>1, <2>2, <1>5, <1>1
  <2> QED BY <2>3
<1>7. 1 <= k /\ k <= q
  <2>1. ASSUME q < k PROVE FALSE
    <3>1. q * d + d <= k * d /\ k * d \in Int
      BY <2>1, MulStep
    <3> QED BY <3>1, <1>5, <1>6, <1>4, <1>1
  <2>2. k # 0
    BY <1>5, <1>6
  <2> QED BY <2>1, <2>2
<1>8. PICK p \in Nat : p = q - k /\ p < q /\ USER_SPACE_END - USER_STACK_MAX_SIZE_BYTES = p * d /\ p * d \in Nat
  <2>1. PICK p \in Nat : p = q - k
    BY <1>7
  <2>2. p * d = q * d - k * d /\ p * d \in Nat
    BY <2>1
  <2> QED BY <2>1, <2>2, <1>4, <1>5, <1>6, <1>7
<1>9. VpnFromVa(USER_SPACE_END) = q
  BY <1>1, <1>4, PageDiv DEF VpnFromVa
<1>10. StackStart = p
  <2>1. PICK y \in Nat : y = p * d
    BY <1>8
  <2>2. y \div d = p
    BY <2>1, <1>1, PageDiv
  <2> QED BY <1>1, <1>8, <2>1, <2>2 DEF VpnFromVa, StackStart
<1>11. ASSUME NEW x \in Nat, x <= p * d PROVE VpnFromVa(x + d - 1) <= p
  <2>1. PICK y \in Nat : y = x + d - 1
    BY <1>1
  <2>2. y < p * d + d
    BY <2>1, <1>11, <1>1, <1>8
  <2>3. y \div d <= p
    BY <2>2, <1>1, PageDiv
  <2> QED BY <2>1, <2>3, <1>1 DEF VpnFromVa
<1> QED BY <1>1, <1>3, <1>8, <1>9, <1>10, <1>11

\* The user stack gets an area behind the others.
LEMMA UserStackType ==
    ASSUME NEW s \in State, NEW out, out = add_user_stack_area(s)
    PROVE  /\ out \in State
           /\ out.res = "Ok" =>
                 /\ s.res = "Ok"
                 /\ \E x \in Area : /\ x.start_vpn = StackStart /\ x.end_vpn = USER_END_VPN
                                    /\ SameRanges(Append(s.space.areas, x), out.space.areas)
<1>1. CASE s.res # "Ok"
  BY <1>1 DEF add_user_stack_area
<1>2. CASE s.res = "Ok"
  <2>1. {"R", "W", "U"} \in Flags
    BY DEF Flags
  <2>2. PICK x : x = VMArea(StackStart, USER_END_VPN, "Anonymous", {"R", "W", "U"})
    OBVIOUS
  <2>3. x \in Area /\ x.start_vpn = StackStart /\ x.end_vpn = USER_END_VPN /\ x.permissions = {"R", "W", "U"}
    BY <2>1, <2>2, UserRange, NewAreaType
  <2>4. PICK f \in SUBSET {"V", "R", "W", "X", "U"} : f = to_pte_flags(x.permissions)
    BY <2>1, <2>3, FlagWords
  <2>5. PICK w \in State : /\ w = AddArea(s, x) /\ w.space.areas = Append(s.space.areas, x)
    BY <2>3, AddAreaType
  <2>6. out = AnonymousPage(w, USER_END_VPN - 1, f, Pte0)
    BY <1>2, <2>2, <2>4, <2>5, UserRange DEF add_user_stack_area, StackStart
  <2>7. Len(w.space.areas) > 0 /\ x = w.space.areas[Len(w.space.areas)]
    <3>1. PICK al \in Seq(Area) : al = s.space.areas
      BY StateParts
    <3> QED BY <3>1, <2>3, <2>5
  <2>8. USER_END_VPN - 1 \in x.start_vpn .. x.end_vpn - 1
    BY <2>3, UserRange
  <2>9. out \in State /\ SameRanges(w.space.areas, out.space.areas)
    BY <2>3, <2>6, <2>7, <2>8, WordTypes, AnonymousPageType
  <2> QED BY <1>2, <2>3, <2>5, <2>9
<1> QED BY <1>1, <1>2

\* So does the kernel stack, in the kernel half.
LEMMA KernelStackType ==
    ASSUME NEW s \in State, NEW out, out = add_kernel_stack_area(s), out.res = "Ok"
    PROVE  /\ out \in State /\ s.res = "Ok"
           /\ \E x \in Area : /\ USER_END_VPN <= x.start_vpn
                              /\ out.space.areas = Append(s.space.areas, x)
<1>1. s.res = "Ok"
  BY DEF add_kernel_stack_area
<1>s. PICK ph \in Phys, sp \in Space, res \in Res : s = [phys |-> ph, space |-> sp, res |-> res]
  BY StateParts DEF VMResult
<1>r. PICK r : r = alloc_page(ph.alloc)
  OBVIOUS
<1>2. r.allocator \in Alloc /\ r.page \in PPN \cup {NONE}
  BY <1>r, AllocType, PhysParts
<1>3. r.page # NONE
  <2>1. ASSUME r.page = NONE PROVE FALSE
    <3>1. out = [s EXCEPT !.res = "AcquirePageFailed"]
      BY <2>1, <1>1, <1>r, <1>s DEF add_kernel_stack_area
    <3>2. out.res = "AcquirePageFailed"
      BY <3>1, <1>s
    <3> QED BY <3>2
  <2> QED BY <2>1
<1>4. PICK p \in PPN : p = r.page /\ p \in Nat
  BY <1>2, <1>3, PageNumbers
<1>5. PICK vpn \in Nat : vpn = KernelVpn(p) /\ USER_END_VPN <= vpn
  <2>1. PICK m \in Nat : m = KERNEL_ROOT * ROOT_SPAN
    <3>1. KERNEL_ROOT \in Nat /\ ROOT_SPAN \in Nat
      BY Shape
    <3> QED BY <3>1
  <2> QED BY <2>1, <1>4 DEF KernelVpn, USER_END_VPN
<1>6. PICK a \in Area : /\ a = VMArea(vpn, vpn + 1, "KernelVaOffset", {"R", "W"})
                        /\ a.start_vpn = vpn /\ a.end_vpn = vpn + 1
  <2>1. {"R", "W"} \in Flags
    BY DEF Flags
  <2> QED BY <2>1, NewAreaType
<1>7. PICK pages \in PageMaps : pages = Insert(NoPages, vpn, p) /\ DOMAIN pages = {vpn}
  <2>1. PICK none \in PageMaps : none = NoPages /\ DOMAIN none = {}
    BY NoPagesType
  <2>2. PICK z \in PageMaps : z = Insert(none, vpn, p) /\ DOMAIN z = DOMAIN none \cup {vpn}
    BY InsertType
  <2>3. DOMAIN z = {vpn}
    BY <2>1, <2>2
  <2> QED BY <2>1, <2>2, <2>3
<1>8. PICK x : x = KernelStackArea(p) /\ x = [a EXCEPT !.pages = pages]
  BY <1>5, <1>6, <1>7 DEF KernelStackArea
<1>9. x \in Area /\ x.start_vpn = vpn
  <2>1. DOMAIN pages \subseteq a.start_vpn .. a.end_vpn - 1
    BY <1>6, <1>7
  <2> QED BY <2>1, <1>6, <1>8, AreaPages
<1>10. PICK w \in State : w = [s EXCEPT !.phys.alloc = r.allocator] /\ w.space = s.space
  <2>1. PICK q \in Phys : q = [ph EXCEPT !.alloc = r.allocator]
    BY <1>2, PhysParts
  <2>2. [s EXCEPT !.phys.alloc = r.allocator] = [phys |-> q, space |-> sp, res |-> res]
    BY <2>1, <1>s
  <2>3. [phys |-> q, space |-> sp, res |-> res] \in State
    BY DEF State
  <2> QED BY <2>2, <2>3, <1>s
<1>11. out = AddArea(w, x)
  BY <1>1, <1>3, <1>4, <1>8, <1>10, <1>r, <1>s DEF add_kernel_stack_area
<1>12. out \in State /\ out.space.areas = Append(w.space.areas, x)
  BY <1>9, <1>11, AddAreaType
<1> QED BY <1>1, <1>5, <1>9, <1>10, <1>12

\* A new space: the segments, the user stack and the kernel stack lie apart.
LEMMA NewUserType ==
    ASSUME NEW ph \in Phys, NEW satp \in PPN, NEW word \in Words,
           NEW out, out = new_user(ph, satp, Elf, word), out.res = "Ok"
    PROVE  out.phys \in Phys /\ out.space \in Space /\ Apart(out.space.areas)
<1>r. PICK r : r = new_copy(ph, ph.mem[satp])
  OBVIOUS
<1>1. r.res = "Ok"
  BY <1>r DEF new_user, VMResult
<1>2. r.phys \in Phys /\ r.root \in Root
  BY <1>r, <1>1, NewCopyType
<1>3. PICK s0 \in State : /\ s0 = VMResult(r.phys, [root_pgt |-> r.root, areas |-> << >>], "Ok")
                          /\ s0.space.areas = << >>
  <2>1. << >> \in Seq(Area) /\ "Ok" \in Res
    BY DEF Res
  <2>2. PICK e \in Seq(Area) : e = << >>
    BY <2>1
  <2>3. [root_pgt |-> r.root, areas |-> e] \in Space
    BY <1>2, StateParts
  <2>4. VMResult(r.phys, [root_pgt |-> r.root, areas |-> e], "Ok") \in State
    BY <1>2, <2>1, <2>3, StateParts
  <2> QED BY <2>2, <2>4 DEF VMResult
<1>4. PICK s1, s2 : s1 = map_user_elf(s0, Elf, word) /\ s2 = add_user_stack_area(s1)
  OBVIOUS
<1>5. out = add_kernel_stack_area(s2)
  BY <1>1, <1>3, <1>4, <1>r DEF new_user
<1>6. s1 \in State /\ Placed(s1, Len(Elf))
  BY <1>3, <1>4, ElfType
<1>7. s2 \in State
  BY <1>4, <1>6, UserStackType
<1>8. out \in State /\ s2.res = "Ok"
  BY <1>5, <1>7, KernelStackType
<1>9. PICK y \in Area : USER_END_VPN <= y.start_vpn /\ out.space.areas = Append(s2.space.areas, y)
  BY <1>5, <1>7, KernelStackType
<1>10. s1.res = "Ok"
  BY <1>4, <1>6, <1>8, UserStackType
<1>11. PICK x \in Area : /\ x.start_vpn = StackStart /\ x.end_vpn = USER_END_VPN
                         /\ SameRanges(Append(s1.space.areas, x), s2.space.areas)
  BY <1>4, <1>6, <1>8, UserStackType
<1>12. PICK al \in Seq(Area), bs \in Seq(Area), cs \in Seq(Area) :
          al = s1.space.areas /\ bs = Append(al, x) /\ cs = s2.space.areas
  <2>1. s1.space.areas \in Seq(Area) /\ s2.space.areas \in Seq(Area)
    BY <1>6, <1>7, StateParts
  <2>2. PICK al \in Seq(Area) : al = s1.space.areas
    BY <2>1
  <2>3. Append(al, x) \in Seq(Area)
    BY AddedArea
  <2> QED BY <2>1, <2>2, <2>3
<1>e. Elf \in Seq(Segs) /\ Len(Elf) \in Nat
  BY ElfAssumption DEF Segs
<1>13. Len(al) = Len(Elf) /\ \A j \in 1 .. Len(Elf) :
          al[j].start_vpn = SegmentArea(Elf[j]).start_vpn /\ al[j].end_vpn = SegmentArea(Elf[j]).end_vpn
  BY <1>6, <1>10, <1>12 DEF Placed
<1>14. Apart(al)
  <2>1. ASSUME NEW i \in 1 .. Len(al), NEW j \in 1 .. Len(al), i # j
        PROVE  al[i].end_vpn <= al[j].start_vpn \/ al[j].end_vpn <= al[i].start_vpn
    <3>1. i \in DOMAIN Elf /\ j \in DOMAIN Elf /\ i \in 1 .. Len(Elf) /\ j \in 1 .. Len(Elf)
      BY <1>13, <1>e
    <3>2. \/ SegmentArea(Elf[i]).end_vpn <= SegmentArea(Elf[j]).start_vpn
          \/ SegmentArea(Elf[j]).end_vpn <= SegmentArea(Elf[i]).start_vpn
      BY <3>1, <2>1, ElfAssumption
    <3> QED BY <3>1, <3>2, <1>13
  <2> QED BY <2>1 DEF Apart
<1>15. \A j \in 1 .. Len(al) : al[j].end_vpn <= StackStart
  <2> TAKE j \in 1 .. Len(al)
  <2>1. j \in 1 .. Len(Elf) /\ j \in DOMAIN Elf
    BY <1>13, <1>e
  <2>2. PICK seg \in Segs : seg = Elf[j]
    BY <2>1, <1>e
  <2>3. seg.va \in Nat /\ seg.mem_size \in Nat
    BY DEF Segs
  <2>4. seg.va + seg.mem_size <= USER_SPACE_END - USER_STACK_MAX_SIZE_BYTES
    BY <2>1, <2>2, ElfAssumption
  <2>5. PICK b \in Nat : b = seg.va + seg.mem_size
    BY <2>3
  <2>6. VpnFromVa(b + PAGE_SIZE_BYTES - 1) <= StackStart
    BY <2>4, <2>5, UserRange
  <2>7. SegmentArea(seg).end_vpn = VpnFromVa(b + PAGE_SIZE_BYTES - 1)
    BY <2>5 DEF SegmentArea, VMArea
  <2> QED BY <2>1, <2>2, <2>6, <2>7, <1>13
<1>16. Apart(bs)
  BY <1>11, <1>12, <1>14, <1>15, AddedApart
<1>17. Apart(cs)
  BY <1>11, <1>12, <1>16, SameApart
<1>18. \A j \in 1 .. Len(bs) : bs[j].end_vpn <= USER_END_VPN
  <2> TAKE j \in 1 .. Len(bs)
  <2>1. Len(bs) = Len(al) + 1 /\ bs[Len(bs)] = x /\ Len(al) \in Nat /\ \A i \in 1 .. Len(al) : bs[i] = al[i]
    BY <1>12, AddedArea
  <2>2. CASE j = Len(bs)
    BY <2>1, <2>2, <1>11, UserRange
  <2>3. CASE j \in 1 .. Len(al)
    <3>1. PICK a \in Area : a = al[j]
      BY <2>3
    <3>2. a.end_vpn \in Nat /\ a.end_vpn <= StackStart
      BY <3>1, <2>3, <1>15, AreaParts
    <3> QED BY <2>1, <2>3, <3>1, <3>2, UserRange
  <2> QED BY <2>1, <2>2, <2>3
<1>19. \A j \in 1 .. Len(cs) : cs[j].end_vpn <= y.start_vpn
  <2> TAKE j \in 1 .. Len(cs)
  <2>1. j \in 1 .. Len(bs) /\ cs[j].end_vpn = bs[j].end_vpn
    BY <1>11, <1>12 DEF SameRanges
  <2>2. PICK a \in Area : a = bs[j]
    BY <2>1
  <2>3. a.end_vpn \in Nat /\ y.start_vpn \in Nat
    BY AreaParts
  <2> QED BY <2>1, <2>2, <2>3, <1>9, <1>18, UserRange
<1>20. Apart(Append(cs, y))
  BY <1>17, <1>19, AddedApart
<1> QED BY <1>8, <1>9, <1>12, <1>20, StateParts
-----------------------------------------------------------------------------
(* mmap and page faults.                                                   *)

\* add_new_area compares the new area with every other one.
LEMMA AddNewAreaType ==
    ASSUME NEW sp \in Space, Apart(sp.areas), NEW s \in Nat, NEW e \in Nat, NEW f \in Flags,
           NEW out, out = add_new_area(sp, s, e, "Anonymous", f)
    PROVE  out.space \in Space /\ Apart(out.space.areas)
<1> DEFINE Added ==
        /\ s < e
        /\ \A i \in DOMAIN sp.areas : ~is_overlapping(sp.areas[i], s, e)
        /\ out.space = [sp EXCEPT !.areas = Append(@, VMArea(s, e, "Anonymous", f))]
<1>1. PICK rt \in Root, al \in Seq(Area) : sp = [root_pgt |-> rt, areas |-> al] /\ sp.areas = al
  BY StateParts
<1>2. CASE out.space = sp
  BY <1>2
<1>3. CASE Added
  <2>1. PICK x \in Area : x = VMArea(s, e, "Anonymous", f) /\ x.start_vpn = s /\ x.end_vpn = e
    BY <1>3, NewAreaType
  <2>2. PICK bs \in Seq(Area) : bs = Append(al, x)
    BY AddedArea
  <2>3. out.space = [root_pgt |-> rt, areas |-> bs]
    <3>1. out.space = [sp EXCEPT !.areas = bs]
      BY <1>1, <1>3, <2>1, <2>2
    <3> QED BY <3>1, <1>1
  <2>4. ASSUME NEW i \in 1 .. Len(al)
        PROVE  al[i].end_vpn <= x.start_vpn \/ x.end_vpn <= al[i].start_vpn
    <3>1. ~is_overlapping(al[i], s, e)
      BY <1>1, <1>3
    <3> QED BY <3>1, <2>1 DEF is_overlapping
  <2>5. Apart(bs)
    BY <2>2, <2>4, <1>1, AddedApart
  <2>6. out.space.areas = bs
    BY <2>3
  <2>7. out.space \in Space
    BY <2>3, StateParts
  <2> QED BY <2>5, <2>6, <2>7, Zenon
<1>4. out.space = sp \/ Added
  <2>1. ~(e <= s) => s < e
    OBVIOUS
  <2> QED BY <2>1, Zenon DEF add_new_area
<1> HIDE DEF Added
<1> QED BY <1>2, <1>3, <1>4

\* FindArea gives the index of an area that contains the page, or 0.
LEMMA FindAreaType ==
    ASSUME NEW al \in Seq(Area), NEW vpn \in Nat, NEW i, i = FindArea(al, vpn), i # 0
    PROVE  i \in 1 .. Len(al) /\ contain_vpn(al[i], vpn)
<1> DEFINE I == {k \in 1 .. Len(al) : contain_vpn(al[k], vpn)}
<1>1. i = IF I # {} THEN Min(I) ELSE 0
  BY DEF FindArea, SelectInSeq
<1>2. I # {}
  BY <1>1
<1>3. I \in SUBSET (1 .. Len(al)) /\ Len(al) \in Nat
  OBVIOUS
<1> HIDE DEF I
<1>4. Min(I) \in I
  BY <1>2, <1>3, MinMax
<1> QED BY <1>1, <1>2, <1>4 DEF I

\* VMSpace::map changes the pages of one area at most.
LEMMA MapType ==
    ASSUME NEW ph \in Phys, NEW sp \in Space, NEW vpn \in Nat, NEW need,
           NEW out, out = map(ph, sp, vpn, need)
    PROVE  out.phys \in Phys /\ out.space \in Space /\ SameRanges(sp.areas, out.space.areas)
<1>1. PICK rt \in Root, al \in Seq(Area) : sp = [root_pgt |-> rt, areas |-> al] /\ sp.areas = al /\ sp.root_pgt = rt
  BY StateParts
<1>b. SameRanges(al, al)
  BY DEF SameRanges
<1>2. ASSUME NEW res, out = VMResult(ph, sp, res)
      PROVE  out.phys \in Phys /\ out.space \in Space /\ SameRanges(sp.areas, out.space.areas)
  <2>1. out.phys = ph /\ out.space = sp
    BY <1>2 DEF VMResult
  <2> QED BY <2>1, <1>1, <1>b
<1>i. PICK i : i = FindArea(al, vpn)
  OBVIOUS
<1>r. PICK r : r = alloc_zeroed_page(ph)
  OBVIOUS
<1>3. r.phys \in Phys /\ r.page \in PPN \cup {NONE}
  BY <1>r, ZeroedType
<1>a. PICK area : area = al[i]
  OBVIOUS
<1>m. PICK m : m = map_create(DropPages(r.phys, Only(area.pages, {vpn})), rt, vpn, r.page,
                              to_pte_flags(area.permissions))
  OBVIOUS
<1>4. CASE i # 0 /\ r.page # NONE
  <2>1. i \in 1 .. Len(al) /\ contain_vpn(al[i], vpn)
    BY <1>4, <1>i, FindAreaType
  <2>2. area \in Area
    BY <2>1, <1>a
  <2>3. PICK p \in PPN : p = r.page /\ p \in Nat
    BY <1>3, <1>4, PageNumbers
  <2>4. PICK q \in Phys : q = DropPages(r.phys, Only(area.pages, {vpn}))
    BY <1>3, <2>2, DropAreaType
  <2>5. PICK f \in SUBSET {"V", "R", "W", "X", "U"} : f = to_pte_flags(area.permissions)
    BY <2>2, AreaParts, FlagWords
  <2>6. m.phys \in Phys /\ m.root \in Root
    BY <1>m, <2>3, <2>4, <2>5, MapCreateType DEF IsResult
  <2>7. /\ area.pages \in PageMaps /\ area.start_vpn \in Nat /\ area.end_vpn \in Nat
        /\ DOMAIN area.pages \subseteq area.start_vpn .. area.end_vpn - 1
        /\ vpn \in area.start_vpn .. area.end_vpn - 1
    BY <2>1, <2>2, <1>a, AreaParts DEF contain_vpn
  <2>8. CASE out = VMResult(m.phys, [root_pgt |-> m.root,
                              areas |-> [al EXCEPT ![i].pages = Insert(@, vpn, r.page)]], "Ok")
    <3>1. PICK pages \in PageMaps : pages = Insert(area.pages, vpn, p) /\ DOMAIN pages = DOMAIN area.pages \cup {vpn}
      BY <2>7, InsertType
    <3>2. DOMAIN pages \subseteq al[i].start_vpn .. al[i].end_vpn - 1
      BY <3>1, <2>7, <1>a
    <3>3. PICK bs : bs = [al EXCEPT ![i].pages = pages]
      OBVIOUS
    <3>4. bs \in Seq(Area) /\ SameRanges(al, bs)
      BY <3>2, <3>3, <2>1, SetPages DEF Repaged
    <3>5. bs = [al EXCEPT ![i].pages = Insert(@, vpn, r.page)]
      BY <3>1, <3>3, <2>1, <2>3, <1>a
    <3>6. out.phys = m.phys /\ out.space = [root_pgt |-> m.root, areas |-> bs]
      BY <2>8, <3>5 DEF VMResult
    <3> QED BY <3>4, <3>6, <2>6, <1>1, StateParts
  <2>9. CASE out = MapFailed(m, sp, i, vpn, r.page)
    <3>1. PICK pages \in PageMaps : pages = Only(area.pages, DOMAIN area.pages \ {vpn})
                                    /\ DOMAIN pages = DOMAIN area.pages \cap (DOMAIN area.pages \ {vpn})
      BY <2>7, OnlyType
    <3>2. DOMAIN pages \subseteq al[i].start_vpn .. al[i].end_vpn - 1
      BY <3>1, <2>7, <1>a
    <3>3. PICK bs : bs = [al EXCEPT ![i].pages = pages]
      OBVIOUS
    <3>4. bs \in Seq(Area) /\ SameRanges(al, bs)
      BY <3>2, <3>3, <2>1, SetPages DEF Repaged
    <3>5. bs = [al EXCEPT ![i].pages = Only(@, DOMAIN @ \ {vpn})]
      BY <3>1, <3>3, <2>1, <1>a
    <3>6. dealloc(m.phys.alloc, p) \in Alloc
      BY <2>6, PhysParts, DeallocType
    <3>7. PICK z \in Phys : z = [m.phys EXCEPT !.alloc = dealloc(@, r.page)]
      BY <3>6, <2>3, <2>6, PhysParts
    <3>8. out = VMResult(z, [root_pgt |-> m.root, areas |-> bs], m.res)
      BY <2>9, <3>5, <3>7, <1>1 DEF MapFailed
    <3>9. out.phys = z /\ out.space = [root_pgt |-> m.root, areas |-> bs]
      BY <3>8 DEF VMResult
    <3> QED BY <3>4, <3>9, <2>6, <1>1, StateParts
  <2>10. \/ \E res : out = VMResult(ph, sp, res)
         \/ out = VMResult(m.phys, [root_pgt |-> m.root,
                              areas |-> [al EXCEPT ![i].pages = Insert(@, vpn, r.page)]], "Ok")
         \/ out = MapFailed(m, sp, i, vpn, r.page)
    BY <1>1, <1>i, <1>a, <1>r, <1>m, Zenon DEF map, AnonymousFrame
  <2> QED BY <2>8, <2>9, <2>10, <1>2
<1>5. CASE ~(i # 0 /\ r.page # NONE)
  <2>1. \E res : out = VMResult(ph, sp, res)
    BY <1>5, <1>1, <1>i, <1>a, <1>r, <1>m, Zenon DEF map, AnonymousFrame
  <2> QED BY <2>1, <1>2
<1> QED BY <1>4, <1>5
-----------------------------------------------------------------------------
(* munmap.                                                                 *)

\* The part of an area below a page, and the part from a page on.
LEMMA CutArea ==
    ASSUME NEW a \in Area, NEW v \in Nat
    PROVE  /\ a.start_vpn < v /\ v <= a.end_vpn =>
                /\ Below(a, v) \in Area
                /\ Below(a, v).start_vpn = a.start_vpn /\ Below(a, v).end_vpn = v
                /\ Below(a, v).map_type = a.map_type /\ Below(a, v).permissions = a.permissions
                /\ Below(a, v).pages = Only(a.pages, a.start_vpn .. v - 1)
           /\ a.start_vpn <= v /\ v < a.end_vpn =>
                /\ From(a, v) \in Area
                /\ From(a, v).start_vpn = v /\ From(a, v).end_vpn = a.end_vpn
                /\ From(a, v).map_type = a.map_type /\ From(a, v).permissions = a.permissions
                /\ From(a, v).pages = Only(a.pages, v .. a.end_vpn - 1)
<1>1. PICK s \in Nat, e \in Nat, t \in {"Anonymous", "KernelVaOffset"}, f \in Flags, p \in PageMaps :
         /\ a = [start_vpn |-> s, end_vpn |-> e, map_type |-> t, permissions |-> f, pages |-> p]
         /\ s < e /\ DOMAIN p \subseteq s .. e - 1
  BY AreaParts
<1>a. a.start_vpn = s /\ a.end_vpn = e /\ a.pages = p /\ a.map_type = t /\ a.permissions = f
  BY <1>1
<1>2. ASSUME s < v, v <= e
      PROVE  /\ Below(a, v) \in Area /\ Below(a, v).start_vpn = s /\ Below(a, v).end_vpn = v
             /\ Below(a, v).map_type = t /\ Below(a, v).permissions = f
             /\ Below(a, v).pages = Only(p, s .. v - 1)
  <2>1. PICK q \in PageMaps : q = Only(p, s .. v - 1) /\ DOMAIN q = DOMAIN p \cap (s .. v - 1)
    BY OnlyType
  <2>2. DOMAIN q \subseteq s .. v - 1
    BY <2>1
  <2>3. Below(a, v) = [start_vpn |-> s, end_vpn |-> v, map_type |-> t, permissions |-> f, pages |-> q]
    <3>1. Below(a, v) = [a EXCEPT !.end_vpn = v, !.pages = q]
      BY <1>1, <1>a, <2>1 DEF Below
    <3> QED BY <3>1, <1>1
  <2>4. [start_vpn |-> s, end_vpn |-> v, map_type |-> t, permissions |-> f, pages |-> q] \in Area
    BY <1>2, <2>2, AreaOf
  <2> QED BY <2>1, <2>3, <2>4
<1>3. ASSUME s <= v, v < e
      PROVE  /\ From(a, v) \in Area /\ From(a, v).start_vpn = v /\ From(a, v).end_vpn = e
             /\ From(a, v).map_type = t /\ From(a, v).permissions = f
             /\ From(a, v).pages = Only(p, v .. e - 1)
  <2>1. PICK q \in PageMaps : q = Only(p, v .. e - 1) /\ DOMAIN q = DOMAIN p \cap (v .. e - 1)
    BY OnlyType
  <2>2. DOMAIN q \subseteq v .. e - 1
    BY <2>1
  <2>3. From(a, v) = [start_vpn |-> v, end_vpn |-> e, map_type |-> t, permissions |-> f, pages |-> q]
    <3>1. From(a, v) = [a EXCEPT !.start_vpn = v, !.pages = q]
      BY <1>1, <1>a, <2>1 DEF From
    <3> QED BY <3>1, <1>1
  <2>4. [start_vpn |-> v, end_vpn |-> e, map_type |-> t, permissions |-> f, pages |-> q] \in Area
    BY <1>3, <2>2, AreaOf
  <2> QED BY <2>1, <2>3, <2>4
<1> QED BY <1>a, <1>2, <1>3

\* An area is replaced.
LEMMA Replaced ==
    ASSUME NEW al \in Seq(Area), NEW i \in 1 .. Len(al), NEW b \in Area,
           NEW bs, bs = [al EXCEPT ![i] = b]
    PROVE  /\ bs \in Seq(Area) /\ Len(bs) = Len(al) /\ bs[i] = b
           /\ \A j \in 1 .. Len(al) : j # i => bs[j] = al[j]
OBVIOUS

\* When it is replaced by a part of it, the areas stay apart.
LEMMA ShrinkApart ==
    ASSUME NEW al \in Seq(Area), Apart(al), NEW i \in 1 .. Len(al),
           NEW b \in Area, al[i].start_vpn <= b.start_vpn, b.end_vpn <= al[i].end_vpn,
           NEW bs \in Seq(Area), Len(bs) = Len(al), bs[i] = b,
           \A j \in 1 .. Len(al) : j # i => bs[j] = al[j]
    PROVE  Apart(bs)
<1>1. PICK a \in Area : a = al[i]
  OBVIOUS
<1>2. \A j \in 1 .. Len(al) : al[j].start_vpn \in Nat /\ al[j].end_vpn \in Nat
  <2> TAKE j \in 1 .. Len(al)
  <2>1. PICK c \in Area : c = al[j]
    OBVIOUS
  <2> QED BY <2>1, AreaParts
<1>3. a.start_vpn \in Nat /\ a.end_vpn \in Nat /\ b.start_vpn \in Nat /\ b.end_vpn \in Nat
  BY AreaParts
<1>4. ASSUME NEW j \in 1 .. Len(al), j # i
      PROVE  al[j].end_vpn <= b.start_vpn \/ b.end_vpn <= al[j].start_vpn
  <2>1. al[j].end_vpn <= a.start_vpn \/ a.end_vpn <= al[j].start_vpn
    BY <1>1, <1>4 DEF Apart
  <2> QED BY <2>1, <1>1, <1>2, <1>3
<1>5. ASSUME NEW j \in 1 .. Len(bs), NEW k \in 1 .. Len(bs), j # k
      PROVE  bs[j].end_vpn <= bs[k].start_vpn \/ bs[k].end_vpn <= bs[j].start_vpn
  <2>1. CASE j = i
    BY <2>1, <1>4, <1>5
  <2>2. CASE k = i
    BY <2>2, <1>4, <1>5
  <2>3. CASE j # i /\ k # i
    BY <2>3, <1>5 DEF Apart
  <2> QED BY <2>1, <2>2, <2>3
<1> QED BY <1>5 DEF Apart

\* Vec::swap_remove puts the last element in the place of the removed one.
Swapped(al, i, bs) ==
    \A j \in 1 .. Len(al) - 1 : bs[j] = IF j = i THEN al[Len(al)] ELSE al[j]

LEMMA SwapRemoveType ==
    ASSUME NEW al \in Seq(Area), Apart(al), NEW i \in 1 .. Len(al),
           NEW bs, bs = SwapRemove(al, i)
    PROVE  bs \in Seq(Area) /\ Apart(bs) /\ Len(bs) = Len(al) - 1 /\ Swapped(al, i, bs)
<1>n. PICK n \in Nat : n = Len(al) /\ n >= 1
  OBVIOUS
<1>1. PICK x \in Area : x = Last(al) /\ x = al[n]
  BY <1>n DEF Last
<1>2. PICK cs : cs = [al EXCEPT ![i] = x]
  OBVIOUS
<1>3. cs \in Seq(Area) /\ Len(cs) = n /\ cs[i] = x /\ \A j \in 1 .. n : j # i => cs[j] = al[j]
  BY <1>2, <1>n
<1>4. bs = SubSeq(cs, 1, n - 1)
  BY <1>1, <1>2, <1>3 DEF SwapRemove, Front
<1>5. bs \in Seq(Area) /\ Len(bs) = n - 1 /\ \A j \in 1 .. n - 1 : bs[j] = cs[j]
  BY <1>3, <1>4, <1>n
<1>6. \A j \in 1 .. n - 1 : bs[j] = IF j = i THEN al[n] ELSE al[j]
  BY <1>1, <1>3, <1>5
<1>7. ASSUME NEW j \in 1 .. Len(bs), NEW k \in 1 .. Len(bs), j # k
      PROVE  bs[j].end_vpn <= bs[k].start_vpn \/ bs[k].end_vpn <= bs[j].start_vpn
  <2>1. j \in 1 .. n - 1 /\ k \in 1 .. n - 1 /\ j \in 1 .. n /\ k \in 1 .. n /\ j # n /\ k # n /\ n \in 1 .. n
    BY <1>5, <1>n
  <2>2. CASE j = i
    <3>1. bs[j] = al[n] /\ bs[k] = al[k]
      BY <2>1, <2>2, <1>6, <1>7
    <3> QED BY <3>1, <2>1, <1>n DEF Apart
  <2>3. CASE k = i
    <3>1. bs[k] = al[n] /\ bs[j] = al[j]
      BY <2>1, <2>3, <1>6, <1>7
    <3> QED BY <3>1, <2>1, <1>n DEF Apart
  <2>4. CASE j # i /\ k # i
    <3>1. bs[k] = al[k] /\ bs[j] = al[j]
      BY <2>1, <2>4, <1>6
    <3> QED BY <3>1, <2>1, <1>n, <1>7 DEF Apart
  <2> QED BY <2>2, <2>3, <2>4
<1> QED BY <1>5, <1>6, <1>7, <1>n DEF Apart, Swapped

\* What is left when the pages b .. e - 1 are taken out of one area.
LEMMA RemainingType ==
    ASSUME NEW al \in Seq(Area), Apart(al), NEW i \in 1 .. Len(al), NEW a \in Area, a = al[i],
           NEW b \in Nat, NEW e \in Nat, a.start_vpn <= b, b < e, e <= a.end_vpn,
           NEW bs, bs = Remaining(al, i, b, e)
    PROVE  bs \in Seq(Area) /\ Apart(bs) /\ Len(bs) >= Len(al) - 1
<1>1. a.start_vpn \in Nat /\ a.end_vpn \in Nat /\ Len(al) \in Nat
  BY AreaParts
<1>2. CASE b = a.start_vpn /\ e = a.end_vpn
  <2>1. bs = SwapRemove(al, i)
    BY <1>2 DEF Remaining
  <2>2. bs \in Seq(Area) /\ Apart(bs) /\ Len(bs) = Len(al) - 1
    BY <2>1, SwapRemoveType
  <2> QED BY <2>2, <1>1
<1>3. CASE b = a.start_vpn /\ e # a.end_vpn
  <2>1. bs = [al EXCEPT ![i] = From(a, e)]
    BY <1>3 DEF Remaining
  <2>2. PICK c \in Area : c = From(a, e) /\ c.start_vpn = e /\ c.end_vpn = a.end_vpn
    BY <1>1, <1>3, CutArea
  <2>3. a.start_vpn <= c.start_vpn /\ c.end_vpn <= a.end_vpn
    BY <2>2, <1>1, <1>3
  <2>4. bs = [al EXCEPT ![i] = c]
    BY <2>1, <2>2
  <2>a. /\ bs \in Seq(Area) /\ Len(bs) = Len(al) /\ bs[i] = c
        /\ \A j \in 1 .. Len(al) : j # i => bs[j] = al[j]
    BY <2>4, Replaced
  <2>b. Apart(bs)
    BY <2>a, <2>3, ShrinkApart
  <2>5. bs \in Seq(Area) /\ Apart(bs) /\ Len(bs) = Len(al)
    BY <2>a, <2>b
  <2> QED BY <2>5, <1>1
<1>4. CASE b # a.start_vpn
  <2>1. PICK c \in Area : c = Below(a, b) /\ c.start_vpn = a.start_vpn /\ c.end_vpn = b
    BY <1>1, <1>4, CutArea
  <2>2. a.start_vpn <= c.start_vpn /\ c.end_vpn <= a.end_vpn
    BY <2>1, <1>1
  <2>3. PICK cs : cs = [al EXCEPT ![i] = c]
    OBVIOUS
  <2>a. /\ cs \in Seq(Area) /\ Len(cs) = Len(al) /\ cs[i] = c
        /\ \A j \in 1 .. Len(al) : j # i => cs[j] = al[j]
    BY <2>3, Replaced
  <2>4. /\ cs \in Seq(Area) /\ Apart(cs) /\ Len(cs) = Len(al) /\ cs[i] = c
        /\ \A j \in 1 .. Len(al) : j # i => cs[j] = al[j]
    BY <2>a, <2>2, ShrinkApart
  <2>5. CASE e = a.end_vpn
    <3>1. bs = cs
      BY <2>5, <1>4, <2>1, <2>3 DEF Remaining
    <3> QED BY <3>1, <2>4, <1>1
  <2>6. CASE e # a.end_vpn
    <3>1. PICK d \in Area : d = From(a, e) /\ d.start_vpn = e /\ d.end_vpn = a.end_vpn
      BY <1>1, <2>6, CutArea
    <3>2. bs = Append(cs, d)
      BY <2>6, <1>4, <2>1, <2>3, <3>1 DEF Remaining
    <3>3. ASSUME NEW j \in 1 .. Len(cs)
          PROVE  cs[j].end_vpn <= d.start_vpn \/ d.end_vpn <= cs[j].start_vpn
      <4>1. CASE j = i
        BY <4>1, <2>4, <2>1, <3>1, <1>1
      <4>2. CASE j # i
        <5>1. cs[j] = al[j] /\ j \in 1 .. Len(al)
          BY <4>2, <2>4
        <5>2. al[j].end_vpn <= a.start_vpn \/ a.end_vpn <= al[j].start_vpn
          BY <4>2, <5>1 DEF Apart
        <5>3. PICK x \in Area : x = al[j] /\ x.start_vpn \in Nat /\ x.end_vpn \in Nat
          BY <5>1, AreaParts
        <5> QED BY <5>1, <5>2, <5>3, <3>1, <1>1
      <4> QED BY <4>1, <4>2
    <3>4. Apart(bs)
      BY <2>4, <3>2, <3>3, AddedApart
    <3>5. bs \in Seq(Area) /\ Len(bs) = Len(cs) + 1
      BY <2>4, <3>2, AddedArea
    <3> QED BY <3>4, <3>5, <2>4, <1>1
  <2> QED BY <2>5, <2>6
<1> QED BY <1>2, <1>3, <1>4

\* One turn of VMSpace::unmap removes one area at most.
LEMMA UnmapAreaType ==
    ASSUME NEW s \in State, Apart(s.space.areas), NEW i \in 1 .. Len(s.space.areas),
           NEW sv \in Nat, NEW ev \in Nat, sv < ev, NEW out, out = UnmapArea(s, i, sv, ev)
    PROVE  /\ out \in State /\ Apart(out.space.areas)
           /\ Len(out.space.areas) >= Len(s.space.areas) - 1
<1>s. PICK ph \in Phys, rt \in Root, al \in Seq(Area), res \in Res :
         s = [phys |-> ph, space |-> [root_pgt |-> rt, areas |-> al], res |-> res]
  BY StateParts DEF VMResult
<1>a. s.space.areas = al /\ s.res = res /\ s.phys = ph /\ s.space.root_pgt = rt
      /\ s.space = [root_pgt |-> rt, areas |-> al]
  BY <1>s
<1>l. Len(al) \in Nat /\ i \in 1 .. Len(al) /\ Apart(al)
  BY <1>a
<1>1. PICK a \in Area : a = al[i]
  BY <1>l
<1>2. a.start_vpn \in Nat /\ a.end_vpn \in Nat /\ a.start_vpn < a.end_vpn
  BY AreaParts
<1>3. PICK b \in Nat, e \in Nat : /\ b = IF sv <= a.start_vpn THEN a.start_vpn ELSE sv
                                  /\ e = IF a.end_vpn <= ev THEN a.end_vpn ELSE ev
  BY <1>2
<1>u. PICK u : u = unmap(ph, rt, b, e)
  OBVIOUS
<1>4. u.phys \in Phys /\ u.res \in Res
  <2>1. u.phys \in Phys /\ u.res \in {"Ok", "Panic"}
    BY <1>u, UnmapResultType
  <2> QED BY <2>1 DEF Res
<1>g. PICK gone \in Phys : gone = DropPages(u.phys, Only(a.pages, b .. e - 1))
  BY <1>4, DropAreaType
<1>5. CASE out = s
  BY <1>5, <1>a, <1>l
<1>6. CASE out = [s EXCEPT !.res = u.res]
  <2>1. out = [phys |-> ph, space |-> [root_pgt |-> rt, areas |-> al], res |-> u.res]
    BY <1>6, <1>s
  <2>2. out = VMResult(ph, [root_pgt |-> rt, areas |-> al], u.res)
    BY <2>1 DEF VMResult
  <2>3. out \in State
    BY <2>2, <1>4, StateParts
  <2>4. out.space.areas = al
    BY <2>1
  <2> QED BY <2>3, <2>4, <1>a, <1>l
<1>7. CASE /\ ~(a.end_vpn <= sv) /\ ~(ev <= a.start_vpn)
           /\ out = VMResult(gone, [s.space EXCEPT !.areas = Remaining(@, i, b, e)], "Ok")
  <2>1. a.start_vpn <= b /\ b < e /\ e <= a.end_vpn
    BY <1>2, <1>3, <1>7
  <2>2. PICK bs : bs = Remaining(al, i, b, e)
    OBVIOUS
  <2>3. bs \in Seq(Area) /\ Apart(bs) /\ Len(bs) >= Len(al) - 1
    BY <2>1, <2>2, <1>1, <1>l, RemainingType
  <2>4. [s.space EXCEPT !.areas = Remaining(@, i, b, e)] = [root_pgt |-> rt, areas |-> bs]
    <3>1. [s.space EXCEPT !.areas = Remaining(@, i, b, e)] = [s.space EXCEPT !.areas = bs]
      BY <1>a, <2>2
    <3>2. [s.space EXCEPT !.areas = bs] = [root_pgt |-> rt, areas |-> bs]
      BY <1>a
    <3> QED BY <3>1, <3>2
  <2>5. out = VMResult(gone, [root_pgt |-> rt, areas |-> bs], "Ok")
    BY <1>7, <2>4
  <2>6. out \in State
    <3>1. "Ok" \in Res
      BY DEF Res
    <3> QED BY <3>1, <2>3, <2>5, StateParts
  <2>7. out.space.areas = bs
    BY <2>5 DEF VMResult
  <2> QED BY <2>3, <2>6, <2>7, <1>a
<1>8. \/ out = s
      \/ out = [s EXCEPT !.res = u.res]
      \/ /\ ~(a.end_vpn <= sv) /\ ~(ev <= a.start_vpn)
         /\ out = VMResult(gone, [s.space EXCEPT !.areas = Remaining(@, i, b, e)], "Ok")
  BY <1>a, <1>1, <1>3, <1>u, <1>g, Zenon DEF UnmapArea
<1> QED BY <1>5, <1>6, <1>7, <1>8

\* VMSpace::unmap visits the areas from the last to the first; while it has i
\* areas to visit, the list has at least that many.
UnmapRun(g, ph, sp, sv, ev, out) ==
    LET N == Len(sp.areas) IN
    /\ g[0] = VMResult(ph, sp, "Ok")
    /\ \A n \in 0 .. N - 1 : g[n + 1] = UnmapArea(g[n], N + 1 - (n + 1), sv, ev)
    /\ out = g[N]
    /\ \A n \in 0 .. N :
          g[n] \in State /\ Apart(g[n].space.areas) /\ Len(g[n].space.areas) >= N - n

LEMMA UnmapRangeType ==
    ASSUME NEW ph \in Phys, NEW sp \in Space, Apart(sp.areas), NEW sv \in Nat, NEW ev \in Nat, sv < ev,
           NEW out, out = unmap_range(ph, sp, sv, ev)
    PROVE  out \in State /\ Apart(out.space.areas) /\ \E g : UnmapRun(g, ph, sp, sv, ev, out)
<1>n. PICK N \in Nat : N = Len(sp.areas)
  BY StateParts
<1>s. PICK s \in State : s = VMResult(ph, sp, "Ok") /\ s.space = sp
  <2>1. "Ok" \in Res
    BY DEF Res
  <2>2. VMResult(ph, sp, "Ok") \in State /\ VMResult(ph, sp, "Ok").space = sp
    BY <2>1, StateParts DEF VMResult
  <2> QED BY <2>2
<1> DEFINE Step(n, x) == UnmapArea(x, N + 1 - (n + 1), sv, ev)
           loop[k \in 0 .. N] == IF k = 0 THEN VMResult(ph, sp, "Ok")
                                 ELSE UnmapArea(loop[k - 1], N + 1 - k, sv, ev)
<1>1. out = loop[N]
  BY <1>n DEF unmap_range
<1>E. PICK E : E = [n \in 0 .. N |->
                      {x \in State : Apart(x.space.areas) /\ Len(x.space.areas) >= N - n}]
  OBVIOUS
<1>e. \A n \in 0 .. N : \A x :
         x \in E[n] <=> x \in State /\ Apart(x.space.areas) /\ Len(x.space.areas) >= N - n
  BY <1>E
<1>u. s \in E[0]
  BY <1>e, <1>n, <1>s
<1>2. ASSUME NEW n \in 0 .. N - 1, NEW x \in E[n] PROVE Step(n, x) \in E[n + 1]
  <2>1. n \in 0 .. N /\ n + 1 \in 0 .. N
    OBVIOUS
  <2>2. x \in State /\ Apart(x.space.areas) /\ Len(x.space.areas) >= N - n
    BY <1>e, <2>1
  <2>l. Len(x.space.areas) \in Nat
    <3>1. x.space.areas \in Seq(Area)
      BY <2>2, StateParts
    <3> QED BY <3>1
  <2>3. PICK i \in 1 .. Len(x.space.areas) : i = N + 1 - (n + 1)
    BY <2>2, <2>l
  <2>4. PICK y : y = UnmapArea(x, i, sv, ev)
    OBVIOUS
  <2>5. y \in State /\ Apart(y.space.areas) /\ Len(y.space.areas) >= Len(x.space.areas) - 1
    BY <2>2, <2>4, UnmapAreaType
  <2>6. Len(y.space.areas) \in Nat
    <3>1. y.space.areas \in Seq(Area)
      BY <2>5, StateParts
    <3> QED BY <3>1
  <2>7. Len(y.space.areas) >= N - (n + 1)
    <3>1. PICK h \in Nat, k \in Nat : h = Len(x.space.areas) /\ k = Len(y.space.areas)
      BY <2>6, <2>l
    <3>2. h >= N - n /\ k >= h - 1
      BY <3>1, <2>2, <2>5
    <3>3. k >= N - (n + 1)
      BY <3>2
    <3> QED BY <3>1, <3>3
  <2> QED BY <2>1, <2>3, <2>4, <2>5, <2>7, <1>e
<1>3. PICK f : f = [k \in 0 .. N |-> IF k = 0 THEN s ELSE UnmapArea(f[k - 1], N + 1 - k, sv, ev)]
  <2>2. PICK S : S = [n \in 0 .. N - 1 |-> [x \in E[n] |-> Step(n, x)]]
    OBVIOUS
  <2>4. Turns(S, N, E)
    <3> HIDE DEF Step
    <3> QED BY <2>2, <1>2 DEF Turns
  <2>5. PICK f : Run(f, S, N, E, s)
    BY <1>u, <2>4, LoopRuns
  <2>6. \A n \in 0 .. N : f[n] \in E[n]
    BY <2>5 DEF Run
  <2>7. ASSUME NEW k \in 0 .. N, k # 0 PROVE S[k - 1][f[k - 1]] = UnmapArea(f[k - 1], N + 1 - k, sv, ev)
    <3>1. k - 1 \in 0 .. N - 1 /\ k - 1 \in 0 .. N /\ (k - 1) + 1 = k
      BY <2>7
    <3>a. f[k - 1] \in E[k - 1]
      BY <3>1, <2>6
    <3>2. S[k - 1][f[k - 1]] = Step(k - 1, f[k - 1])
      BY <2>2, <3>1, <3>a
    <3> QED BY <3>1, <3>2
  <2>8. f = [k \in 0 .. N |-> IF k = 0 THEN s ELSE UnmapArea(f[k - 1], N + 1 - k, sv, ev)]
    BY <2>5, <2>7 DEF Run
  <2> QED BY <2>8
<1>4. loop = [k \in 0 .. N |-> IF k = 0 THEN VMResult(ph, sp, "Ok")
                               ELSE UnmapArea(loop[k - 1], N + 1 - k, sv, ev)]
  BY <1>3, <1>s
<1>5. PICK g : g = loop
               /\ g = [k \in 0 .. N |-> IF k = 0 THEN s ELSE UnmapArea(g[k - 1], N + 1 - k, sv, ev)]
  BY <1>4, <1>s
<1> HIDE DEF loop
<1>6. ASSUME NEW n \in 0 .. N - 1 PROVE g[n + 1] = Step(n, g[n])
  <2>1. n + 1 \in 0 .. N /\ n + 1 # 0 /\ (n + 1) - 1 = n
    OBVIOUS
  <2> QED BY <1>5, <2>1
<1>7. g[0] = s
  BY <1>5
<1> HIDE DEF Step
<1>8. \A n \in 0 .. N : g[n] \in E[n]
  BY <1>7, <1>u, <1>2, <1>6, LoopStays
<1>9. out \in E[N]
  BY <1>1, <1>5, <1>8
<1>10. UnmapRun(g, ph, sp, sv, ev, out)
  <2>1. \A n \in 0 .. N - 1 : g[n + 1] = UnmapArea(g[n], N + 1 - (n + 1), sv, ev)
    BY <1>6 DEF Step
  <2>2. \A n \in 0 .. N :
           g[n] \in State /\ Apart(g[n].space.areas) /\ Len(g[n].space.areas) >= N - n
    BY <1>8, <1>e
  <2> QED BY <2>1, <2>2, <1>1, <1>5, <1>7, <1>n, <1>s DEF UnmapRun
<1> QED BY <1>9, <1>10, <1>e
-----------------------------------------------------------------------------
(* The invariant.                                                          *)

\* Everything has its type, down to the words of memory, and the areas of every
\* space lie apart.
UInv ==
    /\ phys \in Phys
    /\ kernel_satp \in PPN
    /\ started \in 0 .. Cardinality(Tasks)
    /\ halt \in {"No", "Panic", "TrapPanic"}
    /\ spaces \in [Tasks -> Space \cup {NONE}]
    /\ \A t \in Tasks : spaces[t] # NONE => Apart(spaces[t].areas)

LEMMA UInvInit == Init => UInv
<1> SUFFICES ASSUME Init PROVE UInv
  OBVIOUS
<1>1. phys \in Phys /\ kernel_satp \in PPN
  BY BootType DEF Init
<1>2. Cardinality(Tasks) \in Nat
  BY TasksAssumption, FS_CardinalityType
<1>3. started \in 0 .. Cardinality(Tasks) /\ halt \in {"No", "Panic", "TrapPanic"}
  BY <1>2 DEF Init
<1>4. spaces \in [Tasks -> Space \cup {NONE}] /\ \A t \in Tasks : spaces[t] = NONE
  BY DEF Init
<1> QED BY <1>1, <1>3, <1>4 DEF UInv

\* A request that gives task t a new space, and memory new contents.
LEMMA SpaceChange ==
    ASSUME UInv, NEW t \in Tasks, NEW sp, sp = NONE \/ (sp \in Space /\ Apart(sp.areas)),
           phys' \in Phys, spaces' = [spaces EXCEPT ![t] = sp],
           UNCHANGED kernel_satp, started' \in 0 .. Cardinality(Tasks), UNCHANGED halt
    PROVE  UInv'
<1>1. spaces \in [Tasks -> Space \cup {NONE}] /\ \A x \in Tasks : spaces[x] # NONE => Apart(spaces[x].areas)
  BY DEF UInv
<1>2. spaces' \in [Tasks -> Space \cup {NONE}]
  BY <1>1
<1>3. ASSUME NEW x \in Tasks, spaces'[x] # NONE PROVE Apart(spaces'[x].areas)
  <2>1. CASE x = t
    <3>1. spaces'[x] = sp
      BY <2>1, <1>1
    <3> QED BY <3>1, <1>3
  <2>2. CASE x # t
    <3>1. spaces'[x] = spaces[x]
      BY <2>2, <1>1
    <3> QED BY <3>1, <1>1, <1>3
  <2> QED BY <2>1, <2>2
<1>4. kernel_satp' \in PPN /\ halt' \in {"No", "Panic", "TrapPanic"}
  BY DEF UInv
<1> QED BY <1>2, <1>3, <1>4 DEF UInv, Apart

\* The machine stops.
LEMMA HaltKeeps ==
    ASSUME UInv, NEW why \in {"Panic", "TrapPanic"}, Halt(why), UNCHANGED kernel_satp,
           started' \in 0 .. Cardinality(Tasks)
    PROVE  UInv'
<1>1. phys' = phys /\ spaces' = spaces /\ halt' = why
  BY DEF Halt
<1> QED BY <1>1 DEF UInv, Apart

LEMMA AddTaskKeeps ==
    ASSUME UInv, AddTask
    PROVE  UInv'
<1>1. PICK t \in Tasks, r \in {new_user(phys, kernel_satp, Elf, Word(started + 1))} : t = started + 1 /\ r = new_user(phys, kernel_satp, Elf, Word(t))
  BY DEF AddTask
<1>2. started' \in 0 .. Cardinality(Tasks)
  <2>1. Cardinality(Tasks) \in Nat
    BY TasksAssumption, FS_CardinalityType
  <2>2. t \in 1 .. Cardinality(Tasks)
    BY TasksAssumption
  <2> QED BY <2>1, <2>2, <1>1 DEF AddTask
<1>3. UNCHANGED kernel_satp
  BY DEF AddTask
<1>4. CASE r.res = "Ok"
  <2>1. phys' = r.phys /\ spaces' = [spaces EXCEPT ![t] = r.space] /\ UNCHANGED halt
    BY <1>1, <1>4 DEF AddTask
  <2>2. phys \in Phys /\ kernel_satp \in PPN /\ Word(t) \in Words
    BY WordTypes DEF UInv
  <2>3. r.phys \in Phys /\ r.space \in Space /\ Apart(r.space.areas)
    BY <1>1, <1>4, <2>2, NewUserType
  <2> QED BY <1>2, <1>3, <2>1, <2>3, SpaceChange
<1>5. CASE r.res # "Ok"
  <2>1. Halt("Panic")
    BY <1>1, <1>5 DEF AddTask
  <2> QED BY <1>2, <1>3, <2>1, HaltKeeps
<1> QED BY <1>4, <1>5

\* The page numbers of a request.
LEMMA RequestPages ==
    ASSUME NEW addr \in 0 .. USIZE - 1, NEW len \in 0 .. USIZE - 1
    PROVE  /\ VpnFromVa(addr) \in Nat /\ VpnFromVa(EndVa(addr, len)) \in Nat
           /\ len > 0 => VpnFromVa(addr) < VpnFromVa(EndVa(addr, len))
<1>1. PICK d \in Nat : d = PAGE_SIZE_BYTES /\ d > 0
  BY MemAssumption
<1>2. PICK x \in Nat, y \in Nat : x = addr /\ y = EndVa(addr, len) /\ y = x + len + d - 1 /\ len \in Nat
  BY <1>1, VMAssumption DEF EndVa
<1>3. x \div d \in Nat /\ y \div d \in Nat
  BY <1>1, PageDiv
<1>4. ASSUME len > 0 PROVE x \div d < y \div d
  <2>1. PICK z \in Nat : z = x + d /\ z <= y
    BY <1>1, <1>2, <1>4
  <2>2. z \div d = x \div d + 1
    BY <2>1, <1>1, PageDiv
  <2>3. z \div d <= y \div d
    BY <2>1, <1>1, PageDiv
  <2> QED BY <2>2, <2>3, <1>3
<1> QED BY <1>1, <1>2, <1>3, <1>4 DEF VpnFromVa

\* A request that leaves everything but the answer.
LEMMA QuietKeeps ==
    ASSUME UInv, UNCHANGED <<phys, spaces, halt, kernel_satp, started>>
    PROVE  UInv'
BY DEF UInv, Apart

LEMMA MmapKeeps ==
    ASSUME UInv, NEW t \in Tasks, NEW c \in MmapCalls, Mmap(t, c[1], c[2], c[3])
    PROVE  UInv'
<1>c. PICK addr \in 0 .. USIZE - 1, len \in 0 .. USIZE - 1, prot \in {c[3]} : addr = c[1] /\ len = c[2] /\ prot = c[3]
  BY RequestAssumption
<1>m. Mmap(t, addr, len, prot)
  BY <1>c
<1>1. PICK r : r = add_new_area(spaces[t], VpnFromVa(addr), VpnFromVa(EndVa(addr, len)),
                                "Anonymous", prot \cup {"U"})
  OBVIOUS
<1>2. /\ UNCHANGED <<kernel_satp, started>> /\ spaces[t] # NONE
      /\ \/ UNCHANGED <<phys, spaces, halt>>
         \/ /\ prot \subseteq {"R", "W", "X"} /\ spaces' = [spaces EXCEPT ![t] = r.space]
            /\ UNCHANGED <<phys, halt>>
         \/ Halt("Panic")
  BY <1>m, <1>1, Zenon DEF Mmap, Runs
<1>3. started' \in 0 .. Cardinality(Tasks) /\ phys \in Phys
  BY <1>2 DEF UInv
<1>4. CASE UNCHANGED <<phys, spaces, halt>>
  BY <1>2, <1>4, QuietKeeps
<1>5. CASE /\ prot \subseteq {"R", "W", "X"} /\ spaces' = [spaces EXCEPT ![t] = r.space]
           /\ UNCHANGED <<phys, halt>>
  <2>1. PICK sp \in Space : sp = spaces[t] /\ Apart(sp.areas)
    BY <1>2 DEF UInv
  <2>2. prot \cup {"U"} \in Flags
    BY <1>5 DEF Flags
  <2>3. r.space \in Space /\ Apart(r.space.areas)
    BY <2>1, <2>2, <1>1, RequestPages, AddNewAreaType
  <2>4. phys' \in Phys
    BY <1>5, <1>3
  <2> QED BY <1>2, <1>3, <1>5, <2>3, <2>4, SpaceChange
<1>6. CASE Halt("Panic")
  BY <1>2, <1>3, <1>6, HaltKeeps
<1> QED BY <1>2, <1>4, <1>5, <1>6

LEMMA MunmapKeeps ==
    ASSUME UInv, NEW t \in Tasks, NEW c \in MunmapCalls, Munmap(t, c[1], c[2])
    PROVE  UInv'
<1>c. PICK addr \in 0 .. USIZE - 1, len \in 0 .. USIZE - 1 : addr = c[1] /\ len = c[2]
  BY RequestAssumption
<1>m. Munmap(t, addr, len)
  BY <1>c
<1>1. PICK r : r = unmap_range(phys, spaces[t], VpnFromVa(addr), VpnFromVa(EndVa(addr, len)))
  OBVIOUS
<1>2. /\ UNCHANGED <<kernel_satp, started>> /\ spaces[t] # NONE
      /\ \/ UNCHANGED <<phys, spaces, halt>>
         \/ /\ len > 0 /\ phys' = r.phys /\ spaces' = [spaces EXCEPT ![t] = r.space]
            /\ UNCHANGED halt
         \/ Halt("Panic")
  BY <1>m, <1>1, Zenon DEF Munmap, Runs
<1>3. started' \in 0 .. Cardinality(Tasks) /\ phys \in Phys
  BY <1>2 DEF UInv
<1>4. CASE UNCHANGED <<phys, spaces, halt>>
  BY <1>2, <1>4, QuietKeeps
<1>5. CASE /\ len > 0 /\ phys' = r.phys /\ spaces' = [spaces EXCEPT ![t] = r.space]
           /\ UNCHANGED halt
  <2>1. PICK sp \in Space : sp = spaces[t] /\ Apart(sp.areas)
    BY <1>2 DEF UInv
  <2>2. PICK sv \in Nat, ev \in Nat : sv = VpnFromVa(addr) /\ ev = VpnFromVa(EndVa(addr, len)) /\ sv < ev
    BY <1>5, RequestPages
  <2>3. r \in State /\ Apart(r.space.areas)
    BY <1>1, <1>3, <2>1, <2>2, UnmapRangeType
  <2>4. r.phys \in Phys /\ r.space \in Space
    BY <2>3, StateParts
  <2>5. phys' \in Phys
    BY <1>5, <2>4
  <2> QED BY <1>2, <1>3, <1>5, <2>3, <2>4, <2>5, SpaceChange
<1>6. CASE Halt("Panic")
  BY <1>2, <1>3, <1>6, HaltKeeps
<1> QED BY <1>2, <1>4, <1>5, <1>6

LEMMA AccessKeeps ==
    ASSUME UInv, NEW t \in Tasks, NEW c \in Accesses, NEW mode, Access(t, c[1], c[2], mode)
    PROVE  UInv'
<1>c. PICK va \in 0 .. USIZE - 1, kind \in {c[2]} : va = c[1] /\ kind = c[2]
  BY AccessAssumption
<1>a. Access(t, va, kind, mode)
  BY <1>c
<1>v. PICK vpn \in Nat : vpn = VpnFromVa(va)
  <2>1. 0 \in 0 .. USIZE - 1
    BY VMAssumption
  <2> QED BY <2>1, RequestPages
<1>1. PICK r, p : /\ r = map(phys, spaces[t], vpn, Need(kind))
                  /\ p = Translate(phys.mem, spaces[t].root_pgt.ppn, vpn).ppn
  OBVIOUS
<1>2. /\ UNCHANGED <<kernel_satp, started>> /\ spaces[t] # NONE
      /\ \/ /\ phys' = [phys EXCEPT !.mem[p][0] = Word(t)] \/ phys' = phys
            /\ UNCHANGED <<spaces, halt>>
         \/ Halt("TrapPanic")
         \/ Halt("Panic")
         \/ phys' = r.phys /\ spaces' = [spaces EXCEPT ![t] = r.space] /\ UNCHANGED halt
         \/ phys' = DropSpace(r.phys, r.space) /\ spaces' = [spaces EXCEPT ![t] = NONE] /\ UNCHANGED halt
  BY <1>a, <1>v, <1>1, Zenon DEF Access, Runs
<1>3. started' \in 0 .. Cardinality(Tasks) /\ phys \in Phys /\ UNCHANGED kernel_satp
  BY <1>2 DEF UInv
<1>s. PICK sp \in Space : sp = spaces[t] /\ Apart(sp.areas)
  BY <1>2 DEF UInv
<1>r. r.phys \in Phys /\ r.space \in Space /\ Apart(r.space.areas)
  <2>1. r.phys \in Phys /\ r.space \in Space /\ SameRanges(sp.areas, r.space.areas)
    BY <1>1, <1>3, <1>s, MapType
  <2> QED BY <2>1, <1>s, SameApart
<1>4. CASE /\ phys' = [phys EXCEPT !.mem[p][0] = Word(t)] \/ phys' = phys
           /\ UNCHANGED <<spaces, halt>>
  <2>1. phys' \in Phys
    <3>1. Word(t) \in Words
      BY WordTypes
    <3>2. [phys EXCEPT !.mem[p][0] = Word(t)] \in Phys
      BY <3>1, <1>3, PhysParts
    <3> QED BY <3>2, <1>3, <1>4
  <2> QED BY <2>1, <1>2, <1>4 DEF UInv, Apart
<1>5. CASE Halt("TrapPanic")
  BY <1>3, <1>5, HaltKeeps
<1>6. CASE Halt("Panic")
  BY <1>3, <1>6, HaltKeeps
<1>7. CASE phys' = r.phys /\ spaces' = [spaces EXCEPT ![t] = r.space] /\ UNCHANGED halt
  <2>1. phys' \in Phys
    BY <1>7, <1>r
  <2> QED BY <2>1, <1>3, <1>7, <1>r, SpaceChange
<1>8. CASE phys' = DropSpace(r.phys, r.space) /\ spaces' = [spaces EXCEPT ![t] = NONE] /\ UNCHANGED halt
  <2>1. phys' \in Phys
    BY <1>8, <1>r, DropSpaceType
  <2> QED BY <2>1, <1>3, <1>8, SpaceChange
<1> QED BY <1>2, <1>4, <1>5, <1>6, <1>7, <1>8

LEMMA ExitKeeps ==
    ASSUME UInv, NEW t \in Tasks, Exit(t)
    PROVE  UInv'
<1>1. /\ UNCHANGED <<kernel_satp, started, halt>> /\ spaces[t] # NONE
      /\ phys' = DropSpace(phys, spaces[t]) /\ spaces' = [spaces EXCEPT ![t] = NONE]
  BY DEF Exit, Runs, Finish
<1>2. started' \in 0 .. Cardinality(Tasks) /\ phys \in Phys /\ spaces[t] \in Space
  BY <1>1 DEF UInv
<1>3. phys' \in Phys
  BY <1>1, <1>2, DropSpaceType
<1> QED BY <1>1, <1>2, <1>3, SpaceChange

\* The invariant is inductive.
LEMMA UInvNext == UInv /\ [Next]_vars => UInv'
<1> SUFFICES ASSUME UInv, [Next]_vars PROVE UInv'
  OBVIOUS
<1>1. CASE AddTask
  BY <1>1, AddTaskKeeps
<1>2. ASSUME NEW t \in Tasks, NEW c \in MmapCalls, Mmap(t, c[1], c[2], c[3]) PROVE UInv'
  BY <1>2, MmapKeeps
<1>3. ASSUME NEW t \in Tasks, NEW c \in MunmapCalls, Munmap(t, c[1], c[2]) PROVE UInv'
  BY <1>3, MunmapKeeps
<1>4. ASSUME NEW t \in Tasks, NEW c \in Accesses, NEW mode \in {"user", "kernel"},
             Access(t, c[1], c[2], mode)
      PROVE  UInv'
  BY <1>4, AccessKeeps
<1>5. ASSUME NEW t \in Tasks, Exit(t) PROVE UInv'
  BY <1>5, ExitKeeps
<1>6. CASE Off \/ UNCHANGED vars
  <2>1. UNCHANGED <<phys, spaces, halt, kernel_satp, started>>
    BY <1>6 DEF Off, vars
  <2> QED BY <2>1, QuietKeeps
<1> QED BY <1>1, <1>2, <1>3, <1>4, <1>5, <1>6 DEF Next

\* Whatever the programs ask for, memory, the allocator, the page tables and the
\* areas of UserMemory keep their types, and the areas of a space lie apart.
THEOREM MemoryInvariance == Spec => []UInv
BY UInvInit, UInvNext, PTL DEF Spec

\* UserMemory: the page allocator, the tables and the areas hold pages of
\* physical memory only.
THEOREM MemoryTypeCorrect == Spec => []TypeOK
<1>1. UInv => TypeOK
  <2> SUFFICES ASSUME UInv PROVE TypeOK
    OBVIOUS
  <2>1. phys.alloc \in Alloc /\ phys.mem \in Memory(Words)
    BY PhysParts DEF UInv
  <2>2. DOMAIN phys.mem = PPN
    BY <2>1 DEF Memory
  <2>3. phys.alloc.recycled_ppn \in Seq(PPN)
    BY <2>1 DEF Alloc
  <2>4. ASSUME NEW t \in Alive
        PROVE  /\ spaces[t].root_pgt.pages \in Seq(PPN)
               /\ \A i \in DOMAIN spaces[t].areas :
                     spaces[t].areas[i].pages \in [DOMAIN spaces[t].areas[i].pages -> PPN]
    <3>1. PICK sp \in Space : sp = spaces[t]
      BY DEF UInv, Alive
    <3>2. sp.root_pgt.pages \in Seq(PPN) /\ sp.areas \in Seq(Area)
      BY DEF Space, Root
    <3>3. ASSUME NEW i \in DOMAIN sp.areas PROVE sp.areas[i].pages \in [DOMAIN sp.areas[i].pages -> PPN]
      <4>1. PICK a \in Area : a = sp.areas[i]
        BY <3>2
      <4>2. a.pages \in [DOMAIN a.pages -> PPN]
        BY AreaParts, PageMapIs
      <4> QED BY <4>1, <4>2
    <3> QED BY <3>1, <3>2, <3>3
  <2> QED BY <2>2, <2>3, <2>4 DEF UInv, TypeOK
<1> QED BY <1>1, MemoryInvariance, PTL

\* UserMemory: however new_user, mmap and munmap place and cut them, the areas
\* of a space are not empty, do not overlap, and hold pages of their own range.
THEOREM AreasStayApart == Spec => []AreasDisjoint
<1>1. UInv => AreasDisjoint
  <2> SUFFICES ASSUME UInv, NEW t \in Alive, NEW al, al = spaces[t].areas
               PROVE  /\ \A i \in DOMAIN al :
                            /\ al[i].start_vpn < al[i].end_vpn
                            /\ DOMAIN al[i].pages \subseteq al[i].start_vpn .. al[i].end_vpn - 1
                      /\ \A i, j \in DOMAIN al :
                            i # j => \/ al[i].end_vpn <= al[j].start_vpn
                                     \/ al[j].end_vpn <= al[i].start_vpn
    BY DEF AreasDisjoint
  <2>1. PICK sp \in Space : sp = spaces[t] /\ Apart(sp.areas)
    BY DEF UInv, Alive
  <2>2. al \in Seq(Area) /\ Apart(al) /\ DOMAIN al = 1 .. Len(al)
    <3>1. al \in Seq(Area)
      BY <2>1, StateParts
    <3> QED BY <3>1, <2>1
  <2>3. ASSUME NEW i \in DOMAIN al
        PROVE  /\ al[i].start_vpn < al[i].end_vpn
               /\ DOMAIN al[i].pages \subseteq al[i].start_vpn .. al[i].end_vpn - 1
    <3>1. PICK a \in Area : a = al[i]
      BY <2>2
    <3> QED BY <3>1, AreaParts
  <2>4. ASSUME NEW i \in DOMAIN al, NEW j \in DOMAIN al, i # j
        PROVE  al[i].end_vpn <= al[j].start_vpn \/ al[j].end_vpn <= al[i].start_vpn
    BY <2>2, <2>4 DEF Apart
  <2> QED BY <2>3, <2>4
<1> QED BY <1>1, MemoryInvariance, PTL
=============================================================================
