-------------------------- MODULE Sv39TableProofs --------------------------
(***************************************************************************)
(* Proofs about Sv39Table: the user tables are a tree (Sv39Proofs), which  *)
(* every map_create and every unmap keeps, and the map the hardware reads  *)
(* off it changes as PageMap says.                                         *)
(***************************************************************************)
EXTENDS Sv39Table, Sv39Proofs
-----------------------------------------------------------------------------
(* The inductive invariant.                                                *)
Returns == {"Ok", "AcquirePageFailed", "InvalidPteFlags", "DoubleMapping"}

At(al, m, rt) == Good(PTE, al, m, rt) /\ phys = PhysRec(al, m) /\ root = rt /\ kernel_satp = F

IInv ==
    /\ At(phys.alloc, phys.mem, root)
    /\ res \in Returns

\* The parts of the state.
LEMMA PhysParts ==
    ASSUME NEW al, NEW m
    PROVE  PhysRec(al, m).alloc = al /\ PhysRec(al, m).mem = m
BY DEF PhysRec

\* The invariant holds initially, and nothing is mapped.
LEMMA InitInv ==
    ASSUME Init
    PROVE  IInv /\ \A i \in UserIndex : ~Has1(phys.mem, root.ppn, i)
<1>k. PICK k, u : k = init_kernel_satp /\ u = new_copy(k.phys, k.phys.mem[k.root.ppn])
  OBVIOUS
<1>0. kernel_satp = k.root.ppn /\ phys = u.phys /\ root = u.root /\ res = "Ok"
  BY <1>k, Zenon DEF Init
<1>1. PICK m, q : k.phys = PhysRec(Fresh(F + 3), m) /\ k.root = [ppn |-> F, pages |-> q] /\ BootMem(m)
  BY <1>k, BootKernel
<1>2. k.root.ppn = F /\ k.phys.mem = m
  BY <1>1 DEF PhysRec
<1>a. PICK al : al = Fresh(F + 3) /\ AllocOk(al) /\ FreeOf(al) = Pool
  BY BootFree
<1>3. u = new_copy(PhysRec(al, m), m[F])
  BY <1>k, <1>1, <1>2, <1>a
<1>4. F + 3 \in Pool
  <2>1. F \in Nat /\ compute_max_ppn \in Nat /\ F + 4 <= compute_max_ppn
    BY Layout, TableAssumption DEF F
  <2> QED BY <2>1, Layout
<1>5. PICK p, a2, out : Copied(PTE, u, al, m, p, a2, out)
  <2>1. m \in Memory(PTE) /\ KernelMem(m)
    BY <1>1 DEF BootMem
  <2>2. FreeOf(al) # {}
    BY <1>a, <1>4
  <2> QED BY <1>3, <1>a, <2>1, <2>2, NewCopy
<1>r. PICK rt : rt = [ppn |-> p, pages |-> <<p>>]
  OBVIOUS
<1>6. u = Result(PhysRec(a2, out), rt, "Ok") /\ Good(PTE, a2, out, rt)
      /\ \A i \in UserIndex : ~Has1(out, p, i)
  BY <1>5, <1>r DEF Copied
<1>7. phys = PhysRec(a2, out) /\ root = rt /\ rt.ppn = p
  BY <1>0, <1>6, <1>r DEF Result
<1>8. phys.alloc = a2 /\ phys.mem = out
  BY <1>7, PhysParts
<1>9. At(phys.alloc, phys.mem, root)
  BY <1>0, <1>2, <1>6, <1>7, <1>8 DEF At
<1> QED BY <1>0, <1>6, <1>7, <1>8, <1>9 DEF IInv, Returns

\* What a step does, seen from the state before it: it is a call of map_create
\* or of unmap, or it changes nothing.
MapStep(al, m, rt, al2, m2, rt2) ==
    \E v \in UserVpns, e \in PTE :
       /\ op' = [name |-> "map", vpn |-> v, ppn |-> e.ppn, flags |-> e.flags]
       /\ e = [ppn |-> e.ppn, flags |-> e.flags]
       /\ Mapped(PTE, [phys |-> phys', root |-> root', res |-> res'], al, m, rt, al2, m2, rt2,
                 parse_vpn(v)[2], parse_vpn(v)[1], parse_vpn(v)[0], e)

UnmapStep(al, m, rt, m2) ==
    \E s \in 0 .. USER_END_VPN, e \in 0 .. USER_END_VPN :
       /\ op' = [name |-> "unmap", first |-> s, end |-> e]
       /\ Unmapped(PTE, [phys |-> phys', root |-> root', res |-> res'], al, m2, rt, m, s, e)

\* Every step is one of these.
LEMMA Steps ==
    ASSUME NEW al, NEW m, NEW rt, At(al, m, rt), [Next]_vars
    PROVE  \/ \E al2, m2, rt2 : MapStep(al, m, rt, al2, m2, rt2) /\ kernel_satp' = kernel_satp
           \/ \E m2 : UnmapStep(al, m, rt, m2) /\ kernel_satp' = kernel_satp
           \/ UNCHANGED vars
<1>g. Good(PTE, al, m, rt) /\ phys = PhysRec(al, m) /\ root = rt
  BY DEF At
<1>1. ASSUME NEW vpn \in MapVpns, NEW ppn \in UserFrames, NEW flags \in UserFlags,
             MapCreate(vpn, ppn, flags)
      PROVE  \E al2, m2, rt2 : MapStep(al, m, rt, al2, m2, rt2) /\ kernel_satp' = kernel_satp
  <2>1. vpn \in UserVpns
    BY TableAssumption
  <2>2. PICK e \in PTE : e = [ppn |-> ppn, flags |-> flags]
    BY TableAssumption
  <2>3. e.ppn = ppn /\ e.flags = flags
    BY <2>2
  <2>4. PICK r : r = map_create(PhysRec(al, m), rt, vpn, ppn, flags)
    OBVIOUS
  <2>5. phys' = r.phys /\ root' = r.root /\ res' = r.res /\ kernel_satp' = kernel_satp
        /\ op' = [name |-> "map", vpn |-> vpn, ppn |-> ppn, flags |-> flags]
    BY <1>1, <1>g, <2>4, Zenon DEF MapCreate, Finish
  <2>6. PICK al2, m2, rt2 : Mapped(PTE, r, al, m, rt, al2, m2, rt2, parse_vpn(vpn)[2],
                                   parse_vpn(vpn)[1], parse_vpn(vpn)[0], e)
    <3>1. PTE \subseteq PTE
      OBVIOUS
    <3> QED BY <3>1, <1>g, <2>1, <2>2, <2>4, MapCreateResult
  <2>7. PICK w : w = [phys |-> phys', root |-> root', res |-> res']
    OBVIOUS
  <2>8. w.phys = r.phys /\ w.root = r.root /\ w.res = r.res
    BY <2>5, <2>7
  <2>9. Mapped(PTE, w, al, m, rt, al2, m2, rt2, parse_vpn(vpn)[2], parse_vpn(vpn)[1],
               parse_vpn(vpn)[0], e)
    BY <2>6, <2>8 DEF Mapped
  <2>10. MapStep(al, m, rt, al2, m2, rt2)
    BY <2>1, <2>2, <2>3, <2>5, <2>7, <2>9 DEF MapStep
  <2> QED BY <2>5, <2>10
<1>2. ASSUME NEW first \in RangeVpns, NEW end \in RangeVpns, Unmap(first, end)
      PROVE  \E m2 : UnmapStep(al, m, rt, m2) /\ kernel_satp' = kernel_satp
  <2>1. first \in 0 .. USER_END_VPN /\ end \in 0 .. USER_END_VPN /\ PTE \subseteq PTE
    BY TableAssumption
  <2>2. PICK r, o : r = unmap(PhysRec(al, m), rt, first, end) /\ o = rt.ppn
    OBVIOUS
  <2>3. phys' = r.phys /\ root' = r.root /\ res' = r.res /\ kernel_satp' = kernel_satp
        /\ op' = [name |-> "unmap", first |-> first, end |-> end]
    BY <1>2, <1>g, <2>2, Zenon DEF Unmap, Finish
  <2>4. PICK m2 : Unmapped(PTE, r, al, m2, rt, m, first, end)
    BY <1>g, <2>1, <2>2, UnmapResult
  <2>5. PICK w : w = [phys |-> phys', root |-> root', res |-> res']
    OBVIOUS
  <2>6. w.phys = r.phys /\ w.root = r.root /\ w.res = r.res
    BY <2>3, <2>5
  <2>7. Unmapped(PTE, w, al, m2, rt, m, first, end)
    BY <2>4, <2>6 DEF Unmapped
  <2>8. UnmapStep(al, m, rt, m2)
    BY <2>1, <2>3, <2>5, <2>7 DEF UnmapStep
  <2> QED BY <2>3, <2>8
<1> QED BY <1>1, <1>2 DEF Next

\* A step keeps the invariant, and the root page.
LEMMA StepInv ==
    ASSUME IInv, [Next]_vars
    PROVE  IInv' /\ root'.ppn = root.ppn
<1>n. PICK al, m, rt : al = phys.alloc /\ m = phys.mem /\ rt = root
  OBVIOUS
<1>a. At(al, m, rt) /\ kernel_satp = F /\ res \in Returns
  BY <1>n DEF IInv, At
<1>0. ASSUME NEW al2, NEW m2, NEW rt2, Good(PTE, al2, m2, rt2), phys' = PhysRec(al2, m2), root' = rt2,
             kernel_satp' = kernel_satp, res' \in Returns
      PROVE  IInv'
  <2>1. phys'.alloc = al2 /\ phys'.mem = m2
    BY <1>0, PhysParts
  <2> QED BY <1>0, <1>a, <2>1 DEF IInv, At
<1>1. ASSUME NEW al2, NEW m2, NEW rt2, MapStep(al, m, rt, al2, m2, rt2), kernel_satp' = kernel_satp
      PROVE  IInv' /\ root'.ppn = root.ppn
  <2>1. PICK v \in UserVpns, e \in PTE :
           Mapped(PTE, [phys |-> phys', root |-> root', res |-> res'], al, m, rt, al2, m2, rt2,
                  parse_vpn(v)[2], parse_vpn(v)[1], parse_vpn(v)[0], e)
    BY <1>1 DEF MapStep
  <2>2. Good(PTE, al2, m2, rt2) /\ phys' = PhysRec(al2, m2) /\ root' = rt2 /\ res' \in Returns
        /\ rt2.ppn = rt.ppn
    BY <2>1 DEF Mapped, Returns, Grown
  <2> QED BY <1>0, <1>1, <2>2, <1>n
<1>2. ASSUME NEW m2, UnmapStep(al, m, rt, m2), kernel_satp' = kernel_satp
      PROVE  IInv' /\ root'.ppn = root.ppn
  <2>1. PICK s \in 0 .. USER_END_VPN, e \in 0 .. USER_END_VPN :
           Unmapped(PTE, [phys |-> phys', root |-> root', res |-> res'], al, m2, rt, m, s, e)
    BY <1>2 DEF UnmapStep
  <2>2. Good(PTE, al, m2, rt) /\ phys' = PhysRec(al, m2) /\ root' = rt /\ res' \in Returns
    BY <2>1 DEF Unmapped, Returns
  <2> QED BY <1>0, <1>2, <2>2, <1>n
<1>3. CASE UNCHANGED vars
  BY <1>3, <1>a DEF vars, IInv, At
<1> QED BY <1>a, <1>1, <1>2, <1>3, Steps

\* Whatever map_create and unmap are asked for, the tables are a tree below a
\* root whose kernel half is the kernel's, on pages that are not free.
THEOREM TableInvariance == Spec => []IInv
<1>1. Init => IInv
  BY InitInv
<1>2. IInv /\ [Next]_vars => IInv'
  BY StepInv
<1> QED BY <1>1, <1>2, PTL DEF Spec

\* The table pages and the pages a RootPgt owns stay page numbers of memory, and
\* map_create and unmap return Ok or an error.
THEOREM TableTypeCorrect == Spec => []TypeOK
<1>1. ASSUME IInv PROVE TypeOK
  <2>n. PICK al, m, rt : al = phys.alloc /\ m = phys.mem /\ rt = root
    OBVIOUS
  <2>a. Good(PTE, al, m, rt) /\ kernel_satp = F /\ res \in Returns
    BY <1>1, <2>n DEF IInv, At
  <2>f. F \in PPN /\ Pool \subseteq PPN /\ F \in Nat /\ compute_max_ppn \in Nat
    BY Layout
  <2>s. ASSUME NEW q \in Seq(Pool) PROVE q \in Seq(PPN)
    BY <2>f, SeqWider
  <2>1. al.recycled_ppn \in Seq(PPN) /\ al.next_unused_ppn \in Nat
    BY <2>a, <2>f, <2>s DEF Good, AllocOk
  <2>2. DOMAIN m = PPN
    BY <2>a DEF Good, Memory
  <2>3. rt.ppn \in PPN /\ rt.pages \in Seq(PPN)
    BY <2>a, <2>f, <2>s DEF Good, RootOk
  <2> QED BY <2>1, <2>2, <2>3, <2>a, <2>f, <2>n DEF TypeOK, Returns
<1> QED BY <1>1, TableInvariance, PTL

\* unmap returns on every range of user space: neither the panic at its end nor
\* one of its asserts is reached, whatever tables exist.
THEOREM UnmapAlwaysReturns == Spec => []UnmapReturns
<1>1. ASSUME IInv PROVE UnmapReturns
  BY <1>1 DEF IInv, Returns, UnmapReturns
<1> QED BY <1>1, TableInvariance, PTL

\* The user tables are the tables the root reaches.
LEMMA ReachedTables ==
    ASSUME NEW m, NEW r, NEW T, Tree(m, r, T)
    PROVE  Tables1(m, r, UserIndex) \cup Tables0(m, r, UserIndex) = T
<1>1. ASSUME NEW p
      PROVE  p \in Tables1(m, r, UserIndex) <=> \E i \in UserIndex : Has1(m, r, i) /\ T1At(m, r, i) = p
  BY DEF Tables1, Has1, T1At
<1>2. \A i \in UserIndex, j \in Index : Has0(m, r, i, j) => ~is_leaf(m[T1At(m, r, i)][j])
  BY DEF Tree, Points, is_leaf
<1>3. ASSUME NEW p
      PROVE  p \in Tables0(m, r, UserIndex) <=>
                \E i \in UserIndex, j \in Index : Has0(m, r, i, j) /\ T0At(m, r, i, j) = p
  <2>1. p \in Tables0(m, r, UserIndex) <=>
           \E t \in Tables1(m, r, UserIndex) :
              \E j \in Index : is_valid(m[t][j]) /\ ~is_leaf(m[t][j]) /\ m[t][j].ppn = p
    BY DEF Tables0
  <2>2. ASSUME NEW t \in Tables1(m, r, UserIndex), NEW j \in Index,
               is_valid(m[t][j]), ~is_leaf(m[t][j]), m[t][j].ppn = p
        PROVE  \E i \in UserIndex, k \in Index : Has0(m, r, i, k) /\ T0At(m, r, i, k) = p
    <3>1. PICK i \in UserIndex : Has1(m, r, i) /\ T1At(m, r, i) = t
      BY <1>1
    <3>2. Has0(m, r, i, j) /\ T0At(m, r, i, j) = p
      BY <2>2, <3>1 DEF Has0, T0At
    <3> QED BY <3>2
  <2>3. ASSUME NEW i \in UserIndex, NEW j \in Index, Has0(m, r, i, j), T0At(m, r, i, j) = p
        PROVE  \E t \in Tables1(m, r, UserIndex) :
                  \E k \in Index : is_valid(m[t][k]) /\ ~is_leaf(m[t][k]) /\ m[t][k].ppn = p
    <3>1. PICK t : t = T1At(m, r, i)
      OBVIOUS
    <3>2. t \in Tables1(m, r, UserIndex)
      BY <2>3, <3>1, <1>1 DEF Has0
    <3>3. is_valid(m[t][j]) /\ ~is_leaf(m[t][j]) /\ m[t][j].ppn = p
      BY <2>3, <3>1, <1>2 DEF Has0, T0At
    <3> QED BY <3>2, <3>3
  <2> QED BY <2>1, <2>2, <2>3
<1>4. \A p : p \in Tables1(m, r, UserIndex) => p \in T
  BY <1>1 DEF Tree, Points
<1>5. \A p : p \in Tables0(m, r, UserIndex) => p \in T
  BY <1>3 DEF Tree, Points
<1>6. \A p \in T : p \in Tables1(m, r, UserIndex) \/ p \in Tables0(m, r, UserIndex)
  BY <1>1, <1>3 DEF Tree, Reached
<1> QED BY <1>4, <1>5, <1>6

\* A list without repetitions is as long as it has elements.
LEMMA NoRepeatCount ==
    ASSUME NEW S, NEW s \in Seq(S), NoRepeat(s)
    PROVE  Len(s) = Cardinality(ToSet(s))
<1>1. PICK n \in Nat : n = Len(s) /\ DOMAIN s = 1 .. n
  OBVIOUS
<1>2. s \in [1 .. n -> ToSet(s)]
  BY <1>1 DEF ToSet
<1>3. s \in Bijection(1 .. n, ToSet(s))
  BY <1>1, <1>2 DEF Bijection, Injection, Surjection, IsInjective, NoRepeat, ToSet
<1>4. ExistsBijection(1 .. n, ToSet(s))
  BY <1>3 DEF ExistsBijection
<1> QED BY <1>1, <1>4, FS_CountingElements

\* Dropping the RootPgt recycles each of its tables once, and nothing else: its
\* pages are the root and the tables below it, after failed calls too.
THEOREM PagesAreItsTables == Spec => []PagesAreTables
<1>1. ASSUME IInv PROVE PagesAreTables
  <2>n. PICK al, m, rt : al = phys.alloc /\ m = phys.mem /\ rt = root
    OBVIOUS
  <2>a. Good(PTE, al, m, rt)
    BY <1>1, <2>n DEF IInv, At
  <2>b. /\ rt.ppn \in Tabs(rt) /\ Tabs(rt) \cap FreeOf(al) = {}
        /\ Tree(m, rt.ppn, Tabs(rt) \ {rt.ppn}) /\ NoRepeat(rt.pages)
        /\ rt.pages \in Seq(Pool)
    BY <2>a DEF Good, RootOk
  <2>1. Tables1(m, rt.ppn, UserIndex) \cup Tables0(m, rt.ppn, UserIndex) = Tabs(rt) \ {rt.ppn}
    BY <2>b, ReachedTables
  <2>2. Len(rt.pages) = Cardinality(Tabs(rt))
    BY <2>b, NoRepeatCount DEF Tabs
  <2>3. ToSet(rt.pages) \cap ToSet(al.recycled_ppn) = {}
    BY <2>b DEF FreeOf, Tabs
  <2> QED BY <2>1, <2>2, <2>3, <2>b, <2>n DEF PagesAreTables, Tabs
<1> QED BY <1>1, TableInvariance, PTL

\* No operation on a user table writes the kernel half that every RootPgt shares.
THEOREM KernelHalfKept == Spec => KernelHalfUntouched
<1> DEFINE Keeps ==
       /\ \A i \in KernelIndex : phys.mem'[root.ppn][i] = phys.mem[kernel_satp][i]
       /\ \A t \in KernelTables(phys.mem, kernel_satp) : phys.mem'[t] = phys.mem[t]
<1>1. ASSUME IInv, IInv', [Next]_vars PROVE Keeps
  <2>m. PICK m, m2, r : m = phys.mem /\ m2 = phys'.mem /\ r = root.ppn
    OBVIOUS
  <2>0. root'.ppn = r
    BY <1>1, <2>m, StepInv
  <2>1. KernelMem(m) /\ KernelMem(m2) /\ (\A i \in KernelIndex : m2[r][i] = m2[F][i])
        /\ kernel_satp = F
    BY <1>1, <2>0, <2>m DEF IInv, At, Good
  <2>2. m2[F] = m[F] /\ m2[F + 1] = m[F + 1] /\ m2[F + 2] = m[F + 2]
    BY <2>1 DEF KernelMem
  <2>3. \A i \in KernelIndex : m2[r][i] = m[F][i]
    BY <2>1, <2>2
  <2>4. \A t \in KernelTables(m, F) : m2[t] = m[t]
    BY <2>1, <2>2, ThreeKernelTables
  <2> QED BY <2>1, <2>3, <2>4, <2>m
<1>2. IInv /\ IInv' /\ [Next]_vars => [Keeps]_vars
  BY <1>1
<1> QED BY <1>2, TableInvariance, PTL DEF Spec, KernelHalfUntouched
-----------------------------------------------------------------------------
(* The refinement of PageMap.                                              *)
FlatMap(m, r) == [v \in UserVpns |-> Translate(m, r, v)]

\* The hardware's translation of a page is what Look finds, if anything.
LEMMA FlatLooks ==
    ASSUME NEW al, NEW m, NEW rt, Good(PTE, al, m, rt), NEW v \in UserVpns,
           NEW i, NEW j, NEW k, i = parse_vpn(v)[2], j = parse_vpn(v)[1], k = parse_vpn(v)[0]
    PROVE  /\ i \in UserIndex /\ j \in Index /\ k \in Index /\ v = VpnOf(i, j, k)
           /\ Look(m, rt.ppn, i, j, k) = {} <=> Translate(m, rt.ppn, v) = NONE
           /\ Look(m, rt.ppn, i, j, k) # {} => Look(m, rt.ppn, i, j, k) = {Translate(m, rt.ppn, v)}
<1>1. Points(m, rt.ppn, Tabs(rt) \ {rt.ppn})
  BY DEF Good, Tree
<1>2. i \in UserIndex /\ j \in Index /\ k \in Index /\ v = VpnOf(i, j, k)
      /\ Translates(m, rt.ppn, v, i, j, k)
  BY <1>1, TranslateLooks
<1>3. PICK L : L = Look(m, rt.ppn, i, j, k)
  OBVIOUS
<1>4. OneWord(L, PTE)
  BY <1>2, <1>3, LookWord
<1> QED BY <1>2, <1>3, <1>4, TableAssumption DEF Translates, OneWord

\* An operation that changes no path from the root changes no translation.
LEMMA SameFlat ==
    ASSUME NEW al, NEW m, NEW rt, Good(PTE, al, m, rt), NEW al2, NEW m2, NEW rt2,
           Good(PTE, al2, m2, rt2), NEW r, rt.ppn = r, rt2.ppn = r, SameLook(m, m2, r)
    PROVE  FlatMap(m2, r) = FlatMap(m, r)
<1>2. ASSUME NEW v \in UserVpns PROVE Translate(m2, r, v) = Translate(m, r, v)
  <2>1. PICK i, j, k : i = parse_vpn(v)[2] /\ j = parse_vpn(v)[1] /\ k = parse_vpn(v)[0]
    OBVIOUS
  <2>2. /\ i \in UserIndex /\ j \in Index /\ k \in Index
        /\ Look(m, r, i, j, k) = {} <=> Translate(m, r, v) = NONE
        /\ Look(m, r, i, j, k) # {} => Look(m, r, i, j, k) = {Translate(m, r, v)}
    BY <2>1, FlatLooks
  <2>3. /\ Look(m2, r, i, j, k) = {} <=> Translate(m2, r, v) = NONE
        /\ Look(m2, r, i, j, k) # {} => Look(m2, r, i, j, k) = {Translate(m2, r, v)}
    BY <2>1, FlatLooks
  <2>4. Look(m2, r, i, j, k) = Look(m, r, i, j, k)
    BY <2>2 DEF SameLook
  <2> QED BY <2>2, <2>3, <2>4
<1> QED BY <1>2 DEF FlatMap

\* map_create enters its page in the map f the hardware reads, or leaves that
\* map; g is the map afterwards.
Enters(r, f, g, v, e) ==
    \/ r.res = "InvalidPteFlags" /\ ~is_valid_flags(e.flags) /\ g = f
    \/ r.res = "DoubleMapping" /\ f[v] # NONE /\ g = f
    \/ r.res = "AcquirePageFailed" /\ f[v] = NONE /\ g = f
    \/ r.res = "Ok" /\ is_valid_flags(e.flags) /\ f[v] = NONE /\ g = [f EXCEPT ![v] = e]

LEMMA MapFlat ==
    ASSUME NEW al, NEW m, NEW rt, Good(PTE, al, m, rt), NEW v \in UserVpns, NEW e \in PTE, NEW r,
           NEW al2, NEW m2, NEW rt2, NEW i, NEW j, NEW k,
           i = parse_vpn(v)[2], j = parse_vpn(v)[1], k = parse_vpn(v)[0],
           Mapped(PTE, r, al, m, rt, al2, m2, rt2, i, j, k, e), NEW o, o = rt.ppn
    PROVE  Enters(r, FlatMap(m, o), FlatMap(m2, o), v, e)
<1>1. Good(PTE, al2, m2, rt2) /\ rt2.ppn = o
  BY DEF Mapped, Grown
<1>3. /\ i \in UserIndex /\ j \in Index /\ k \in Index /\ v = VpnOf(i, j, k)
      /\ FlatMap(m, o)[v] = NONE <=> Look(m, o, i, j, k) = {}
  BY FlatLooks DEF FlatMap
<1>4. CASE SameLook(m, m2, o) /\ r.res # "Ok"
  <2>1. FlatMap(m2, o) = FlatMap(m, o)
    BY <1>1, <1>4, SameFlat
  <2> QED BY <1>3, <1>4, <2>1 DEF Mapped, Enters
<1>5. CASE ~(SameLook(m, m2, o) /\ r.res # "Ok")
  <2>1. r.res = "Ok" /\ is_valid_flags(e.flags) /\ Look(m, o, i, j, k) = {}
        /\ Entered(m2, m, o, i, j, k, e)
    BY <1>5 DEF Mapped
  <2>2. ASSUME NEW w \in UserVpns
        PROVE  Translate(m2, o, w) = IF w = v THEN e ELSE Translate(m, o, w)
    <3>1. PICK a, b, c : a = parse_vpn(w)[2] /\ b = parse_vpn(w)[1] /\ c = parse_vpn(w)[0]
      OBVIOUS
    <3>2. /\ a \in UserIndex /\ b \in Index /\ c \in Index /\ w = VpnOf(a, b, c)
          /\ Look(m, o, a, b, c) = {} <=> Translate(m, o, w) = NONE
          /\ Look(m, o, a, b, c) # {} => Look(m, o, a, b, c) = {Translate(m, o, w)}
      BY <3>1, FlatLooks
    <3>3. /\ Look(m2, o, a, b, c) = {} <=> Translate(m2, o, w) = NONE
          /\ Look(m2, o, a, b, c) # {} => Look(m2, o, a, b, c) = {Translate(m2, o, w)}
      BY <1>1, <3>1, FlatLooks
    <3>4. w = v <=> (a = i /\ b = j /\ c = k)
      BY <1>3, <3>1, <3>2
    <3>5. Look(m2, o, a, b, c) = IF a = i /\ b = j /\ c = k THEN {e} ELSE Look(m, o, a, b, c)
      BY <2>1, <3>2 DEF Entered
    <3> QED BY <3>2, <3>3, <3>4, <3>5
  <2>3. FlatMap(m2, o) = [FlatMap(m, o) EXCEPT ![v] = e]
    BY <2>2 DEF FlatMap
  <2> QED BY <1>3, <2>1, <2>3 DEF Enters
<1> QED BY <1>4, <1>5

\* unmap takes its range out of the map the hardware reads.
LEMMA UnmapFlat ==
    ASSUME NEW al, NEW m, NEW rt, Good(PTE, al, m, rt), NEW s, NEW e, NEW r, NEW m2,
           Unmapped(PTE, r, al, m2, rt, m, s, e), NEW o, o = rt.ppn
    PROVE  FlatMap(m2, o) = [v \in UserVpns |-> IF s <= v /\ v < e THEN NONE ELSE FlatMap(m, o)[v]]
<1>1. Good(PTE, al, m2, rt) /\ Cleared(m2, m, o, s, e)
  BY DEF Unmapped
<1>2. ASSUME NEW v \in UserVpns
      PROVE  Translate(m2, o, v) = IF s <= v /\ v < e THEN NONE ELSE Translate(m, o, v)
  <2>1. PICK i, j, k : i = parse_vpn(v)[2] /\ j = parse_vpn(v)[1] /\ k = parse_vpn(v)[0]
    OBVIOUS
  <2>2. /\ i \in UserIndex /\ j \in Index /\ k \in Index /\ v = VpnOf(i, j, k)
        /\ Look(m, o, i, j, k) = {} <=> Translate(m, o, v) = NONE
        /\ Look(m, o, i, j, k) # {} => Look(m, o, i, j, k) = {Translate(m, o, v)}
    BY <2>1, FlatLooks
  <2>3. /\ Look(m2, o, i, j, k) = {} <=> Translate(m2, o, v) = NONE
        /\ Look(m2, o, i, j, k) # {} => Look(m2, o, i, j, k) = {Translate(m2, o, v)}
    BY <1>1, <2>1, FlatLooks
  <2>4. Look(m2, o, i, j, k) = IF s <= v /\ v < e THEN {} ELSE Look(m, o, i, j, k)
    BY <1>1, <2>2 DEF Cleared
  <2> QED BY <2>2, <2>3, <2>4
<1> QED BY <1>2 DEF FlatMap

\* The tables implement the partial function from pages to entries: a failed
\* map_create changes no translation and names its cause, a successful one
\* enters its page, and an unmap takes away its range and nothing else.
THEOREM TablesImplementPageMap == Spec => ImplementsPageMap
<1>1. ASSUME Init PROVE Flat!MapInit
  <2>m. PICK m, rt, al : m = phys.mem /\ rt = root /\ al = phys.alloc
    OBVIOUS
  <2>1. IInv /\ \A i \in UserIndex : ~Has1(m, rt.ppn, i)
    BY <1>1, <2>m, InitInv
  <2>2. Good(PTE, al, m, rt)
    BY <2>1, <2>m DEF IInv, At
  <2>3. ASSUME NEW v \in UserVpns PROVE Translate(m, rt.ppn, v) = NONE
    <3>1. PICK i, j, k : i = parse_vpn(v)[2] /\ j = parse_vpn(v)[1] /\ k = parse_vpn(v)[0]
      OBVIOUS
    <3>3. i \in UserIndex /\ (Look(m, rt.ppn, i, j, k) = {} <=> Translate(m, rt.ppn, v) = NONE)
      BY <3>1, <2>2, FlatLooks
    <3> QED BY <3>3, <2>1 DEF Look, Has0
  <2>4. [v \in UserVpns |-> Translate(phys.mem, root.ppn, v)] = [v \in UserVpns |-> NONE]
    BY <2>2, <2>3, <2>m
  <2>5. op = NONE /\ res = "Ok"
    BY <1>1, Zenon DEF Init
  <2> QED BY <2>4, <2>5 DEF Flat!MapInit
<1>2. ASSUME IInv, IInv', [Next]_vars PROVE [Flat!MapNext]_Flat!mvars
  <2>n. PICK al, m, rt, o : al = phys.alloc /\ m = phys.mem /\ rt = root /\ o = rt.ppn
    OBVIOUS
  <2>a. At(al, m, rt) /\ Good(PTE, al, m, rt) /\ root.ppn = o /\ root'.ppn = o
    BY <1>2, <2>n, StepInv DEF IInv, At
  <2>p. PICK m2 : m2 = phys'.mem
    OBVIOUS
  <2>f. PICK f, g : /\ f = FlatMap(m, o) /\ f = [v \in UserVpns |-> Translate(phys.mem, root.ppn, v)]
                    /\ g = FlatMap(m2, o) /\ g = [v \in UserVpns |-> Translate(phys'.mem, root'.ppn, v)]
    BY <2>a, <2>n, <2>p DEF FlatMap
  <2>1. ASSUME NEW al3, NEW m3, NEW rt3, MapStep(al, m, rt, al3, m3, rt3) PROVE Flat!MapNext
    <3>1. PICK v \in UserVpns, e \in PTE :
            /\ op' = [name |-> "map", vpn |-> v, ppn |-> e.ppn, flags |-> e.flags]
            /\ e = [ppn |-> e.ppn, flags |-> e.flags]
            /\ Mapped(PTE, [phys |-> phys', root |-> root', res |-> res'], al, m, rt, al3, m3, rt3,
                      parse_vpn(v)[2], parse_vpn(v)[1], parse_vpn(v)[0], e)
      BY <2>1 DEF MapStep
    <3>2. m3 = m2
      <4>1. phys' = PhysRec(al3, m3)
        BY <3>1 DEF Mapped
      <4> QED BY <4>1, <2>p, PhysParts
    <3>r. PICK r : r = [phys |-> phys', root |-> root', res |-> res']
      OBVIOUS
    <3>3. r.res = res'
      BY <3>r
    <3>4. \/ res' = "InvalidPteFlags" /\ ~is_valid_flags(e.flags) /\ g = f
          \/ res' = "DoubleMapping" /\ f[v] # NONE /\ g = f
          \/ res' = "AcquirePageFailed" /\ f[v] = NONE /\ g = f
          \/ res' = "Ok" /\ is_valid_flags(e.flags) /\ f[v] = NONE /\ g = [f EXCEPT ![v] = e]
      <4>i. PICK i, j, k : i = parse_vpn(v)[2] /\ j = parse_vpn(v)[1] /\ k = parse_vpn(v)[0]
        OBVIOUS
      <4>1. Mapped(PTE, r, al, m, rt, al3, m2, rt3, i, j, k, e)
        BY <3>1, <3>2, <3>r, <4>i
      <4>2. Good(PTE, al, m, rt) /\ o = rt.ppn
        BY <2>a, <2>n
      <4>3. Enters(r, FlatMap(m, o), FlatMap(m2, o), v, e)
        BY <4>i, <4>1, <4>2, MapFlat
      <4>4. f = FlatMap(m, o) /\ g = FlatMap(m2, o)
        BY <2>f
      <4>5. Enters(r, f, g, v, e)
        BY <4>3, <4>4
      <4> QED BY <4>5, <3>3 DEF Enters
    <3>5. op'.name = "map" /\ op'.vpn = v /\ op'.flags = e.flags /\ op'.ppn = e.ppn
          /\ [ppn |-> op'.ppn, flags |-> op'.flags] = e
      BY <3>1
    <3>6. CASE g = f /\ res' # "Ok"
      <4>1. Flat!Reject
        BY <3>4, <3>5, <3>6, <2>f DEF Flat!Reject
      <4> QED BY <4>1 DEF Flat!MapNext
    <3>7. CASE ~(g = f /\ res' # "Ok")
      <4>1. res' = "Ok" /\ is_valid_flags(e.flags) /\ f[v] = NONE /\ g = [f EXCEPT ![v] = e]
        BY <3>4, <3>7
      <4>2. Flat!Enter
        BY <4>1, <3>5, <2>f DEF Flat!Enter
      <4> QED BY <4>2 DEF Flat!MapNext
    <3> QED BY <3>6, <3>7
  <2>2. ASSUME NEW m3, UnmapStep(al, m, rt, m3) PROVE Flat!MapNext
    <3>1. PICK s \in 0 .. USER_END_VPN, e \in 0 .. USER_END_VPN :
            /\ op' = [name |-> "unmap", first |-> s, end |-> e]
            /\ Unmapped(PTE, [phys |-> phys', root |-> root', res |-> res'], al, m3, rt, m, s, e)
      BY <2>2 DEF UnmapStep
    <3>2. m3 = m2 /\ res' = "Ok"
      <4>1. phys' = PhysRec(al, m3) /\ res' = "Ok"
        BY <3>1 DEF Unmapped
      <4> QED BY <4>1, <2>p, PhysParts
    <3>3. g = [v \in UserVpns |-> IF s <= v /\ v < e THEN NONE ELSE f[v]]
      <4>1. PICK r : r = [phys |-> phys', root |-> root', res |-> res']
        OBVIOUS
      <4>2. Unmapped(PTE, r, al, m2, rt, m, s, e)
        BY <3>1, <3>2, <4>1
      <4>3. Good(PTE, al, m, rt) /\ o = rt.ppn
        BY <2>a, <2>n
      <4>4. FlatMap(m2, o) = [v \in UserVpns |-> IF s <= v /\ v < e THEN NONE ELSE FlatMap(m, o)[v]]
        BY <4>2, <4>3, UnmapFlat
      <4>5. f = FlatMap(m, o) /\ g = FlatMap(m2, o)
        BY <2>f
      <4> QED BY <4>4, <4>5
    <3>4. op'.name = "unmap" /\ op'.first = s /\ op'.end = e
      BY <3>1
    <3>5. Flat!Remove
      BY <3>2, <3>3, <3>4, <2>f DEF Flat!Remove
    <3> QED BY <3>5 DEF Flat!MapNext
  <2>3. CASE UNCHANGED vars
    BY <2>3 DEF vars, Flat!mvars
  <2> QED BY <1>2, <2>a, <2>1, <2>2, <2>3, Steps
<1> QED BY <1>1, <1>2, TableInvariance, PTL DEF Spec, ImplementsPageMap, Flat!MapSpec
=============================================================================
