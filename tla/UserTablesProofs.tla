------------------------- MODULE UserTablesProofs -------------------------
(***************************************************************************)
(* Proofs about UserMemory, continued: what the page tables hold.  For any *)
(* number of tasks, any program and any sequence of requests, the tables   *)
(* of every space agree with its areas, each page has one owner, a task    *)
(* sees its own data only, and no assertion fails.  The order: what a      *)
(* space holds (Fits), what each operation of VMSpace does to it, what     *)
(* the hardware finds in it, the invariant of all spaces together, the     *)
(* actions, the theorems; then the same for what a task may reach, up to   *)
(* the proof that all this implements AddressSpace.                        *)
(***************************************************************************)
EXTENDS UserMemoryProofs
-----------------------------------------------------------------------------
(* What a space holds.  The pages that back its areas are a set B of       *)
(* records, one per virtual page.                                          *)
Backed == [vpn : Nat, ppn : PPN, flags : Flags]

PagesIn(a) ==
    {b \in Backed : b.vpn \in DOMAIN a.pages /\ b.ppn = a.pages[b.vpn] /\ b.flags = a.permissions}

Backing(areas) == {b \in Backed : \E i \in 1 .. Len(areas) : b \in PagesIn(areas[i])}

Frames(B) == {b.ppn : b \in B}

\* The entry a backed page must have, and the entries for the page v.
Entry(b) == [ppn |-> b.ppn, flags |-> b.flags \cup {"V"}]
Backs(B, v) == {Entry(b) : b \in {c \in B : c.vpn = v}}

\* The tables agree with B on every page of the lower half, ...
Agrees(m, r, B) ==
    \A i \in UserIndex, j \in Index, k \in Index : Look(m, r, i, j, k) = Backs(B, VpnOf(i, j, k))

\* ... no page of B is a table, free, or used twice, ...
Owns(al, rt, B) ==
    /\ B \subseteq Backed
    /\ \A b \in B : b.ppn \in Pool /\ b.ppn \notin FreeOf(al) /\ b.ppn \notin Tabs(rt)
    /\ \A b, c \in B : b.ppn = c.ppn \/ b.vpn = c.vpn => b = c

\* ... and the user pages hold zeroes and data of task t.
Own(t) == {Pte0, Word(t)}
Clean(m, B, t) ==
    \A b \in B : b.vpn < USER_END_VPN => \A x \in Index : m[b.ppn][x] \in Own(t)

Held(al, m, rt, B, t) ==
    Good(Words, al, m, rt) /\ Agrees(m, rt.ppn, B) /\ Owns(al, rt, B) /\ Clean(m, B, t)

\* Areas lie in user space, or in the kernel half.
InHalf(a) == IF a.map_type = "Anonymous" THEN a.end_vpn <= USER_END_VPN
             ELSE KERNEL_ROOT * ROOT_SPAN <= a.start_vpn

InHalves(areas) == \A i \in 1 .. Len(areas) : InHalf(areas[i])

PagesOf(sp) == Tabs(sp.root_pgt) \cup Frames(Backing(sp.areas))

Fits(ph, sp, t) ==
    InHalves(sp.areas) /\ Held(ph.alloc, ph.mem, sp.root_pgt, Backing(sp.areas), t)

\* Pages go from the free ones to Q and back, and only these are written.
Moves(al, m, Q, al2, m2, Q2) ==
    /\ FreeOf(al2) \cup Q2 = FreeOf(al) \cup Q
    /\ \A p \in PPN : p \notin FreeOf(al) \cup Q => m2[p] = m[p]

\* What a pool page of one space is to the rest: not free, not a kernel table.
LEMMA FrameFacts ==
    ASSUME NEW al, NEW m, NEW rt, NEW B, NEW t, Held(al, m, rt, B, t)
    PROVE  /\ Frames(B) \subseteq Pool /\ Frames(B) \subseteq PPN
           /\ Frames(B) \cap FreeOf(al) = {} /\ Frames(B) \cap Tabs(rt) = {}
           /\ \A b \in B : b \in Backed /\ b.ppn \in Frames(B)
<1>1. \A b \in B : b \in Backed /\ b.ppn \in Pool /\ b.ppn \notin FreeOf(al) /\ b.ppn \notin Tabs(rt)
  BY DEF Held, Owns
<1> QED BY <1>1, Layout DEF Frames

\* The tables below a root are pages of it.
LEMMA TreeTabs ==
    ASSUME NEW W, NEW al, NEW m, NEW rt, Good(W, al, m, rt)
    PROVE  /\ \A i \in UserIndex : Has1(m, rt.ppn, i) => T1At(m, rt.ppn, i) \in Tabs(rt)
           /\ \A i \in UserIndex, j \in Index : Has0(m, rt.ppn, i, j) => T0At(m, rt.ppn, i, j) \in Tabs(rt)
BY DEF Good, Tree, Points

\* A root whose pages, and the kernel's, are as they were, and not free.
LEMMA FrameGood ==
    ASSUME NEW W, NEW al, NEW m, NEW rt, Good(W, al, m, rt),
           NEW a2, AllocOk(a2), NEW m2 \in Memory(W),
           Tabs(rt) \cap FreeOf(a2) = {},
           \A p \in Tabs(rt) : m2[p] = m[p],
           m2[F] = m[F], m2[F + 1] = m[F + 1], m2[F + 2] = m[F + 2]
    PROVE  Good(W, a2, m2, rt) /\ SameLook(m, m2, rt.ppn)
<1> DEFINE r == rt.ppn
<1>1. r \in Tabs(rt)
  BY TabsApart
<1>2. m2[r] = m[r]
  BY <1>1
<1>3. \A i \in UserIndex : Has1(m, r, i) => m2[T1At(m, r, i)] = m[T1At(m, r, i)]
  BY TreeTabs
<1>4. PICK T : T = Tabs(rt) \ {rt.ppn}
  OBVIOUS
<1>5. Tree(m, r, T)
  BY <1>4 DEF Good
<1> HIDE DEF r
<1>6. /\ \A i \in UserIndex, j \in Index : Has0(m2, r, i, j) = Has0(m, r, i, j)
      /\ \A i \in UserIndex, j \in Index : Has0(m, r, i, j) => T0At(m2, r, i, j) = T0At(m, r, i, j)
      /\ Tree(m2, r, T)
  BY <1>2, <1>3, <1>5, SameTree
<1>7. RootOk(rt, a2) /\ KernelMem(m2)
  BY DEF Good, RootOk, KernelMem
<1>8. \A i \in KernelIndex : m2[r][i] = m2[F][i]
  BY <1>2 DEF Good, r
<1>9. Good(W, a2, m2, rt)
  BY <1>4, <1>6, <1>7, <1>8 DEF Good, r
<1>10. ASSUME NEW i \in UserIndex, NEW j \in Index, NEW k \in Index
       PROVE  Look(m2, r, i, j, k) = Look(m, r, i, j, k)
  <2>1. Has0(m, r, i, j) => m2[T0At(m, r, i, j)] = m[T0At(m, r, i, j)]
    BY TreeTabs DEF r
  <2> QED BY <2>1, <1>6 DEF Look
<1> QED BY <1>9, <1>10 DEF SameLook, r

\* The pages of a space are as they were, and none of them is free.
LEMMA FrameHeld ==
    ASSUME NEW al, NEW m, NEW rt, NEW B, NEW t, Held(al, m, rt, B, t),
           NEW a2, AllocOk(a2), NEW m2 \in Memory(Words),
           (Tabs(rt) \cup Frames(B)) \cap FreeOf(a2) = {},
           \A p \in Tabs(rt) \cup Frames(B) : m2[p] = m[p],
           m2[F] = m[F], m2[F + 1] = m[F + 1], m2[F + 2] = m[F + 2]
    PROVE  Held(a2, m2, rt, B, t)
<1>1. Good(Words, a2, m2, rt) /\ SameLook(m, m2, rt.ppn)
  BY FrameGood DEF Held
<1>2. Agrees(m2, rt.ppn, B)
  BY <1>1 DEF Held, Agrees, SameLook
<1>f. \A b \in B : b.ppn \in Frames(B)
  BY DEF Frames
<1>3. Owns(a2, rt, B)
  BY <1>f DEF Held, Owns
<1>4. Clean(m2, B, t)
  BY <1>f DEF Held, Clean
<1> QED BY <1>1, <1>2, <1>3, <1>4 DEF Held

\* The entries for a page when one page more, or less, is backed.
LEMMA BacksMore ==
    ASSUME NEW B, NEW b, NEW v
    PROVE  /\ b.vpn # v => Backs(B \cup {b}, v) = Backs(B, v)
           /\ b.vpn = v /\ (\A c \in B : c.vpn # v) => Backs(B \cup {b}, v) = {Entry(b)}
           /\ (\A c \in B : c.vpn # v) => Backs(B, v) = {}
           /\ b \in B /\ b.vpn = v /\ (\A c \in B : c.vpn = b.vpn => c = b) => Backs(B, v) = {Entry(b)}
<1>1. ASSUME b.vpn # v PROVE Backs(B \cup {b}, v) = Backs(B, v)
  <2>1. {c \in B \cup {b} : c.vpn = v} = {c \in B : c.vpn = v}
    BY <1>1
  <2> QED BY <2>1 DEF Backs
<1>2. ASSUME b.vpn = v, \A c \in B : c.vpn # v PROVE Backs(B \cup {b}, v) = {Entry(b)}
  <2>1. {c \in B \cup {b} : c.vpn = v} = {b}
    BY <1>2
  <2> QED BY <2>1 DEF Backs
<1>3. ASSUME \A c \in B : c.vpn # v PROVE Backs(B, v) = {}
  <2>1. {c \in B : c.vpn = v} = {}
    BY <1>3
  <2> QED BY <2>1 DEF Backs
<1>4. ASSUME b \in B, b.vpn = v, \A c \in B : c.vpn = b.vpn => c = b PROVE Backs(B, v) = {Entry(b)}
  <2>1. {c \in B : c.vpn = v} = {b}
    BY <1>4
  <2> QED BY <2>1 DEF Backs
<1> QED BY <1>1, <1>2, <1>3, <1>4

\* The indices of a page below the kernel half.
LEMMA LowIndices ==
    ASSUME NEW v \in Nat, v < KERNEL_ROOT * ROOT_SPAN
    PROVE  /\ parse_vpn(v)[2] \in UserIndex /\ parse_vpn(v)[1] \in Index /\ parse_vpn(v)[0] \in Index
           /\ v = VpnOf(parse_vpn(v)[2], parse_vpn(v)[1], parse_vpn(v)[0])
<1>n. PTES_PER_TABLE \in Nat /\ KERNEL_ROOT \in Nat /\ KERNEL_ROOT <= PTES_PER_TABLE
  BY Shape
<1>2. /\ parse_vpn(v) \in [0 .. 2 -> Index] /\ parse_vpn(v)[2] < KERNEL_ROOT
      /\ v = VpnOf(parse_vpn(v)[2], parse_vpn(v)[1], parse_vpn(v)[0])
  BY <1>n, ParseVpn
<1> QED BY <1>2, <1>n DEF Index, UserIndex

\* User space ends below the kernel half.
LEMMA UserLow ==
    /\ UserIndex \subseteq Index
    /\ \A v \in UserVpns : v \in Nat /\ v < KERNEL_ROOT * ROOT_SPAN /\ v < USER_END_VPN
    /\ USER_END_VPN \in Nat /\ USER_END_VPN < KERNEL_ROOT * ROOT_SPAN
    /\ KERNEL_ROOT * ROOT_SPAN \in Nat
<1>1. /\ PTES_PER_TABLE \in Nat /\ KERNEL_ROOT \in Nat /\ KERNEL_ROOT < PTES_PER_TABLE
      /\ ROOT_SPAN \in Nat /\ 1 <= KERNEL_ROOT /\ 2 <= ROOT_SPAN
  BY Shape
<1>2. PICK n \in Nat : n = KERNEL_ROOT * ROOT_SPAN
  BY <1>1
<1>3. USER_END_VPN \in Nat
  BY UserRange
<1>4. UserIndex \subseteq Index
  BY <1>1 DEF UserIndex, Index
<1>5. USER_END_VPN < n
  BY <1>2, <1>3 DEF USER_END_VPN
<1> QED BY <1>2, <1>3, <1>4, <1>5 DEF UserVpns

\* A page that is not the space's own yet, with zeroes or data of t in it.
Spare(al, m, rt, B, t, b) ==
    /\ b \in Backed /\ b.vpn \in UserVpns
    /\ b.ppn \in Pool /\ b.ppn \notin FreeOf(al) /\ b.ppn \notin Tabs(rt) /\ b.ppn \notin Frames(B)
    /\ \A c \in B : c.vpn # b.vpn
    /\ \A x \in Index : m[b.ppn][x] \in Own(t)

\* map_create on it: the tables grow, and agree with the pages, the new one
\* included when the answer is Ok.
Enters(r, al, m, rt, B, t, b, al2, m2, rt2) ==
    /\ r.phys = PhysRec(al2, m2) /\ r.root = rt2
    /\ Grown(al, m, rt, al2, m2, rt2)
    /\ \/ r.res = "Ok" /\ Held(al2, m2, rt2, B \cup {b}, t)
       \/ /\ r.res = "AcquirePageFailed" \/ (r.res = "InvalidPteFlags" /\ ~is_valid_flags(to_pte_flags(b.flags)))
          /\ Held(al2, m2, rt2, B, t)

\* map_create keeps tables and pages in agreement.
LEMMA MapEnters ==
    ASSUME NEW al, NEW m, NEW rt, NEW B, NEW t, Held(al, m, rt, B, t),
           NEW b, Spare(al, m, rt, B, t, b),
           NEW r, r = map_create(PhysRec(al, m), rt, b.vpn, b.ppn, to_pte_flags(b.flags))
    PROVE  \E al2, m2, rt2 : Enters(r, al, m, rt, B, t, b, al2, m2, rt2)
<1>v. PICK v \in UserVpns : v = b.vpn
  BY DEF Spare
<1>i. PICK i \in UserIndex, j \in Index, k \in Index :
         i = parse_vpn(v)[2] /\ j = parse_vpn(v)[1] /\ k = parse_vpn(v)[0] /\ v = VpnOf(i, j, k)
  BY LowIndices, UserLow
<1>e. PICK e : e = Entry(b)
  OBVIOUS
<1>e1. e = [ppn |-> b.ppn, flags |-> to_pte_flags(b.flags)]
  BY <1>e DEF Entry, to_pte_flags
<1>e2. e \in PTE
  <2>1. b.ppn \in Nat /\ b.flags \in Flags
    BY Layout DEF Spare, Backed
  <2>2. to_pte_flags(b.flags) \in SUBSET {"V", "R", "W", "X", "U"}
    BY <2>1, FlagWords
  <2> QED BY <1>e1, <2>1, <2>2 DEF PTE
<1>w. PTE \subseteq Words /\ Good(Words, al, m, rt)
  BY DEF Words, Held
<1>1. PICK al2, m2, rt2 : Mapped(Words, r, al, m, rt, al2, m2, rt2, i, j, k, e)
  <2>1. PICK ppn, flags : ppn = b.ppn /\ flags = to_pte_flags(b.flags)
    OBVIOUS
  <2>2. r = map_create(PhysRec(al, m), rt, v, ppn, flags) /\ e = [ppn |-> ppn, flags |-> flags]
    BY <2>1, <1>v, <1>e1
  <2> HIDE DEF Mapped
  <2>3. \E al2, m2, rt2 : Mapped(Words, r, al, m, rt, al2, m2, rt2,
                     parse_vpn(v)[2], parse_vpn(v)[1], parse_vpn(v)[0], e)
    BY <2>2, <1>e2, <1>w, MapCreateResult
  <2> QED BY <2>3, <1>i
<1>2. Look(m, rt.ppn, i, j, k) = {}
  <2>1. Backs(B, v) = {}
    BY <1>v, BacksMore DEF Spare
  <2> QED BY <2>1, <1>i DEF Held, Agrees
<1>g. Good(Words, al2, m2, rt2) /\ Grown(al, m, rt, al2, m2, rt2) /\ rt2.ppn = rt.ppn
  BY <1>1 DEF Mapped, Grown
<1>3. \A c \in B \cup {b} : /\ c \in Backed /\ c.ppn \in Pool /\ c.ppn \notin FreeOf(al2) /\ c.ppn \notin Tabs(rt2)
                            /\ m2[c.ppn] = m[c.ppn]
  <2> TAKE c \in B \cup {b}
  <2>1. c \in Backed /\ c.ppn \in Pool /\ c.ppn \notin FreeOf(al) \cup Tabs(rt)
    BY DEF Held, Owns, Spare
  <2> QED BY <2>1, <1>g, Layout DEF Grown
<1>4. Owns(al2, rt2, B \cup {b}) /\ Owns(al2, rt2, B)
  <2>1. B \cup {b} \subseteq Backed
    BY <1>3
  <2>2. \A c, d \in B \cup {b} : c.ppn = d.ppn \/ c.vpn = d.vpn => c = d
    <3>1. \A c \in B : c.ppn # b.ppn /\ c.vpn # b.vpn
      BY DEF Spare, Frames
    <3>2. \A c, d \in B : c.ppn = d.ppn \/ c.vpn = d.vpn => c = d
      BY DEF Held, Owns
    <3> QED BY <3>1, <3>2
  <2> QED BY <2>1, <2>2, <1>3 DEF Owns
<1>5. Clean(m2, B \cup {b}, t) /\ Clean(m2, B, t)
  BY <1>3 DEF Clean, Held, Spare
<1>6. ASSUME SameLook(m, m2, rt.ppn) PROVE Held(al2, m2, rt2, B, t)
  <2>1. Agrees(m2, rt2.ppn, B)
    BY <1>6, <1>g DEF Held, Agrees, SameLook
  <2> QED BY <2>1, <1>g, <1>4, <1>5 DEF Held
<1>7. ASSUME Entered(m2, m, rt.ppn, i, j, k, e) PROVE Held(al2, m2, rt2, B \cup {b}, t)
  <2>1. ASSUME NEW x \in UserIndex, NEW y \in Index, NEW z \in Index
        PROVE  Look(m2, rt.ppn, x, y, z) = Backs(B \cup {b}, VpnOf(x, y, z))
    <3>1. CASE x = i /\ y = j /\ z = k
      <4>1. Look(m2, rt.ppn, x, y, z) = {e}
        BY <3>1, <1>7 DEF Entered
      <4>2. Backs(B \cup {b}, v) = {e}
        BY <1>v, <1>e, BacksMore DEF Spare
      <4> QED BY <4>1, <4>2, <3>1, <1>i
    <3>2. CASE ~(x = i /\ y = j /\ z = k)
      <4>1. Look(m2, rt.ppn, x, y, z) = Look(m, rt.ppn, x, y, z)
        BY <3>2, <1>7 DEF Entered
      <4>2. VpnOf(x, y, z) # v
        BY <3>2, <1>i, VpnUnique, UserLow
      <4>3. Backs(B \cup {b}, VpnOf(x, y, z)) = Backs(B, VpnOf(x, y, z))
        BY <4>2, <1>v, BacksMore
      <4> QED BY <4>1, <4>3 DEF Held, Agrees
    <3> QED BY <3>1, <3>2
  <2>2. Agrees(m2, rt2.ppn, B \cup {b})
    BY <2>1, <1>g DEF Agrees
  <2> QED BY <2>2, <1>g, <1>4, <1>5 DEF Held
<1>8. \/ r.res = "Ok" /\ Held(al2, m2, rt2, B \cup {b}, t)
      \/ /\ r.res = "AcquirePageFailed" \/ (r.res = "InvalidPteFlags" /\ ~is_valid_flags(to_pte_flags(b.flags)))
         /\ Held(al2, m2, rt2, B, t)
  BY <1>1, <1>2, <1>6, <1>7, <1>e1 DEF Mapped
<1>9. Enters(r, al, m, rt, B, t, b, al2, m2, rt2)
  BY <1>1, <1>8, <1>g DEF Enters, Mapped
<1> QED BY <1>9

\* What is backed outside the range from s to e.
Rest(B, s, e) == {b \in B : ~(s <= b.vpn /\ b.vpn < e)}

\* unmap on a range of user space.
Clears(r, al, m, rt, B, t, s, e, m2) ==
    /\ r.phys = PhysRec(al, m2) /\ r.res = "Ok"
    /\ Grown(al, m, rt, al, m2, rt)
    /\ Held(al, m2, rt, Rest(B, s, e), t)

\* unmap takes the entries of exactly the pages in the range away.
LEMMA UnmapClears ==
    ASSUME NEW al, NEW m, NEW rt, NEW B, NEW t, Held(al, m, rt, B, t),
           NEW s \in 0 .. USER_END_VPN, NEW e \in 0 .. USER_END_VPN,
           NEW r, r = unmap(PhysRec(al, m), rt, s, e)
    PROVE  \E m2 : Clears(r, al, m, rt, B, t, s, e, m2)
<1>w. PTE \subseteq Words /\ Good(Words, al, m, rt)
  BY DEF Words, Held
<1>o. PICK o : o = rt.ppn
  OBVIOUS
<1>1. PICK m2 : Unmapped(Words, r, al, m2, rt, m, s, e)
  BY <1>w, <1>o, UnmapResult
<1>2. PICK R : R = Rest(B, s, e) /\ R \subseteq B
  BY DEF Rest
<1>3. ASSUME NEW i \in UserIndex, NEW j \in Index, NEW k \in Index
      PROVE  Look(m2, rt.ppn, i, j, k) = Backs(R, VpnOf(i, j, k))
  <2>1. PICK v : v = VpnOf(i, j, k)
    OBVIOUS
  <2>2. Look(m2, rt.ppn, i, j, k) = IF s <= v /\ v < e THEN {} ELSE Look(m, rt.ppn, i, j, k)
    BY <2>1, <1>1 DEF Unmapped, Cleared
  <2>3. CASE s <= v /\ v < e
    <3>a. \A c \in R : c.vpn # v
      BY <2>3, <1>2 DEF Rest
    <3>1. Backs(R, v) = {}
      BY <3>a, BacksMore
    <3> QED BY <2>1, <2>2, <2>3, <3>1
  <2>4. CASE ~(s <= v /\ v < e)
    <3>1. {c \in R : c.vpn = v} = {c \in B : c.vpn = v}
      BY <2>4, <1>2 DEF Rest
    <3>2. Backs(R, v) = Backs(B, v)
      BY <3>1 DEF Backs
    <3> QED BY <2>1, <2>2, <2>4, <3>2 DEF Held, Agrees
  <2> QED BY <2>3, <2>4
<1>4. Agrees(m2, rt.ppn, R)
  BY <1>3 DEF Agrees
<1>5. Owns(al, rt, R)
  BY <1>2 DEF Held, Owns
<1>6. \A b \in R : m2[b.ppn] = m[b.ppn]
  BY <1>1, <1>2, Layout DEF Held, Owns, Unmapped, Grown
<1>7. Clean(m2, R, t)
  BY <1>2, <1>6 DEF Held, Clean
<1>8. Held(al, m2, rt, R, t)
  BY <1>1, <1>4, <1>5, <1>7 DEF Held, Unmapped
<1>9. Clears(r, al, m, rt, B, t, s, e, m2)
  BY <1>1, <1>2, <1>8 DEF Clears, Unmapped
<1> QED BY <1>9
-----------------------------------------------------------------------------
(* Pages come and go.                                                      *)

\* The task, or the kernel for it, stores to a page it has.
LEMMA StoreHeld ==
    ASSUME NEW al, NEW m, NEW rt, NEW B, NEW t \in Tasks, Held(al, m, rt, B, t), NEW b \in B,
           NEW m2, m2 = Write(m, b.ppn, 0, Word(t))
    PROVE  Held(al, m2, rt, B, t) /\ \A p \in PPN : p \notin Frames(B) => m2[p] = m[p]
<1>1. m \in Memory(Words) /\ b.ppn \in PPN /\ 0 \in Index /\ Word(t) \in Words
  <2>1. m \in Memory(Words) /\ b.ppn \in Pool
    BY DEF Held, Good, Owns
  <2>2. 0 \in Index
    BY Shape DEF Index
  <2> QED BY <2>1, <2>2, Layout, WordTypes
<1>2. /\ m2 \in Memory(Words) /\ m2[b.ppn][0] = Word(t)
      /\ \A j \in Index : j # 0 => m2[b.ppn][j] = m[b.ppn][j]
      /\ \A p \in PPN : p # b.ppn => m2[p] = m[p]
  BY <1>1, EntryWrite
<1>3. /\ b.ppn \in Pool /\ b.ppn \notin Tabs(rt)
      /\ F \in PPN /\ F + 1 \in PPN /\ F + 2 \in PPN /\ Tabs(rt) \subseteq PPN
      /\ F # b.ppn /\ F + 1 # b.ppn /\ F + 2 # b.ppn /\ AllocOk(al) /\ Tabs(rt) \cap FreeOf(al) = {}
  <2>1. Good(Words, al, m, rt)
    BY DEF Held
  <2> QED BY <2>1, TabsApart, Layout DEF Held, Owns, Good
<1>4. Good(Words, al, m2, rt) /\ SameLook(m, m2, rt.ppn)
  <2>1. \A p \in Tabs(rt) : m2[p] = m[p]
    BY <1>2, <1>3
  <2>2. m2[F] = m[F] /\ m2[F + 1] = m[F + 1] /\ m2[F + 2] = m[F + 2]
    BY <1>2, <1>3
  <2> QED BY <1>2, <1>3, <2>1, <2>2, FrameGood DEF Held
<1>5. Agrees(m2, rt.ppn, B)
  BY <1>4 DEF Held, Agrees, SameLook
<1>6. Clean(m2, B, t)
  <2> SUFFICES ASSUME NEW c \in B, c.vpn < USER_END_VPN, NEW x \in Index PROVE m2[c.ppn][x] \in Own(t)
    BY DEF Clean
  <2>1. m[c.ppn][x] \in Own(t) /\ c.ppn \in PPN
    BY Layout DEF Held, Clean, Owns
  <2>2. Word(t) \in Own(t)
    BY DEF Own
  <2> QED BY <2>1, <2>2, <1>2
<1>7. \A p \in PPN : p \notin Frames(B) => m2[p] = m[p]
  BY <1>2 DEF Frames
<1> QED BY <1>4, <1>5, <1>6, <1>7 DEF Held

\* A space that has just been created backs nothing.
LEMMA StartHeld ==
    ASSUME NEW r, NEW al, NEW m, NEW p, NEW a2, NEW out, Copied(Words, r, al, m, p, a2, out), NEW t
    PROVE  Held(a2, out, [ppn |-> p, pages |-> <<p>>], {}, t)
<1>r. PICK rt : rt = [ppn |-> p, pages |-> <<p>>]
  OBVIOUS
<1>1. rt = [ppn |-> p, pages |-> <<p>>] /\ rt.ppn = p
  BY <1>r
<1>2. Good(Words, a2, out, rt) /\ \A i \in UserIndex : ~Has1(out, p, i)
  BY <1>1 DEF Copied
<1>3. \A v : Backs({}, v) = {}
  BY BacksMore
<1>4. Agrees(out, p, {})
  BY <1>2, <1>3 DEF Agrees, Look, Has0
<1>5. Owns(a2, rt, {}) /\ Clean(out, {}, t)
  BY DEF Owns, Clean
<1> QED BY <1>1, <1>2, <1>4, <1>5 DEF Held

\* The kernel stack: a page that only the kernel half maps.
StackPage(p) == [vpn |-> KernelVpn(p), ppn |-> p, flags |-> {"R", "W"}]

\* The space holds it, and its tables need no new entry.
LEMMA StackHeld ==
    ASSUME NEW al, NEW m, NEW rt, NEW B, NEW t, Held(al, m, rt, B, t),
           \A b \in B : b.vpn < USER_END_VPN, NEW p, NEW a2, Taken(al, p, a2)
    PROVE  /\ Held(a2, m, rt, B \cup {StackPage(p)}, t)
           /\ KERNEL_ROOT * ROOT_SPAN <= KernelVpn(p) /\ KernelVpn(p) \in Nat
<1>1. p \in Nat /\ p \in PPN /\ p \in Pool /\ p \in FreeOf(al) /\ AllocOk(a2) /\ FreeOf(a2) = FreeOf(al) \ {p}
  BY Layout DEF Taken
<1>2. KernelVpn(p) \in Nat /\ KERNEL_ROOT * ROOT_SPAN <= KernelVpn(p) /\ USER_END_VPN < KernelVpn(p)
      /\ USER_END_VPN \in Nat
  BY <1>1, UserLow DEF KernelVpn
<1>b. PICK b : b = StackPage(p)
  OBVIOUS
<1>3. b = StackPage(p) /\ b \in Backed /\ b.vpn = KernelVpn(p) /\ b.ppn = p
  BY <1>b, <1>1, <1>2 DEF StackPage, Backed, Flags
<1>4. p \notin Tabs(rt) /\ p \notin Frames(B)
  <2>1. Good(Words, al, m, rt)
    BY DEF Held
  <2> QED BY <2>1, <1>1, TabsApart, FrameFacts
<1>5. Held(a2, m, rt, B, t)
  <2>1. (Tabs(rt) \cup Frames(B)) \cap FreeOf(a2) = {}
    <3>1. Good(Words, al, m, rt)
      BY DEF Held
    <3> QED BY <3>1, <1>1, TabsApart, FrameFacts
  <2> QED BY <2>1, <1>1, FrameHeld DEF Held, Good
<1>6. Agrees(m, rt.ppn, B \cup {b})
  <2> SUFFICES ASSUME NEW i \in UserIndex, NEW j \in Index, NEW k \in Index
               PROVE  Look(m, rt.ppn, i, j, k) = Backs(B \cup {b}, VpnOf(i, j, k))
    BY DEF Agrees
  <2>1. VpnOf(i, j, k) < KERNEL_ROOT * ROOT_SPAN
    <3>1. KERNEL_ROOT \in Nat /\ KERNEL_ROOT <= PTES_PER_TABLE /\ i \in Nat /\ i < KERNEL_ROOT
      BY Shape DEF UserIndex
    <3> QED BY <3>1, ParseOf
  <2>2. VpnOf(i, j, k) # b.vpn
    BY <2>1, <1>2, <1>3, UserLow
  <2>3. Backs(B \cup {b}, VpnOf(i, j, k)) = Backs(B, VpnOf(i, j, k))
    BY <2>2, BacksMore
  <2> QED BY <2>3 DEF Held, Agrees
<1>7. Owns(a2, rt, B \cup {b})
  <2>1. \A c \in B : c.ppn # p /\ c.vpn # KernelVpn(p)
    <3>1. \A c \in B : c.ppn # p
      BY <1>4 DEF Frames
    <3>2. \A c \in B : c.vpn # KernelVpn(p)
      <4>1. \A c \in B : c.vpn \in Nat /\ c.vpn < USER_END_VPN
        BY DEF Held, Owns, Backed
      <4> QED BY <4>1, <1>2
    <3> QED BY <3>1, <3>2
  <2> QED BY <2>1, <1>1, <1>3, <1>4, <1>5 DEF Held, Owns
<1>8. Clean(m, B \cup {b}, t)
  BY <1>2, <1>3 DEF Held, Clean
<1> QED BY <1>2, <1>3, <1>5, <1>6, <1>7, <1>8 DEF Held

\* A map of pages that can be dropped: each is handed out, and once in the map.
Droppable(al, p) ==
    /\ \A v \in DOMAIN p : p[v] \in Pool /\ p[v] \notin FreeOf(al)
    /\ \A u, v \in DOMAIN p : p[u] = p[v] => u = v

Freed(out, ph, Q) ==
    /\ out \in Phys /\ out.mem = ph.mem
    /\ AllocOk(out.alloc) /\ FreeOf(out.alloc) = FreeOf(ph.alloc) \cup Q

\* Dropping it frees exactly its pages.
LEMMA DropFrees ==
    ASSUME NEW ph \in Phys, AllocOk(ph.alloc), NEW p \in PageMaps, NEW a \in Nat, NEW b \in Nat,
           DOMAIN p \subseteq a .. b, Droppable(ph.alloc, p), NEW out, out = DropPages(ph, p)
    PROVE  Freed(out, ph, Range(p))
<1>0. out \in Phys
  BY DropPagesType
<1>1. CASE DOMAIN p = {}
  <2>1. out = ph /\ Range(p) = {}
    BY <1>1, DropPagesType DEF Range
  <2> QED BY <2>1 DEF Freed
<1>2. CASE DOMAIN p # {}
  <2>1. PICK g, N, first : DropRun(g, N, first, ph, p)
    BY <1>2, DropPagesType
  <2>n. N \in Nat /\ first \in Int
    BY <2>1 DEF DropRun
  <2> DEFINE Done(n) == {p[v] : v \in {w \in DOMAIN p : w < first + n}}
             Ok(n, x) == AllocOk(x) /\ FreeOf(x) = FreeOf(ph.alloc) \cup Done(n)
  <2>d. DOMAIN p \subseteq Nat
    BY PageMapIs
  <2>0. PICK E : E = [n \in 0 .. N |-> {x \in {g[n]} : Ok(n, x)}]
    OBVIOUS
  <2>2. g[0] \in E[0]
    <3>1. Done(0) = {}
      <4>1. \A v \in DOMAIN p : ~(v < first + 0)
        BY <2>1, <2>d, <2>n DEF DropRun
      <4> QED BY <4>1
    <3> HIDE DEF Done
    <3>2. Ok(0, g[0])
      BY <2>1, <3>1 DEF DropRun
    <3> HIDE DEF Ok
    <3> QED BY <2>0, <2>n, <3>2
  <2>3. ASSUME NEW n \in 0 .. N - 1, g[n] \in E[n] PROVE g[n + 1] \in E[n + 1]
    <3>1. n \in 0 .. N /\ n + 1 \in 0 .. N
      BY <2>n
    <3>2. Ok(n, g[n])
      <4> HIDE DEF Ok
      <4> QED BY <2>0, <2>3, <3>1
    <3>3. PICK v \in Int : v = first + (n + 1) - 1 /\ v = first + n
      BY <2>n
    <3>4. g[n + 1] = IF v \in DOMAIN p THEN dealloc(g[n], p[v]) ELSE g[n]
      BY <2>1, <3>3 DEF DropRun
    <3>5. \A w \in DOMAIN p : w < first + (n + 1) <=> (w < first + n \/ w = v)
      BY <2>d, <2>n, <3>3
    <3>6. CASE v \in DOMAIN p
      <4>1. p[v] \in Pool /\ p[v] \notin FreeOf(ph.alloc)
        BY <3>6 DEF Droppable
      <4>2. p[v] \notin Done(n)
        <5>1. \A w \in DOMAIN p : w < first + n => w # v
          BY <3>3, <2>n
        <5> QED BY <5>1, <3>6 DEF Droppable
      <4>3. Done(n + 1) = Done(n) \cup {p[v]}
        BY <3>5, <3>6
      <4> HIDE DEF Done
      <4>4. AllocOk(dealloc(g[n], p[v])) /\ FreeOf(dealloc(g[n], p[v])) = FreeOf(g[n]) \cup {p[v]}
        BY <4>1, <4>2, <3>2, Dealloc
      <4>5. Ok(n + 1, g[n + 1])
        BY <4>3, <4>4, <3>2, <3>4, <3>6
      <4> HIDE DEF Ok
      <4> QED BY <4>5, <2>0, <3>1
    <3>7. CASE v \notin DOMAIN p
      <4>1. {w \in DOMAIN p : w < first + (n + 1)} = {w \in DOMAIN p : w < first + n}
        BY <3>5, <3>7
      <4>2. Done(n + 1) = Done(n)
        BY <4>1
      <4> HIDE DEF Done
      <4>3. Ok(n + 1, g[n + 1])
        BY <4>2, <3>2, <3>4, <3>7
      <4> HIDE DEF Ok
      <4> QED BY <4>3, <2>0, <3>1
    <3> QED BY <3>6, <3>7
  <2>4. g[N] \in E[N]
    <3>1. \A n \in 0 .. N : g[n] \in E[n]
      BY <2>2, <2>3, <2>n, LoopStays
    <3> QED BY <3>1, <2>n
  <2>5. Ok(N, g[N])
    <3> HIDE DEF Ok
    <3> QED BY <2>4, <2>0, <2>n
  <2>6. Done(N) = Range(p)
    <3>1. {w \in DOMAIN p : w < first + N} = DOMAIN p
      BY <2>1 DEF DropRun
    <3> QED BY <3>1 DEF Range
  <2> HIDE DEF Done
  <2>7. out = [ph EXCEPT !.alloc = g[N]]
    BY <2>1 DEF DropRun
  <2>8. out.alloc = g[N] /\ out.mem = ph.mem
    BY <2>7 DEF Phys
  <2> QED BY <1>0, <2>5, <2>6, <2>8 DEF Freed
<1> QED BY <1>1, <1>2
-----------------------------------------------------------------------------
(* The pages of a list of areas.                                           *)

\* The page p at v.
Page(v, p, f) == [vpn |-> v, ppn |-> p, flags |-> f]

\* The page an area holds for v.
PageOf(a, v) == [vpn |-> v, ppn |-> a.pages[v], flags |-> a.permissions]

\* The pages of an area are those of its map, inside its range.
LEMMA PagesInFacts ==
    ASSUME NEW a \in Area
    PROVE  /\ \A v \in DOMAIN a.pages : PageOf(a, v) \in PagesIn(a)
           /\ \A b \in PagesIn(a) : /\ b.vpn \in DOMAIN a.pages /\ b = PageOf(a, b.vpn)
                                    /\ a.start_vpn <= b.vpn /\ b.vpn < a.end_vpn /\ b.vpn \in Nat
           /\ DOMAIN a.pages = {} => PagesIn(a) = {}
<1>1. /\ a.pages \in PageMaps /\ a.permissions \in Flags /\ a.start_vpn \in Nat /\ a.end_vpn \in Nat
      /\ DOMAIN a.pages \subseteq a.start_vpn .. a.end_vpn - 1
  BY AreaParts
<1>2. a.pages \in [DOMAIN a.pages -> PPN] /\ DOMAIN a.pages \subseteq Nat
  BY <1>1, PageMapIs
<1>3. ASSUME NEW v \in DOMAIN a.pages PROVE PageOf(a, v) \in PagesIn(a)
  <2>1. a.pages[v] \in PPN /\ v \in Nat
    BY <1>2
  <2>2. PICK p \in PPN, f \in Flags : p = a.pages[v] /\ f = a.permissions
    BY <2>1, <1>1
  <2>3. PICK b : b = [vpn |-> v, ppn |-> p, flags |-> f]
    OBVIOUS
  <2>4. b \in Backed /\ b.vpn = v /\ b.ppn = p /\ b.flags = f
    BY <2>1, <2>3 DEF Backed
  <2>5. b = PageOf(a, v)
    BY <2>2, <2>3 DEF PageOf
  <2> QED BY <2>2, <2>4, <2>5 DEF PagesIn
<1>4. ASSUME NEW b \in PagesIn(a)
      PROVE  b.vpn \in DOMAIN a.pages /\ b = PageOf(a, b.vpn)
             /\ a.start_vpn <= b.vpn /\ b.vpn < a.end_vpn /\ b.vpn \in Nat
  <2>1. b \in Backed /\ b.vpn \in DOMAIN a.pages /\ b.ppn = a.pages[b.vpn] /\ b.flags = a.permissions
    BY DEF PagesIn
  <2>2. b = [vpn |-> b.vpn, ppn |-> b.ppn, flags |-> b.flags]
    BY <2>1 DEF Backed
  <2>3. b.vpn \in a.start_vpn .. a.end_vpn - 1
    BY <2>1, <1>1
  <2> QED BY <2>1, <2>2, <2>3, <1>1 DEF PageOf
<1> QED BY <1>3, <1>4

\* The pages of the areas other than i.
Others(al, i) == {b \in Backed : \E j \in 1 .. Len(al) : j # i /\ b \in PagesIn(al[j])}

\* The pages of all areas are those of one and those of the others.
LEMMA BackingSplit ==
    ASSUME NEW al, NEW i \in 1 .. Len(al)
    PROVE  Backing(al) = Others(al, i) \cup PagesIn(al[i])
BY DEF Backing, Others, PagesIn

\* A list that differs in one area.
LEMMA OthersSame ==
    ASSUME NEW al, NEW bs, NEW i, Len(al) = Len(bs), \A j \in 1 .. Len(al) : j # i => bs[j] = al[j]
    PROVE  Others(bs, i) = Others(al, i)
BY DEF Others

\* No areas, no pages.
LEMMA BackingEmpty == Backing(<< >>) = {}
BY DEF Backing

\* One more area brings its pages.
LEMMA BackingAppend ==
    ASSUME NEW al \in Seq(Area), NEW x \in Area
    PROVE  Backing(Append(al, x)) = Backing(al) \cup PagesIn(x)
<1>1. PICK bs : bs = Append(al, x)
  OBVIOUS
<1>2. Len(bs) = Len(al) + 1 /\ bs[Len(bs)] = x /\ Len(al) \in Nat /\ \A i \in 1 .. Len(al) : bs[i] = al[i]
  BY <1>1, AddedArea
<1>3. \A b \in Backed : (\E i \in 1 .. Len(bs) : b \in PagesIn(bs[i]))
                          <=> (\E i \in 1 .. Len(al) : b \in PagesIn(al[i])) \/ b \in PagesIn(x)
  <2> TAKE b \in Backed
  <2>1. ASSUME NEW i \in 1 .. Len(bs), b \in PagesIn(bs[i])
        PROVE  (\E k \in 1 .. Len(al) : b \in PagesIn(al[k])) \/ b \in PagesIn(x)
    <3>1. CASE i = Len(bs)
      BY <3>1, <2>1, <1>2
    <3>2. CASE i # Len(bs)
      <4>1. i \in 1 .. Len(al)
        BY <3>2, <1>2
      <4> QED BY <4>1, <2>1, <1>2
    <3> QED BY <3>1, <3>2
  <2>2. ASSUME NEW i \in 1 .. Len(al), b \in PagesIn(al[i]) PROVE \E k \in 1 .. Len(bs) : b \in PagesIn(bs[k])
    <3>1. i \in 1 .. Len(bs)
      BY <1>2
    <3> QED BY <3>1, <2>2, <1>2
  <2>3. ASSUME b \in PagesIn(x) PROVE \E k \in 1 .. Len(bs) : b \in PagesIn(bs[k])
    <3>1. Len(bs) \in 1 .. Len(bs)
      BY <1>2
    <3> QED BY <3>1, <2>3, <1>2
  <2> QED BY <2>1, <2>2, <2>3
<1>4. PagesIn(x) \subseteq Backed
  BY DEF PagesIn
<1> QED BY <1>1, <1>3, <1>4 DEF Backing

\* An area is given a page for v.
Inserted(al, bs, i, v, ppn) ==
    /\ v \notin DOMAIN al[i].pages /\ Len(bs) = Len(al)
    /\ bs[i].pages = Insert(al[i].pages, v, ppn) /\ bs[i].permissions = al[i].permissions
    /\ SameBut(al, bs, i)

\* The areas then back one page more.
LEMMA BackingInsert ==
    ASSUME NEW al \in Seq(Area), NEW i \in 1 .. Len(al), NEW v \in Nat,
           NEW ppn \in PPN, NEW bs \in Seq(Area), Inserted(al, bs, i, v, ppn)
    PROVE  Backing(bs) = Backing(al) \cup {Page(v, ppn, al[i].permissions)}
<1> USE DEF Inserted
<1>y. PICK y : y = Page(v, ppn, al[i].permissions)
  OBVIOUS
<1>1. PICK a \in Area, c \in Area : a = al[i] /\ c = bs[i]
  OBVIOUS
<1>2. PICK p \in PageMaps : p = a.pages
  BY AreaParts
<1>3. /\ DOMAIN c.pages = DOMAIN p \cup {v} /\ c.pages[v] = ppn /\ c.permissions = a.permissions
      /\ \A w \in DOMAIN p : w # v => c.pages[w] = p[w]
  <2>1. PICK q : q = Insert(p, v, ppn) /\ q = c.pages
    BY <1>1, <1>2
  <2>2. DOMAIN q = DOMAIN p \cup {v} /\ q[v] = ppn /\ \A w \in DOMAIN p : w # v => q[w] = p[w]
    BY <2>1 DEF Insert
  <2> QED BY <2>1, <2>2, <1>1
<1>4. PICK n : n = PageOf(c, v)
  OBVIOUS
<1>5. n = y
  BY <1>1, <1>3, <1>4, <1>y DEF PageOf, Page
<1>6. PagesIn(c) = PagesIn(a) \cup {n}
  <2>1. n \in PagesIn(c)
    BY <1>3, <1>4, PagesInFacts
  <2>2. ASSUME NEW b \in PagesIn(c), b # n PROVE b \in PagesIn(a)
    <3>1. b \in Backed /\ b.vpn \in DOMAIN c.pages /\ b.ppn = c.pages[b.vpn] /\ b.flags = c.permissions
      BY DEF PagesIn
    <3>2. b.vpn # v
      BY <2>2, <1>4, PagesInFacts
    <3> QED BY <3>1, <3>2, <1>2, <1>3 DEF PagesIn
  <2>3. ASSUME NEW b \in PagesIn(a) PROVE b \in PagesIn(c)
    <3>1. b \in Backed /\ b.vpn \in DOMAIN p /\ b.ppn = p[b.vpn] /\ b.flags = a.permissions
      BY <1>2 DEF PagesIn
    <3>2. b.vpn # v
      BY <3>1, <1>1, <1>2
    <3> QED BY <3>1, <3>2, <1>3 DEF PagesIn
  <2> QED BY <2>1, <2>2, <2>3
<1>7. Others(bs, i) = Others(al, i)
  BY OthersSame DEF SameBut
<1>8. Backing(al) = Others(al, i) \cup PagesIn(a) /\ Backing(bs) = Others(bs, i) \cup PagesIn(c)
  <2>1. i \in 1 .. Len(bs)
    OBVIOUS
  <2> QED BY <2>1, <1>1, BackingSplit
<1> QED BY <1>5, <1>6, <1>7, <1>8, <1>y

\* Pages of two areas are different pages.
LEMMA BackingApart ==
    ASSUME NEW al \in Seq(Area), Apart(al), NEW i \in 1 .. Len(al)
    PROVE  \A b \in Others(al, i) : b.vpn < al[i].start_vpn \/ al[i].end_vpn <= b.vpn
<1> SUFFICES ASSUME NEW b \in Others(al, i) PROVE b.vpn < al[i].start_vpn \/ al[i].end_vpn <= b.vpn
  OBVIOUS
<1>1. PICK j \in 1 .. Len(al) : j # i /\ b \in PagesIn(al[j])
  BY DEF Others
<1>2. PICK a \in Area, c \in Area : a = al[i] /\ c = al[j]
  OBVIOUS
<1>3. c.start_vpn <= b.vpn /\ b.vpn < c.end_vpn /\ b.vpn \in Nat
  BY <1>1, <1>2, PagesInFacts
<1>4. a.end_vpn <= c.start_vpn \/ c.end_vpn <= a.start_vpn
  BY <1>1, <1>2 DEF Apart
<1>5. a.start_vpn \in Nat /\ a.end_vpn \in Nat /\ c.start_vpn \in Nat /\ c.end_vpn \in Nat
  BY AreaParts
<1>6. b.vpn < a.start_vpn \/ a.end_vpn <= b.vpn
  BY <1>3, <1>4, <1>5
<1> QED BY <1>2, <1>6

\* The pages of a part of an area.
LEMMA CutPages ==
    ASSUME NEW a \in Area, NEW c \in Area, NEW s \in Int, NEW e \in Int, c.permissions = a.permissions,
           c.pages = Only(a.pages, s .. e - 1)
    PROVE  PagesIn(c) = {b \in PagesIn(a) : s <= b.vpn /\ b.vpn < e}
<1>1. PICK p \in PageMaps : p = a.pages /\ DOMAIN p \subseteq Nat
  BY AreaParts, PageMapIs
<1>2. DOMAIN c.pages = DOMAIN p \cap (s .. e - 1) /\ \A w \in DOMAIN p \cap (s .. e - 1) : c.pages[w] = p[w]
  <2>1. PICK q, S : S = s .. e - 1 /\ q = Only(p, S) /\ q = c.pages
    BY <1>1
  <2>2. DOMAIN q = DOMAIN p \cap S /\ \A w \in DOMAIN p \cap S : q[w] = p[w]
    BY <2>1 DEF Only, Restrict
  <2> QED BY <2>1, <2>2
<1>3. ASSUME NEW b \in PagesIn(c) PROVE b \in PagesIn(a) /\ s <= b.vpn /\ b.vpn < e
  <2>1. b \in Backed /\ b.vpn \in DOMAIN c.pages /\ b.ppn = c.pages[b.vpn] /\ b.flags = a.permissions
    BY DEF PagesIn
  <2>2. b.vpn \in DOMAIN p /\ b.vpn \in s .. e - 1 /\ b.ppn = p[b.vpn]
    BY <2>1, <1>2
  <2> QED BY <2>1, <2>2, <1>1 DEF PagesIn
<1>4. ASSUME NEW b \in PagesIn(a), s <= b.vpn, b.vpn < e PROVE b \in PagesIn(c)
  <2>1. b \in Backed /\ b.vpn \in DOMAIN p /\ b.ppn = p[b.vpn] /\ b.flags = a.permissions
    BY <1>1 DEF PagesIn
  <2>2. b.vpn \in s .. e - 1
    BY <2>1, <1>1, <1>4
  <2> QED BY <2>1, <2>2, <1>2 DEF PagesIn
<1> QED BY <1>3, <1>4

\* What munmap leaves of the areas backs what is left of their pages.
LEMMA RemainingBacks ==
    ASSUME NEW al \in Seq(Area), Apart(al), InHalves(al), NEW i \in 1 .. Len(al), NEW a \in Area, a = al[i],
           NEW b \in Nat, NEW e \in Nat, a.start_vpn <= b, b < e, e <= a.end_vpn,
           NEW bs, bs = Remaining(al, i, b, e)
    PROVE  Backing(bs) = Rest(Backing(al), b, e) /\ InHalves(bs)
<1>1. a.start_vpn \in Nat /\ a.end_vpn \in Nat /\ a.start_vpn < a.end_vpn /\ Len(al) \in Nat
  BY AreaParts
<1>p. PICK P : P = PagesIn(a)
  OBVIOUS
<1>q. \A c \in P : a.start_vpn <= c.vpn /\ c.vpn < a.end_vpn /\ c.vpn \in Nat
  BY <1>p, PagesInFacts
<1>2. Rest(Backing(al), b, e) = Others(al, i) \cup Rest(P, b, e)
  <2>1. Backing(al) = Others(al, i) \cup P
    BY <1>p, BackingSplit
  <2>2. \A c \in Others(al, i) : ~(b <= c.vpn /\ c.vpn < e)
    <3>1. \A c \in Others(al, i) : c.vpn < a.start_vpn \/ a.end_vpn <= c.vpn
      BY BackingApart
    <3>2. \A c \in Others(al, i) : c.vpn \in Nat
      BY DEF Others, Backed
    <3> QED BY <3>1, <3>2, <1>1
  <2> QED BY <2>1, <2>2 DEF Rest
<1>h. InHalf(a)
  BY DEF InHalves
<1>3. CASE b = a.start_vpn /\ e = a.end_vpn
  <2>1. bs = SwapRemove(al, i)
    BY <1>3 DEF Remaining
  <2>a. bs \in Seq(Area) /\ Len(bs) = Len(al) - 1 /\ Swapped(al, i, bs)
    BY <2>1, SwapRemoveType
  <2>2. /\ bs \in Seq(Area) /\ Len(bs) = Len(al) - 1
        /\ \A j \in 1 .. Len(al) - 1 : bs[j] = IF j = i THEN al[Len(al)] ELSE al[j]
    BY <2>a DEF Swapped
  <2>3. Rest(P, b, e) = {}
    BY <1>3, <1>q DEF Rest
  <2>4. \A j \in 1 .. Len(bs) : \E k \in 1 .. Len(al) : k # i /\ bs[j] = al[k]
    <3> TAKE j \in 1 .. Len(bs)
    <3>1. j \in 1 .. Len(al) - 1 /\ j \in 1 .. Len(al) /\ Len(al) \in 1 .. Len(al) /\ j # Len(al)
      BY <2>2, <1>1
    <3>2. CASE j = i
      BY <3>1, <3>2, <2>2
    <3>3. CASE j # i
      BY <3>1, <3>3, <2>2
    <3> QED BY <3>2, <3>3
  <2>5. \A k \in 1 .. Len(al) : k # i => \E j \in 1 .. Len(bs) : bs[j] = al[k]
    <3> SUFFICES ASSUME NEW k \in 1 .. Len(al), k # i PROVE \E j \in 1 .. Len(bs) : bs[j] = al[k]
      OBVIOUS
    <3>1. CASE k = Len(al)
      <4>1. i \in 1 .. Len(al) - 1 /\ i \in 1 .. Len(bs)
        BY <3>1, <1>1, <2>2
      <4> QED BY <3>1, <4>1, <2>2
    <3>2. CASE k # Len(al)
      <4>1. k \in 1 .. Len(al) - 1 /\ k \in 1 .. Len(bs)
        BY <3>2, <1>1, <2>2
      <4> QED BY <4>1, <2>2
    <3> QED BY <3>1, <3>2
  <2>6. Backing(bs) = Others(al, i)
    <3>1. ASSUME NEW c \in Backing(bs) PROVE c \in Others(al, i)
      <4>1. PICK j \in 1 .. Len(bs) : c \in Backed /\ c \in PagesIn(bs[j])
        BY DEF Backing
      <4>2. PICK k \in 1 .. Len(al) : k # i /\ bs[j] = al[k]
        BY <2>4
      <4> QED BY <4>1, <4>2 DEF Others
    <3>2. ASSUME NEW c \in Others(al, i) PROVE c \in Backing(bs)
      <4>1. PICK k \in 1 .. Len(al) : k # i /\ c \in Backed /\ c \in PagesIn(al[k])
        BY DEF Others
      <4>2. PICK j \in 1 .. Len(bs) : bs[j] = al[k]
        BY <2>5, <4>1
      <4> QED BY <4>1, <4>2 DEF Backing
    <3> QED BY <3>1, <3>2
  <2>7. InHalves(bs)
    BY <2>4 DEF InHalves
  <2> QED BY <2>3, <2>6, <2>7, <1>2
<1>4. CASE b = a.start_vpn /\ e # a.end_vpn
  <2>1. bs = [al EXCEPT ![i] = From(a, e)]
    BY <1>4 DEF Remaining
  <2>2. PICK c \in Area : /\ c = From(a, e) /\ c.end_vpn = a.end_vpn /\ c.start_vpn = e
                          /\ c.map_type = a.map_type /\ c.permissions = a.permissions
                          /\ c.pages = Only(a.pages, e .. a.end_vpn - 1)
    BY <1>1, <1>4, CutArea
  <2>3. bs = [al EXCEPT ![i] = c]
    BY <2>1, <2>2
  <2>4. /\ bs \in Seq(Area) /\ Len(bs) = Len(al) /\ bs[i] = c
        /\ \A j \in 1 .. Len(al) : j # i => bs[j] = al[j]
    BY <2>3, Replaced
  <2>5. PagesIn(c) = {x \in P : e <= x.vpn /\ x.vpn < a.end_vpn}
    BY <2>2, <1>1, <1>p, CutPages
  <2>6. PagesIn(c) = Rest(P, b, e)
    BY <2>5, <1>q, <1>1, <1>4 DEF Rest
  <2>7. Backing(bs) = Others(bs, i) \cup PagesIn(c) /\ Others(bs, i) = Others(al, i)
    BY <2>4, BackingSplit, OthersSame
  <2>8. InHalf(c)
    BY <2>2, <1>h, <1>1, <1>4, UserLow DEF InHalf
  <2>9. InHalves(bs)
    BY <2>4, <2>8 DEF InHalves
  <2> QED BY <2>6, <2>7, <2>9, <1>2
<1>5. CASE b # a.start_vpn
  <2>1. PICK c \in Area : /\ c = Below(a, b) /\ c.start_vpn = a.start_vpn /\ c.end_vpn = b
                          /\ c.map_type = a.map_type /\ c.permissions = a.permissions
                          /\ c.pages = Only(a.pages, a.start_vpn .. b - 1)
    BY <1>1, <1>5, CutArea
  <2>3. PICK cs : cs = [al EXCEPT ![i] = c]
    OBVIOUS
  <2>4. /\ cs \in Seq(Area) /\ Len(cs) = Len(al) /\ cs[i] = c
        /\ \A j \in 1 .. Len(al) : j # i => cs[j] = al[j]
    BY <2>3, Replaced
  <2>5. PagesIn(c) = {x \in P : a.start_vpn <= x.vpn /\ x.vpn < b}
    BY <2>1, <1>1, <1>p, CutPages
  <2>6. Backing(cs) = Others(al, i) \cup PagesIn(c)
    BY <2>4, BackingSplit, OthersSame
  <2>7. InHalf(c)
    BY <2>1, <1>h, <1>1, <1>5, UserLow DEF InHalf
  <2>8. InHalves(cs)
    BY <2>4, <2>7 DEF InHalves
  <2>9. CASE e = a.end_vpn
    <3>1. bs = cs
      BY <2>9, <1>5, <2>1, <2>3 DEF Remaining
    <3>2. PagesIn(c) = Rest(P, b, e)
      BY <2>5, <2>9, <1>q, <1>1 DEF Rest
    <3> QED BY <3>1, <3>2, <2>6, <2>8, <1>2
  <2>10. CASE e # a.end_vpn
    <3>1. PICK d \in Area : /\ d = From(a, e) /\ d.start_vpn = e /\ d.end_vpn = a.end_vpn
                            /\ d.map_type = a.map_type /\ d.permissions = a.permissions
                            /\ d.pages = Only(a.pages, e .. a.end_vpn - 1)
      BY <1>1, <2>10, CutArea
    <3>2. bs = Append(cs, d)
      BY <2>10, <1>5, <2>1, <2>3, <3>1 DEF Remaining
    <3>3. PagesIn(d) = {x \in P : e <= x.vpn /\ x.vpn < a.end_vpn}
      BY <3>1, <1>1, <1>p, CutPages
    <3>4. PagesIn(c) \cup PagesIn(d) = Rest(P, b, e)
      BY <2>5, <3>3, <1>q, <1>1 DEF Rest
    <3>5. Backing(bs) = Backing(cs) \cup PagesIn(d)
      BY <3>2, <2>4, BackingAppend
    <3>6. InHalf(d)
      BY <3>1, <1>h, <1>1, <2>10, UserLow DEF InHalf
    <3>7. Len(bs) = Len(cs) + 1 /\ bs[Len(bs)] = d /\ \A j \in 1 .. Len(cs) : bs[j] = cs[j]
      BY <3>2, <2>4, AddedArea
    <3>8. InHalves(bs)
      <4> SUFFICES ASSUME NEW j \in 1 .. Len(bs) PROVE InHalf(bs[j])
        BY DEF InHalves
      <4>1. j = Len(bs) \/ j \in 1 .. Len(cs)
        BY <3>7, <2>4, <1>1
      <4> QED BY <4>1, <3>6, <3>7, <2>8 DEF InHalves
    <3> QED BY <3>4, <3>5, <3>8, <2>6, <1>2
  <2> QED BY <2>9, <2>10
<1> QED BY <1>3, <1>4, <1>5

-----------------------------------------------------------------------------
(* Drop of a space.                                                        *)

\* The pages of the area a in the set S.
PartOf(a, S) == {b \in PagesIn(a) : b.vpn \in S}

Picks(p, a, S) == DOMAIN p = DOMAIN a.pages \cap S /\ \A v \in DOMAIN p : p[v] = a.pages[v]

\* A part of the pages of an area can be dropped.
LEMMA PartDrops ==
    ASSUME NEW ar \in Seq(Area), NEW i \in 1 .. Len(ar), NEW al, NEW rt, Owns(al, rt, Backing(ar)),
           NEW p \in PageMaps, NEW S, Picks(p, ar[i], S)
    PROVE  /\ Droppable(al, p)
           /\ Range(p) = Frames(PartOf(ar[i], S))
           /\ Range(p) \subseteq Frames(Backing(ar))
<1>a. PICK a \in Area : a = ar[i]
  OBVIOUS
<1>1. \A v \in DOMAIN p : PageOf(a, v) \in PagesIn(a) /\ PageOf(a, v).vpn = v /\ PageOf(a, v).ppn = p[v]
  <2>1. \A v \in DOMAIN a.pages : PageOf(a, v) \in PagesIn(a)
    BY PagesInFacts
  <2> QED BY <2>1, <1>a DEF PageOf, Picks
<1>2. PagesIn(a) \subseteq Backing(ar)
  BY <1>a, BackingSplit
<1>3. Droppable(al, p)
  BY <1>1, <1>2 DEF Droppable, Owns
<1>4. \A b \in PagesIn(a) : b.vpn \in DOMAIN a.pages /\ b.ppn = a.pages[b.vpn]
  BY DEF PagesIn
<1>5. Range(p) = {p[v] : v \in DOMAIN p}
  BY DEF Range
<1>6. Range(p) = Frames(PartOf(a, S))
  BY <1>1, <1>4, <1>5, <1>a DEF Frames, PartOf, Picks
<1>7. Range(p) \subseteq Frames(Backing(ar))
  BY <1>6, <1>2 DEF Frames, PartOf
<1> QED BY <1>3, <1>6, <1>7, <1>a

\* The pages of the first n areas.
Upto(ar, n) == {b \in Backed : \E i \in 1 .. n : b \in PagesIn(ar[i])}

\* Drop of a VMSpace frees its tables and the pages of its areas.
LEMMA DropSpaceFrees ==
    ASSUME NEW ph \in Phys, NEW sp \in Space, Apart(sp.areas), NEW t, Fits(ph, sp, t),
           NEW out, out = DropSpace(ph, sp)
    PROVE  Freed(out, ph, PagesOf(sp))
<1>a. PICK ar : ar = sp.areas
  OBVIOUS
<1>b. ar \in Seq(Area) /\ Len(ar) \in Nat
  BY <1>a, StateParts
<1>r. PICK rt : rt = sp.root_pgt
  OBVIOUS
<1>h. Held(ph.alloc, ph.mem, rt, Backing(ar), t)
  BY <1>a, <1>r DEF Fits
<1>g. PICK g : SpaceRun(g, ph, sp)
  BY DropSpaceType
<1> DEFINE Q(n) == Tabs(rt) \cup Frames(Upto(ar, n))
<1>0. PICK E : E = [n \in 0 .. Len(ar) |-> {x \in {g[n]} : Freed(x, ph, Q(n))}]
  OBVIOUS
<1>1. g[0] \in E[0]
  <2>1. g[0] = [ph EXCEPT !.alloc = DeallocSeq(@, rt.pages)] /\ g[0] \in Phys
    BY <1>g, <1>r, <1>a, <1>b DEF SpaceRun
  <2>2. g[0].alloc = DeallocSeq(ph.alloc, rt.pages) /\ g[0].mem = ph.mem
    BY <2>1 DEF Phys
  <2>3. rt.pages \in Seq(Pool) /\ NoRepeat(rt.pages) /\ ToSet(rt.pages) \cap FreeOf(ph.alloc) = {} /\ AllocOk(ph.alloc)
    BY <1>h DEF Held, Good, RootOk, Tabs
  <2>4. AllocOk(g[0].alloc) /\ FreeOf(g[0].alloc) = FreeOf(ph.alloc) \cup Tabs(rt)
    BY <2>2, <2>3, DeallocMany DEF Tabs
  <2>5. Upto(ar, 0) = {}
    BY DEF Upto
  <2>6. Frames({}) = {}
    BY DEF Frames
  <2>7. Q(0) = Tabs(rt)
    BY <2>5, <2>6
  <2> HIDE DEF Q
  <2>8. Freed(g[0], ph, Q(0))
    BY <2>1, <2>2, <2>4, <2>7 DEF Freed
  <2> QED BY <2>8, <1>0, <1>b
<1>2. ASSUME NEW n \in 0 .. Len(ar) - 1, g[n] \in E[n] PROVE g[n + 1] \in E[n + 1]
  <2>1. n \in 0 .. Len(ar) /\ n + 1 \in 0 .. Len(ar) /\ n + 1 \in 1 .. Len(ar) /\ n \in Nat
    BY <1>b
  <2>2. Freed(g[n], ph, Q(n))
    <3> HIDE DEF Q
    <3> QED BY <1>2, <1>0, <2>1
  <2>3. PICK p : p = ar[n + 1].pages
    OBVIOUS
  <2>a. PICK a \in Area : a = ar[n + 1]
    BY <2>1, <1>b
  <2>4. p \in PageMaps /\ DOMAIN p \subseteq a.start_vpn .. a.end_vpn - 1 /\ a.start_vpn \in Nat /\ a.end_vpn - 1 \in Nat
    BY <2>3, <2>a, AreaParts
  <2>5. g[n + 1] = DropPages(g[n], p)
    BY <1>g, <1>a, <2>3 DEF SpaceRun
  <2>6. /\ Droppable(ph.alloc, p)
        /\ Range(p) = Frames(PartOf(ar[n + 1], DOMAIN p))
        /\ Range(p) \subseteq Frames(Backing(ar))
    <3>1. Owns(ph.alloc, rt, Backing(ar))
      BY <1>h DEF Held
    <3>2. DOMAIN p = DOMAIN ar[n + 1].pages \cap DOMAIN p /\ \A v \in DOMAIN p : p[v] = ar[n + 1].pages[v]
      BY <2>3
    <3>3. PICK i \in 1 .. Len(ar) : i = n + 1
      BY <2>1
    <3>4. Picks(p, ar[i], DOMAIN p)
      BY <3>2, <3>3 DEF Picks
    <3> QED BY <3>1, <3>3, <3>4, <2>4, <1>b, PartDrops
  <2>7. PartOf(ar[n + 1], DOMAIN p) = PagesIn(ar[n + 1])
    BY <2>3 DEF PagesIn, PartOf
  <2>8. Upto(ar, n + 1) = Upto(ar, n) \cup PagesIn(ar[n + 1])
    <3>1. \A i : i \in 1 .. n + 1 <=> (i \in 1 .. n \/ i = n + 1)
      BY <2>1
    <3>2. PagesIn(ar[n + 1]) \subseteq Backed
      BY DEF PagesIn
    <3> QED BY <3>1, <3>2 DEF Upto
  <2>9. Q(n + 1) = Q(n) \cup Range(p)
    BY <2>6, <2>7, <2>8 DEF Frames
  <2>10. Range(p) \cap Q(n) = {}
    <3>1. \A c \in Upto(ar, n) : c.vpn < a.start_vpn \/ a.end_vpn <= c.vpn
      <4>1. Upto(ar, n) \subseteq Others(ar, n + 1)
        BY <2>1 DEF Upto, Others
      <4>2. \A c \in Others(ar, n + 1) : c.vpn < a.start_vpn \/ a.end_vpn <= c.vpn
        <5>1. PICK i \in 1 .. Len(ar) : i = n + 1
          BY <2>1
        <5>2. \A c \in Others(ar, i) : c.vpn < ar[i].start_vpn \/ ar[i].end_vpn <= c.vpn
          BY <5>1, <1>a, <1>b, BackingApart
        <5> QED BY <5>1, <5>2, <2>a
      <4> QED BY <4>1, <4>2
    <3>2. \A b \in PagesIn(ar[n + 1]) : a.start_vpn <= b.vpn /\ b.vpn < a.end_vpn /\ b.vpn \in Nat
      BY <2>a, PagesInFacts
    <3>3. Upto(ar, n) \subseteq Backing(ar) /\ PagesIn(ar[n + 1]) \subseteq Backing(ar)
      BY <2>1 DEF Upto, Backing, PagesIn
    <3>4. \A b, c \in Backing(ar) : b.ppn = c.ppn => b = c
      BY <1>h DEF Held, Owns
    <3>5. \A b \in PagesIn(ar[n + 1]), c \in Upto(ar, n) : b # c
      BY <3>1, <3>2, <2>a, AreaParts
    <3>6. Frames(PagesIn(ar[n + 1])) \cap Frames(Upto(ar, n)) = {}
      BY <3>3, <3>4, <3>5 DEF Frames
    <3>7. Range(p) \cap Tabs(rt) = {}
      BY <2>6, <1>h, FrameFacts
    <3> QED BY <3>6, <3>7, <2>6, <2>7
  <2> HIDE DEF Q
  <2>11. Droppable(g[n].alloc, p)
    <3>1. \A v \in DOMAIN p : p[v] \in Range(p)
      BY DEF Range
    <3> QED BY <3>1, <2>2, <2>6, <2>10 DEF Freed, Droppable
  <2>12. Freed(g[n + 1], g[n], Range(p))
    <3>1. g[n] \in Phys /\ AllocOk(g[n].alloc)
      BY <2>2 DEF Freed
    <3> QED BY <3>1, <2>4, <2>5, <2>11, DropFrees
  <2>13. Freed(g[n + 1], ph, Q(n + 1))
    BY <2>2, <2>9, <2>12 DEF Freed
  <2> QED BY <2>13, <1>0, <2>1
<1> HIDE DEF Q
<1>3. \A n \in 0 .. Len(ar) : g[n] \in E[n]
  BY <1>1, <1>2, <1>b, LoopStays
<1>4. Freed(g[Len(ar)], ph, Q(Len(ar)))
  BY <1>3, <1>0, <1>b
<1>5. Q(Len(ar)) = PagesOf(sp)
  BY <1>a, <1>r DEF Q, PagesOf, Upto, Backing
<1>6. out = g[Len(ar)]
  BY <1>g, <1>a DEF SpaceRun
<1> QED BY <1>4, <1>5, <1>6

-----------------------------------------------------------------------------
(* A page enters a space.                                                  *)

\* Two moves of pages, one after the other, are one.
LEMMA MovesTrans ==
    ASSUME NEW al, NEW m, NEW Q, NEW al1, NEW m1, NEW Q1, NEW al2, NEW m2, NEW Q2,
           Moves(al, m, Q, al1, m1, Q1), Moves(al1, m1, Q1, al2, m2, Q2)
    PROVE  Moves(al, m, Q, al2, m2, Q2)
BY DEF Moves

\* A page has been taken, and zeroes or data of t put in it: the space is as it
\* was, and the page can be entered in it.
LEMMA TakenSpare ==
    ASSUME NEW al, NEW m, NEW rt, NEW B, NEW t, Held(al, m, rt, B, t),
           NEW p, NEW a2, Taken(al, p, a2), NEW m1 \in Memory(Words),
           \A q \in PPN : q # p => m1[q] = m[q], \A x \in Index : m1[p][x] \in Own(t),
           NEW v \in UserVpns, NEW f \in Flags, \A c \in B : c.vpn # v,
           NEW b, b = Page(v, p, f)
    PROVE  Held(a2, m1, rt, B, t) /\ Spare(a2, m1, rt, B, t, b)
<1>g. Good(Words, al, m, rt)
  BY DEF Held
<1>1. p \in PPN /\ p \in Pool /\ p \in FreeOf(al) /\ AllocOk(a2) /\ FreeOf(a2) = FreeOf(al) \ {p}
  BY Layout DEF Taken
<1>2. p \notin Tabs(rt) /\ p \notin Frames(B) /\ Tabs(rt) \subseteq PPN /\ Frames(B) \subseteq PPN
      /\ (Tabs(rt) \cup Frames(B)) \cap FreeOf(a2) = {}
  BY <1>g, <1>1, TabsApart, FrameFacts
<1>3. p # F /\ p # F + 1 /\ p # F + 2 /\ F \in PPN /\ F + 1 \in PPN /\ F + 2 \in PPN
  BY <1>1, Layout
<1>4. Held(a2, m1, rt, B, t)
  <2>1. \A q \in Tabs(rt) \cup Frames(B) : m1[q] = m[q]
    BY <1>2
  <2>2. m1[F] = m[F] /\ m1[F + 1] = m[F + 1] /\ m1[F + 2] = m[F + 2]
    BY <1>3
  <2> QED BY <1>1, <1>2, <2>1, <2>2, FrameHeld
<1>5. b \in Backed /\ b.vpn = v /\ b.ppn = p /\ v \in Nat
  BY <1>1, UserLow DEF Backed, Page
<1>6. Spare(a2, m1, rt, B, t, b)
  BY <1>1, <1>2, <1>5 DEF Spare
<1> QED BY <1>4, <1>6

\* map_create enters such a page; when it fails and the page is given back, all
\* that is left of it is tables.
Enlarges(r, al, m, rt, B, t, b, al2, m2, rt2) ==
    /\ r.phys = PhysRec(al2, m2) /\ r.root = rt2
    /\ \/ /\ r.res = "Ok" /\ Held(al2, m2, rt2, B \cup {b}, t)
          /\ Moves(al, m, Tabs(rt) \cup Frames(B), al2, m2, Tabs(rt2) \cup Frames(B \cup {b}))
       \/ /\ r.res = "AcquirePageFailed" \/ (r.res = "InvalidPteFlags" /\ ~is_valid_flags(to_pte_flags(b.flags)))
          /\ AllocOk(al2) /\ b.ppn \in Pool /\ b.ppn \notin FreeOf(al2)
          /\ Held(dealloc(al2, b.ppn), m2, rt2, B, t)
          /\ Moves(al, m, Tabs(rt) \cup Frames(B), dealloc(al2, b.ppn), m2, Tabs(rt2) \cup Frames(B))

\* map_create on a page that has just been taken.
LEMMA PageEnters ==
    ASSUME NEW al, NEW m, NEW rt, NEW B, NEW t, Held(al, m, rt, B, t),
           NEW p, NEW a2, Taken(al, p, a2), NEW m1 \in Memory(Words),
           \A q \in PPN : q # p => m1[q] = m[q], \A x \in Index : m1[p][x] \in Own(t),
           NEW v \in UserVpns, NEW f \in Flags, \A c \in B : c.vpn # v,
           NEW b, b = Page(v, p, f),
           NEW r, r = map_create(PhysRec(a2, m1), rt, v, p, to_pte_flags(f))
    PROVE  \E al2, m2, rt2 : Enlarges(r, al, m, rt, B, t, b, al2, m2, rt2)
<1>1. Held(a2, m1, rt, B, t) /\ Spare(a2, m1, rt, B, t, b)
  BY TakenSpare
<1>2. b.vpn = v /\ b.ppn = p /\ b.flags = f
  BY DEF Page
<1>3. PICK al2, m2, rt2 : Enters(r, a2, m1, rt, B, t, b, al2, m2, rt2)
  <2>1. r = map_create(PhysRec(a2, m1), rt, b.vpn, b.ppn, to_pte_flags(b.flags))
    BY <1>2
  <2> QED BY <2>1, <1>1, MapEnters
<1>g. Grown(a2, m1, rt, al2, m2, rt2)
  BY <1>3 DEF Enters
<1>4. p \in Pool /\ p \in PPN /\ p \in FreeOf(al) /\ FreeOf(a2) = FreeOf(al) \ {p} /\ p \notin Tabs(rt) /\ p \notin Frames(B)
  <2>1. p \in Pool /\ p \in PPN /\ p \in FreeOf(al) /\ FreeOf(a2) = FreeOf(al) \ {p}
    BY Layout DEF Taken
  <2> QED BY <2>1, <1>1, <1>2 DEF Spare
<1>5. p \notin FreeOf(al2) /\ p \notin Tabs(rt2)
  BY <1>g, <1>4 DEF Grown
<1>6. \A q \in PPN : q \notin FreeOf(al) \cup Tabs(rt) => m2[q] = m[q]
  BY <1>g, <1>4 DEF Grown
<1>7. FreeOf(al2) \cup Tabs(rt2) = (FreeOf(al) \ {p}) \cup Tabs(rt)
  BY <1>g, <1>4 DEF Grown
<1>8. CASE r.res = "Ok" /\ Held(al2, m2, rt2, B \cup {b}, t)
  <2>1. Frames(B \cup {b}) = Frames(B) \cup {p}
    BY <1>2 DEF Frames
  <2>2. Moves(al, m, Tabs(rt) \cup Frames(B), al2, m2, Tabs(rt2) \cup Frames(B \cup {b}))
    BY <2>1, <1>4, <1>6, <1>7 DEF Moves
  <2>3. Enlarges(r, al, m, rt, B, t, b, al2, m2, rt2)
    BY <1>3, <1>8, <2>2 DEF Enters, Enlarges
  <2> QED BY <2>3
<1>9. CASE /\ r.res = "AcquirePageFailed" \/ (r.res = "InvalidPteFlags" /\ ~is_valid_flags(to_pte_flags(b.flags)))
           /\ Held(al2, m2, rt2, B, t)
  <2>0. AllocOk(al2) /\ Good(Words, al2, m2, rt2) /\ m2 \in Memory(Words)
    BY <1>9 DEF Held, Good
  <2>1. AllocOk(dealloc(al2, p)) /\ FreeOf(dealloc(al2, p)) = FreeOf(al2) \cup {p}
    BY <2>0, <1>4, <1>5, Dealloc
  <2>2. (Tabs(rt2) \cup Frames(B)) \cap FreeOf(dealloc(al2, p)) = {}
    BY <2>0, <2>1, <1>4, <1>5, <1>9, TabsApart, FrameFacts
  <2>3. Held(dealloc(al2, p), m2, rt2, B, t)
    BY <2>0, <2>1, <2>2, <1>9, FrameHeld
  <2>4. Moves(al, m, Tabs(rt) \cup Frames(B), dealloc(al2, p), m2, Tabs(rt2) \cup Frames(B))
    BY <2>1, <1>4, <1>6, <1>7 DEF Moves
  <2>5. Enlarges(r, al, m, rt, B, t, b, al2, m2, rt2)
    BY <1>3, <1>9, <2>0, <2>3, <2>4, <1>2, <1>4, <1>5 DEF Enters, Enlarges
  <2> QED BY <2>5
<1> QED BY <1>3, <1>8, <1>9 DEF Enters

\* No area has a page for v when the only one that could has none.
LEMMA NotBacked ==
    ASSUME NEW ar \in Seq(Area), Apart(ar), NEW i \in 1 .. Len(ar), NEW v \in Nat,
           ar[i].start_vpn <= v, v < ar[i].end_vpn, v \notin DOMAIN ar[i].pages
    PROVE  \A c \in Backing(ar) : c.vpn # v
<1>1. Backing(ar) = Others(ar, i) \cup PagesIn(ar[i])
  BY BackingSplit
<1>2. \A c \in Others(ar, i) : c.vpn < ar[i].start_vpn \/ ar[i].end_vpn <= c.vpn
  BY BackingApart
<1>3. \A c \in Others(ar, i) : c.vpn \in Nat
  BY DEF Others, Backed
<1>a. PICK a \in Area : a = ar[i]
  OBVIOUS
<1>4. a.start_vpn \in Nat /\ a.end_vpn \in Nat
  BY AreaParts
<1>5. \A c \in PagesIn(ar[i]) : c.vpn # v
  BY DEF PagesIn
<1> QED BY <1>1, <1>2, <1>3, <1>4, <1>5, <1>a

\* A zeroed page with a word of t in it.
Filled(z, ph, t, word, a2, m1) ==
    /\ Taken(ph.alloc, z.page, a2) /\ z.page \in PPN
    /\ [z.phys EXCEPT !.mem[z.page][0] = word] = PhysRec(a2, m1)
    /\ m1 \in Memory(Words)
    /\ \A q \in PPN : q # z.page => m1[q] = ph.mem[q]
    /\ \A x \in Index : m1[z.page][x] \in Own(t)

\* AnonymousFrame and the copy into it give such a page.
LEMMA FilledPage ==
    ASSUME NEW ph \in Phys, AllocOk(ph.alloc), NEW t \in Tasks, NEW word \in Own(t),
           NEW z, z = alloc_zeroed_page(ph), z.page # NONE
    PROVE  \E a2, m1 : Filled(z, ph, t, word, a2, m1)
<1>1. PICK al, m : al = ph.alloc /\ m = ph.mem
  OBVIOUS
<1>2. ph = PhysRec(al, m) /\ m \in Memory(Words)
  BY <1>1 DEF Phys, PhysRec
<1>3. PICK p, a2 : /\ Taken(al, p, a2)
                   /\ z = [page |-> p, phys |-> PhysRec(a2, [m EXCEPT ![p] = ZeroPage])]
  BY <1>1, <1>2, AllocZeroed
<1>4. p = z.page /\ p \in PPN
  BY <1>3, Layout DEF Taken
<1>5. word \in Words
  BY WordTypes DEF Own
<1>6. PICK m0 : m0 = [m EXCEPT ![p] = ZeroPage]
  OBVIOUS
<1>7. m0 \in Memory(Words) /\ m0[p] = ZeroPage /\ \A q \in PPN : q # p => m0[q] = m[q]
  <2>1. ZeroPage \in [Index -> Words]
    BY WordTypes
  <2> QED BY <2>1, <1>2, <1>4, <1>6 DEF Memory
<1>8. PICK m1 : m1 = [m0 EXCEPT ![p][0] = word]
  OBVIOUS
<1>9. m1 \in Memory(Words)
  BY <1>5, <1>7, <1>8, MemoryWrite
<1>10. \A q \in PPN : q # p => m1[q] = m[q]
  BY <1>4, <1>7, <1>8 DEF Memory
<1>11. \A x \in Index : m1[p][x] \in Own(t)
  <2>1. m1[p] = [m0[p] EXCEPT ![0] = word]
    BY <1>4, <1>7, <1>8 DEF Memory
  <2>2. m1[p] = [ZeroPage EXCEPT ![0] = word]
    BY <2>1, <1>7
  <2>3. \A x \in Index : m1[p][x] = IF x = 0 THEN word ELSE Pte0
    BY <2>2 DEF ZeroPage
  <2> QED BY <2>3 DEF Own
<1>12. [z.phys EXCEPT !.mem[p][0] = word] = PhysRec(a2, m1)
  <2>1. z.phys = PhysRec(a2, m0)
    BY <1>3, <1>6
  <2>2. z.phys.mem = m0
    BY <2>1 DEF PhysRec
  <2>3. [z.phys EXCEPT !.mem[p][0] = word] = [z.phys EXCEPT !.mem = m1]
    BY <2>2, <1>8
  <2> QED BY <2>1, <2>3 DEF PhysRec
<1>13. Filled(z, ph, t, word, a2, m1)
  BY <1>1, <1>3, <1>4, <1>9, <1>10, <1>11, <1>12 DEF Filled
<1> QED BY <1>13

\* An area gets a page more.
Put(ar, br, k, v, p) == br = [ar EXCEPT ![k].pages = Insert(ar[k].pages, v, p)]

\* The areas then back that page, too.
LEMMA PageInserted ==
    ASSUME NEW ar \in Seq(Area), NEW k \in 1 .. Len(ar), NEW v \in Nat, v \notin DOMAIN ar[k].pages,
           ar[k].start_vpn <= v, v < ar[k].end_vpn, NEW p \in PPN,
           NEW br, Put(ar, br, k, v, p),
           NEW b, b = Page(v, p, ar[k].permissions)
    PROVE  /\ br \in Seq(Area) /\ SameRanges(ar, br) /\ Inserted(ar, br, k, v, p)
           /\ br[k].map_type = ar[k].map_type /\ DOMAIN br[k].pages = DOMAIN ar[k].pages \cup {v}
           /\ Backing(br) = Backing(ar) \cup {b}
           /\ InHalves(ar) => InHalves(br)
<1>a. PICK a \in Area : a = ar[k]
  OBVIOUS
<1>1. a.pages \in PageMaps /\ a.start_vpn \in Nat /\ a.end_vpn \in Nat
      /\ DOMAIN a.pages \subseteq a.start_vpn .. a.end_vpn - 1
  BY AreaParts
<1>p. PICK pages \in PageMaps : pages = a.pages
  BY <1>1
<1>2. PICK q \in PageMaps : q = Insert(pages, v, p) /\ DOMAIN q = DOMAIN pages \cup {v}
  BY InsertType
<1>3. DOMAIN q \subseteq ar[k].start_vpn .. ar[k].end_vpn - 1 /\ Repaged(ar, br, k, q)
  BY <1>1, <1>2, <1>a, <1>p DEF Put, Repaged
<1>4. /\ br \in Seq(Area) /\ SameRanges(ar, br) /\ br[k].pages = q
      /\ br[k].permissions = ar[k].permissions /\ br[k].map_type = ar[k].map_type
      /\ SameBut(ar, br, k)
  BY <1>3, SetPages
<1>5. br[k].pages = Insert(ar[k].pages, v, p) /\ Len(br) = Len(ar)
  BY <1>2, <1>4, <1>a, <1>p DEF SameRanges
<1>i. Inserted(ar, br, k, v, p)
  BY <1>4, <1>5 DEF Inserted
<1>6. Backing(br) = Backing(ar) \cup {b}
  BY <1>i, <1>4, BackingInsert
<1>7. InHalves(ar) => InHalves(br)
  BY <1>4 DEF InHalves, InHalf, SameRanges, SameBut
<1> QED BY <1>2, <1>4, <1>i, <1>6, <1>7, <1>a, <1>p

StateMoves(s, out) ==
    Moves(s.phys.alloc, s.phys.mem, PagesOf(s.space), out.phys.alloc, out.phys.mem, PagesOf(out.space))

\* The last area has a page for v, too; otherwise the areas are the same.
LastGets(ar, br, v) ==
    LET n == Len(ar) IN
    /\ Len(br) = n /\ \A j \in 1 .. n : j # n => br[j] = ar[j]
    /\ DOMAIN br[n].pages = DOMAIN ar[n].pages \cup {v}
    /\ br[n].permissions = ar[n].permissions /\ br[n].map_type = ar[n].map_type
    /\ br[n].start_vpn = ar[n].start_vpn /\ br[n].end_vpn = ar[n].end_vpn

Refused(res, f) ==
    res = "AcquirePageFailed" \/ (res = "InvalidPteFlags" /\ ~is_valid_flags(to_pte_flags(f)))

Extends(s, out, t, v) ==
    /\ out.res = "Ok" /\ Fits(out.phys, out.space, t) /\ StateMoves(s, out)
    /\ LastGets(s.space.areas, out.space.areas, v)

\* A page of the last area is backed at once.
LEMMA PageAdded ==
    ASSUME NEW s \in State, s.res = "Ok", Len(s.space.areas) > 0,
           NEW a \in Area, a = s.space.areas[Len(s.space.areas)],
           NEW v \in a.start_vpn .. a.end_vpn - 1, v \in UserVpns, v \notin DOMAIN a.pages,
           Apart(s.space.areas), NEW t \in Tasks, Fits(s.phys, s.space, t), NEW word \in Own(t),
           NEW out, out = AnonymousPage(s, v, to_pte_flags(a.permissions), word)
    PROVE  Refused(out.res, a.permissions) \/ Extends(s, out, t, v)
<1>a. PICK ph \in Phys, rt \in Root, ar \in Seq(Area), sp \in Space :
         ph = s.phys /\ rt = s.space.root_pgt /\ ar = s.space.areas /\ sp = s.space
  BY StateParts
<1>k. PICK k \in 1 .. Len(ar) : k = Len(ar) /\ a = ar[k]
  BY <1>a
<1>f. PICK f \in Flags, pages \in PageMaps : f = a.permissions /\ pages = a.pages
  BY AreaParts
<1>f1. to_pte_flags(f) \in SUBSET {"V", "R", "W", "X", "U"}
  BY FlagWords
<1>w. word \in Words
  BY WordTypes DEF Own
<1>h. Held(ph.alloc, ph.mem, rt, Backing(ar), t) /\ InHalves(ar) /\ AllocOk(ph.alloc)
  BY <1>a DEF Fits, Held, Good
<1>v. v \in Nat /\ v \in UserVpns
  BY UserLow
<1>n. PICK fl \in SUBSET {"V", "R", "W", "X", "U"} : fl = to_pte_flags(a.permissions)
  BY <1>f, <1>f1
<1>1. \/ alloc_zeroed_page(s.phys).page = NONE /\ out.res = "AcquirePageFailed"
      \/ \E p, m, br : Laid(s, v, fl, word, out, p, m, br)
  BY <1>w, <1>n, AnonymousPageType
<1>2. CASE out.res = "AcquirePageFailed"
  BY <1>2 DEF Refused
<1>3. ASSUME NEW p, NEW m, NEW br, Laid(s, v, fl, word, out, p, m, br)
      PROVE  Refused(out.res, a.permissions) \/ Extends(s, out, t, v)
  <2>z. PICK z : z = alloc_zeroed_page(ph)
    OBVIOUS
  <2>1. p \in PPN /\ z.page = p /\ z.page # NONE
    BY <1>3, <1>a, <2>z, Layout DEF Laid
  <2>0. PICK a2, m1 : Filled(z, ph, t, word, a2, m1)
    BY <2>z, <2>1, <1>a, <1>h, FilledPage
  <2>2. /\ Taken(ph.alloc, z.page, a2) /\ z.page \in PPN
        /\ [z.phys EXCEPT !.mem[z.page][0] = word] = PhysRec(a2, m1)
        /\ m1 \in Memory(Words)
        /\ \A q \in PPN : q # z.page => m1[q] = ph.mem[q]
        /\ \A x \in Index : m1[z.page][x] \in Own(t)
    BY <2>0 DEF Filled
  <2>3. m = map_create(PhysRec(a2, m1), rt, v, p, to_pte_flags(f))
    BY <1>3, <1>a, <1>f, <1>n, <2>z, <2>1, <2>2 DEF Laid
  <2>b. PICK b : b = Page(v, p, f)
    OBVIOUS
  <2>4. \A c \in Backing(ar) : c.vpn # v
    <3>1. ar[k].start_vpn <= v /\ v < ar[k].end_vpn /\ v \notin DOMAIN ar[k].pages
      BY <1>k, AreaParts
    <3> QED BY <3>1, <1>a, <1>v, NotBacked
  <2>5. PICK B, al, m0 : B = Backing(ar) /\ al = ph.alloc /\ m0 = ph.mem
    OBVIOUS
  <2>6. PICK al2, m2, rt2 : Enlarges(m, al, m0, rt, B, t, b, al2, m2, rt2)
    <3>1. Held(al, m0, rt, B, t) /\ Taken(al, p, a2) /\ (\A c \in B : c.vpn # v)
          /\ (\A q \in PPN : q # p => m1[q] = m0[q]) /\ \A x \in Index : m1[p][x] \in Own(t)
      BY <1>h, <2>1, <2>2, <2>4, <2>5
    <3> QED BY <3>1, <2>2, <2>3, <2>b, <1>v, PageEnters
  <2>7. out = VMResult(m.phys, [root_pgt |-> rt2, areas |-> br], m.res) /\ m.phys = PhysRec(al2, m2)
    BY <1>3, <2>6 DEF Laid, Enlarges
  <2>8. out.res = m.res /\ out.phys = PhysRec(al2, m2) /\ out.space = [root_pgt |-> rt2, areas |-> br]
        /\ out.phys.alloc = al2 /\ out.phys.mem = m2 /\ out.space.root_pgt = rt2 /\ out.space.areas = br
    BY <2>7 DEF VMResult, PhysRec
  <2>9. CASE m.res # "Ok"
    <3>1. Refused(m.res, b.flags)
      BY <2>6, <2>9 DEF Enlarges, Refused
    <3>2. b.flags = a.permissions
      BY <2>b, <1>f DEF Page
    <3> QED BY <3>1, <3>2, <2>8
  <2>10. CASE m.res = "Ok"
    <3>1. /\ Held(al2, m2, rt2, B \cup {b}, t)
          /\ Moves(al, m0, Tabs(rt) \cup Frames(B), al2, m2, Tabs(rt2) \cup Frames(B \cup {b}))
      BY <2>6, <2>10 DEF Enlarges
    <3>2. Put(ar, br, k, v, p) /\ b = Page(v, p, ar[k].permissions)
      BY <1>3, <1>a, <1>k, <1>f, <2>b DEF Laid, Put
    <3>3. ar[k].start_vpn <= v /\ v < ar[k].end_vpn /\ v \notin DOMAIN ar[k].pages
      BY <1>k, AreaParts
    <3>5. /\ br \in Seq(Area) /\ SameRanges(ar, br) /\ Inserted(ar, br, k, v, p)
          /\ br[k].map_type = ar[k].map_type /\ DOMAIN br[k].pages = DOMAIN ar[k].pages \cup {v}
          /\ Backing(br) = Backing(ar) \cup {b}
          /\ InHalves(ar) => InHalves(br)
      BY <3>2, <3>3, <2>1, <1>v, PageInserted
    <3>6. Backing(br) = B \cup {b} /\ InHalves(br)
      BY <3>5, <2>5, <1>h
    <3>7. LastGets(ar, br, v)
      BY <3>5, <1>k DEF LastGets, SameRanges, SameBut, Inserted
    <3>9. Fits(out.phys, out.space, t)
      BY <2>8, <3>1, <3>6 DEF Fits
    <3>10. StateMoves(s, out)
      BY <2>5, <2>8, <3>1, <3>6, <1>a DEF StateMoves, PagesOf
    <3> QED BY <2>8, <2>10, <3>7, <3>9, <3>10, <1>a DEF Extends
  <2> QED BY <2>9, <2>10
<1> QED BY <1>1, <1>2, <1>3

-----------------------------------------------------------------------------
(* new_user builds a space.                                                *)

\* A space on its way: what new_user has built since memory was m0, and the
\* allocator a0, for the task t.
AllAnonymous(ar) == \A i \in 1 .. Len(ar) : ar[i].map_type = "Anonymous"

Built(s, a0, m0, t) ==
    /\ s.res = "Ok" /\ Apart(s.space.areas) /\ AllAnonymous(s.space.areas)
    /\ Fits(s.phys, s.space, t)
    /\ Moves(a0, m0, {}, s.phys.alloc, s.phys.mem, PagesOf(s.space))

\* x does not overlap any of the areas.
Beside(ar, x) == \A i \in 1 .. Len(ar) : ar[i].end_vpn <= x.start_vpn \/ x.end_vpn <= ar[i].start_vpn

\* An area without pages is added to the list.
LEMMA AreaFits ==
    ASSUME NEW ar \in Seq(Area), NEW x \in Area, DOMAIN x.pages = {}, x.map_type = "Anonymous",
           x.end_vpn <= USER_END_VPN, NEW br, br = Append(ar, x)
    PROVE  /\ Backing(br) = Backing(ar) /\ (InHalves(ar) => InHalves(br))
           /\ AllAnonymous(ar) => AllAnonymous(br)
<1>1. PagesIn(x) = {}
  BY PagesInFacts
<1>2. Backing(Append(ar, x)) = Backing(ar) \cup PagesIn(x)
  BY BackingAppend
<1>3. Len(br) = Len(ar) + 1 /\ Len(ar) \in Nat /\ br[Len(br)] = x /\ \A i \in 1 .. Len(ar) : br[i] = ar[i]
  BY AddedArea
<1>4. \A i \in 1 .. Len(br) : i = Len(br) \/ i \in 1 .. Len(ar)
  BY <1>3
<1>5. InHalf(x)
  BY DEF InHalf
<1>6. Backing(br) = Backing(ar)
  BY <1>1, <1>2
<1>7. InHalves(ar) => InHalves(br)
  BY <1>3, <1>4, <1>5 DEF InHalves
<1>8. AllAnonymous(ar) => AllAnonymous(br)
  BY <1>3, <1>4 DEF AllAnonymous
<1> QED BY <1>6, <1>7, <1>8

\* AddArea touches the list of areas only.
LEMMA AddAreaParts ==
    ASSUME NEW s \in State, NEW x \in Area, NEW out, out = AddArea(s, x)
    PROVE  /\ out \in State /\ out.res = s.res /\ out.phys = s.phys
           /\ out.space.root_pgt = s.space.root_pgt /\ out.space.areas = Append(s.space.areas, x)
<1>1. PICK ph, rt, ar, res : s = [phys |-> ph, space |-> [root_pgt |-> rt, areas |-> ar], res |-> res]
  BY StateParts DEF VMResult
<1>2. PICK br : br = Append(ar, x)
  OBVIOUS
<1>3. PICK sp : sp = [root_pgt |-> rt, areas |-> ar]
  OBVIOUS
<1>4. out = [phys |-> ph, space |-> [root_pgt |-> rt, areas |-> br], res |-> res]
  <2>0. s = [phys |-> ph, space |-> sp, res |-> res] /\ s.space = sp /\ s.space.areas = ar
    BY <1>1, <1>3
  <2>1. out = [s EXCEPT !.space.areas = Append(@, x)]
    BY DEF AddArea
  <2>2. out = [s EXCEPT !.space = [sp EXCEPT !.areas = br]]
    BY <2>0, <2>1, <1>2
  <2>3. [sp EXCEPT !.areas = br] = [root_pgt |-> rt, areas |-> br]
    BY <1>3
  <2> QED BY <2>0, <2>2, <2>3
<1>5. out.phys = ph /\ out.space.root_pgt = rt /\ s.phys = ph /\ s.space.root_pgt = rt
  BY <1>1, <1>4
<1> QED BY <1>5, AddAreaType

\* new_user adds an area.
LEMMA AreaBuilt ==
    ASSUME NEW a0, NEW m0, NEW t, NEW s \in State, Built(s, a0, m0, t),
           NEW x \in Area, DOMAIN x.pages = {}, x.map_type = "Anonymous",
           x.end_vpn <= USER_END_VPN, Beside(s.space.areas, x), NEW out, out = AddArea(s, x)
    PROVE  out \in State /\ Built(out, a0, m0, t) /\ out.space.areas = Append(s.space.areas, x)
<1>1. /\ out \in State /\ out.res = s.res /\ out.phys = s.phys
      /\ out.space.root_pgt = s.space.root_pgt /\ out.space.areas = Append(s.space.areas, x)
  BY AddAreaParts
<1>2. PICK ar \in Seq(Area), br \in {Append(s.space.areas, x)} : ar = s.space.areas /\ br = Append(ar, x)
  BY StateParts
<1>3. /\ Backing(br) = Backing(ar) /\ (InHalves(ar) => InHalves(br))
      /\ AllAnonymous(ar) => AllAnonymous(br)
  BY <1>2, AreaFits
<1>4. Apart(br)
  BY <1>2, AddedApart DEF Built, Beside
<1>5. out.space.areas = br
  BY <1>1, <1>2
<1>s. s.space.areas = ar /\ out.phys = s.phys /\ out.space.root_pgt = s.space.root_pgt
  BY <1>1, <1>2
<1>6. PagesOf(out.space) = PagesOf(s.space)
  BY <1>s, <1>3, <1>5 DEF PagesOf
<1>7. Fits(out.phys, out.space, t)
  BY <1>s, <1>3, <1>5 DEF Fits, Built
<1> QED BY <1>1, <1>2, <1>3, <1>4, <1>5, <1>6, <1>7 DEF Built

\* The last area of a space on its way is the area x, with the pages in D.
LastHas(ar, x, D) ==
    LET n == Len(ar) IN
    /\ n > 0 /\ DOMAIN ar[n].pages = D
    /\ ar[n].permissions = x.permissions /\ ar[n].start_vpn = x.start_vpn /\ ar[n].end_vpn = x.end_vpn

\* It gets one page more, or the step is refused.
LEMMA PageBuilt ==
    ASSUME NEW a0, NEW m0, NEW t \in Tasks, NEW s \in State, Built(s, a0, m0, t),
           NEW x \in Area, NEW D, LastHas(s.space.areas, x, D), x.end_vpn <= USER_END_VPN,
           NEW v \in x.start_vpn .. x.end_vpn - 1, v \notin D, NEW word \in Own(t),
           NEW out, out = AnonymousPage(s, v, to_pte_flags(x.permissions), word)
    PROVE  \/ Refused(out.res, x.permissions)
           \/ Built(out, a0, m0, t) /\ LastHas(out.space.areas, x, D \cup {v})
<1>a. PICK ar \in Seq(Area) : ar = s.space.areas
  BY StateParts
<1>1. Len(ar) \in Nat /\ Len(ar) > 0
  BY <1>a DEF LastHas
<1>2. PICK a \in Area : a = ar[Len(ar)]
  BY <1>1
<1>3. /\ a.start_vpn = x.start_vpn /\ a.end_vpn = x.end_vpn /\ a.permissions = x.permissions
      /\ DOMAIN a.pages = D
  BY <1>a, <1>2 DEF LastHas
<1>4. v \in UserVpns
  BY AreaParts, UserLow DEF UserVpns
<1>5. PICK w \in a.start_vpn .. a.end_vpn - 1 : w = v /\ w \in UserVpns /\ w \notin DOMAIN a.pages
  BY <1>3, <1>4
<1>6. Refused(out.res, a.permissions) \/ Extends(s, out, t, w)
  <2>1. Len(s.space.areas) > 0 /\ a = s.space.areas[Len(s.space.areas)]
    BY <1>a, <1>1, <1>2
  <2>2. s.res = "Ok" /\ Apart(s.space.areas) /\ Fits(s.phys, s.space, t)
    BY DEF Built
  <2>3. out = AnonymousPage(s, w, to_pte_flags(a.permissions), word)
    BY <1>3, <1>5
  <2> QED BY <2>1, <2>2, <2>3, <1>5, PageAdded
<1>7. CASE Extends(s, out, t, w)
  <2>1. PICK br : br = out.space.areas
    OBVIOUS
  <2>2. LastGets(ar, br, v) /\ out.res = "Ok" /\ Fits(out.phys, out.space, t) /\ StateMoves(s, out)
    BY <1>7, <1>5, <1>a, <2>1 DEF Extends
  <2>3. Moves(a0, m0, {}, out.phys.alloc, out.phys.mem, PagesOf(out.space))
    BY <2>2, MovesTrans DEF Built, StateMoves
  <2>4. AllAnonymous(br)
    BY <2>2, <1>a, <1>1 DEF Built, AllAnonymous, LastGets
  <2>5. Apart(br)
    <3>1. SameRanges(ar, br)
      BY <2>2, <1>1 DEF SameRanges, LastGets
    <3> QED BY <3>1, <1>a, SameApart DEF Built
  <2>6. LastHas(br, x, D \cup {v})
    BY <2>2, <1>1, <1>2, <1>3 DEF LastHas, LastGets
  <2> QED BY <2>1, <2>2, <2>3, <2>4, <2>5, <2>6 DEF Built
<1> QED BY <1>3, <1>6, <1>7

\* A segment new_user does not accept.
Malformed(seg) ==
    PAGE_SIZE_BYTES % seg.align # 0 \/ ~is_valid_flags(to_pte_flags(seg.flags))

\* The area of a segment; those of the program end below the stack.
LEMMA SegmentFacts ==
    ASSUME NEW seg \in Segs, NEW x, x = SegmentArea(seg)
    PROVE  /\ x \in Area /\ x.map_type = "Anonymous" /\ DOMAIN x.pages = {}
           /\ x.permissions = seg.flags \cup {"U"}
           /\ Refused("InvalidPteFlags", x.permissions) => Malformed(seg)
           /\ seg.va + seg.mem_size <= USER_SPACE_END - USER_STACK_MAX_SIZE_BYTES =>
                 x.end_vpn <= StackStart
<1>1. x \in Area
  BY SegmentAreaType
<1>2. x.map_type = "Anonymous" /\ x.permissions = seg.flags \cup {"U"} /\ x.pages = NoPages
      /\ x.end_vpn = VpnFromVa(seg.va + seg.mem_size + PAGE_SIZE_BYTES - 1)
  BY DEF SegmentArea, VMArea
<1>3. seg.va \in Nat /\ seg.mem_size \in Nat
  BY DEF Segs
<1>4. PICK b \in Nat : b = seg.va + seg.mem_size
  BY <1>3
<1>5. b <= USER_SPACE_END - USER_STACK_MAX_SIZE_BYTES => VpnFromVa(b + PAGE_SIZE_BYTES - 1) <= StackStart
  BY UserRange
<1>6. Refused("InvalidPteFlags", x.permissions) => Malformed(seg)
  BY <1>2 DEF Refused, Malformed, is_valid_flags, to_pte_flags
<1> QED BY <1>1, <1>2, <1>4, <1>5, <1>6, NoPagesType

SegmentFails(res, seg) == res # "Ok" /\ (res = "AcquirePageFailed" \/ Malformed(seg))

\* A segment is mapped, page by page.
LEMMA SegmentBuilt ==
    ASSUME NEW a0, NEW m0, NEW t \in Tasks, NEW s \in State, Built(s, a0, m0, t),
           NEW seg \in Segs, NEW x \in Area, x = SegmentArea(seg), x.end_vpn <= USER_END_VPN,
           Beside(s.space.areas, x), NEW word \in Own(t),
           NEW out, out = map_user_elf_segment(s, seg, word)
    PROVE  SegmentFails(out.res, seg) \/ Built(out, a0, m0, t)
<1>w. word \in Words
  BY WordTypes DEF Own
<1>f. /\ x.map_type = "Anonymous" /\ DOMAIN x.pages = {}
      /\ Refused("InvalidPteFlags", x.permissions) => Malformed(seg)
  BY SegmentFacts
<1>1. \/ s.res # "Ok" /\ out = s
      \/ PAGE_SIZE_BYTES % seg.align # 0 /\ out.res = "AlignDataFailed"
      \/ \E g : SegmentRun(g, s, seg, word, out)
  BY <1>w, SegmentType
<1>2. CASE PAGE_SIZE_BYTES % seg.align # 0 /\ out.res = "AlignDataFailed"
  BY <1>2 DEF SegmentFails, Malformed
<1>3. ASSUME NEW g, SegmentRun(g, s, seg, word, out)
      PROVE  SegmentFails(out.res, seg) \/ Built(out, a0, m0, t)
  <2>x. x.start_vpn \in Nat /\ x.end_vpn \in Nat /\ x.start_vpn < x.end_vpn
    BY AreaParts
  <2>n. PICK N \in Nat : N = x.end_vpn - x.start_vpn
    BY <2>x
  <2> DEFINE Ok(n, u) == \/ SegmentFails(u.res, seg)
                         \/ /\ Built(u, a0, m0, t)
                            /\ LastHas(u.space.areas, x, x.start_vpn .. x.start_vpn + n - 1)
  <2>0. PICK E : E = [n \in 0 .. N |-> {u \in {g[n]} : Ok(n, u)}]
    OBVIOUS
  <2>1. /\ g[0] = AddArea(s, x) /\ out = g[N]
        /\ \A n \in 0 .. N - 1 :
              g[n + 1] = AnonymousPage(g[n], x.start_vpn + (n + 1) - 1,
                                       to_pte_flags(x.permissions), SegmentData(seg, n, word))
        /\ \A n \in 0 .. N : g[n] \in State
    BY <1>3, <2>n DEF SegmentRun
  <2>2. g[0] \in E[0]
    <3>1. PICK u : u = g[0]
      OBVIOUS
    <3>2. u \in State /\ Built(u, a0, m0, t) /\ u.space.areas = Append(s.space.areas, x)
      BY <2>1, <3>1, <1>f, AreaBuilt
    <3>3. PICK ar \in Seq(Area), br \in {u.space.areas} : ar = s.space.areas /\ br = u.space.areas /\ br = Append(ar, x)
      BY <3>2, StateParts
    <3>4. Len(br) = Len(ar) + 1 /\ Len(ar) \in Nat /\ br[Len(br)] = x
      BY <3>3, AddedArea
    <3>5. x.start_vpn .. x.start_vpn + 0 - 1 = {}
      BY <2>x
    <3>6. LastHas(br, x, {})
      BY <3>4, <1>f DEF LastHas
    <3>7. Ok(0, u)
      BY <3>2, <3>3, <3>5, <3>6
    <3> HIDE DEF Ok
    <3> QED BY <3>1, <3>7, <2>0, <2>n
  <2>3. ASSUME NEW n \in 0 .. N - 1, g[n] \in E[n] PROVE g[n + 1] \in E[n + 1]
    <3>1. n \in 0 .. N /\ n + 1 \in 0 .. N /\ n \in Nat
      BY <2>n
    <3>u. PICK u, w : u = g[n] /\ w = g[n + 1]
      OBVIOUS
    <3>2. Ok(n, u)
      <4> HIDE DEF Ok
      <4> QED BY <2>0, <2>3, <3>1, <3>u
    <3>3. PICK v \in Nat : v = x.start_vpn + (n + 1) - 1 /\ v = x.start_vpn + n
      BY <2>x, <3>1
    <3>d. PICK d : d = SegmentData(seg, n, word) /\ d \in Own(t)
      <4>1. SegmentData(seg, n, word) \in Own(t)
        BY DEF SegmentData, Own
      <4> QED BY <4>1
    <3>4. w = AnonymousPage(u, v, to_pte_flags(x.permissions), d) /\ u \in State
      BY <2>1, <3>1, <3>3, <3>u, <3>d
    <3>5. CASE SegmentFails(u.res, seg)
      <4>1. w = u
        BY <3>4, <3>5 DEF AnonymousPage, SegmentFails
      <4>2. Ok(n + 1, w)
        BY <4>1, <3>5
      <4> HIDE DEF Ok
      <4> QED BY <4>2, <2>0, <3>1, <3>u
    <3>6. CASE Built(u, a0, m0, t) /\ LastHas(u.space.areas, x, x.start_vpn .. x.start_vpn + n - 1)
      <4>D. PICK D : D = x.start_vpn .. x.start_vpn + n - 1
        OBVIOUS
      <4>1. v \in x.start_vpn .. x.end_vpn - 1 /\ v \notin D
        BY <4>D, <3>3, <2>n, <2>x, <3>1
      <4>2. D \cup {v} = x.start_vpn .. x.start_vpn + (n + 1) - 1
        BY <4>D, <3>3, <2>x, <3>1
      <4>3. \/ Refused(w.res, x.permissions)
            \/ Built(w, a0, m0, t) /\ LastHas(w.space.areas, x, D \cup {v})
        <5>1. LastHas(u.space.areas, x, D) /\ Built(u, a0, m0, t)
          BY <3>6, <4>D
        <5> QED BY <5>1, <4>1, <3>4, <3>d, PageBuilt
      <4>4. Refused(w.res, x.permissions) => SegmentFails(w.res, seg)
        BY <1>f DEF Refused, SegmentFails
      <4>5. Ok(n + 1, w)
        BY <4>2, <4>3, <4>4
      <4> HIDE DEF Ok
      <4> QED BY <4>5, <2>0, <3>1, <3>u
    <3> QED BY <3>2, <3>5, <3>6
  <2>4. \A n \in 0 .. N : g[n] \in E[n]
    BY <2>2, <2>3, <2>n, LoopStays
  <2>5. Ok(N, g[N])
    <3> HIDE DEF Ok
    <3> QED BY <2>4, <2>0, <2>n
  <2> QED BY <2>5, <2>1
<1> QED BY <1>1, <1>2, <1>3 DEF Built

\* The segments of the program lie apart, and below the stack.
LEMMA ElfFacts ==
    ASSUME NEW i \in 0 .. Len(Elf) - 1, NEW ar \in Seq(Area), Len(ar) = i,
           \A j \in 1 .. i : /\ ar[j].start_vpn = SegmentArea(Elf[j]).start_vpn
                             /\ ar[j].end_vpn = SegmentArea(Elf[j]).end_vpn
    PROVE  /\ Elf[i + 1] \in Segs /\ SegmentArea(Elf[i + 1]) \in Area
           /\ SegmentArea(Elf[i + 1]).end_vpn <= StackStart
           /\ Beside(ar, SegmentArea(Elf[i + 1]))
<1>e. Elf \in Seq(Segs) /\ Len(Elf) \in Nat
  BY ElfAssumption DEF Segs
<1>1. PICK k \in 1 .. Len(Elf) : k = i + 1 /\ k \in DOMAIN Elf
  BY <1>e
<1>2. PICK seg \in Segs : seg = Elf[k]
  BY <1>e, <1>1
<1>3. SegmentArea(seg) \in Area
  BY SegmentFacts
<1>4. SegmentArea(seg).end_vpn <= StackStart
  <2>1. seg.va + seg.mem_size <= USER_SPACE_END - USER_STACK_MAX_SIZE_BYTES
    BY <1>1, <1>2, ElfAssumption
  <2> QED BY <2>1, SegmentFacts
<1>5. ASSUME NEW j \in 1 .. Len(ar)
      PROVE  ar[j].end_vpn <= SegmentArea(seg).start_vpn \/ SegmentArea(seg).end_vpn <= ar[j].start_vpn
  <2>1. j \in DOMAIN Elf /\ j \in 1 .. i /\ j # k
    BY <1>1, <1>e
  <2>2. \/ SegmentArea(Elf[j]).end_vpn <= SegmentArea(Elf[k]).start_vpn
        \/ SegmentArea(Elf[k]).end_vpn <= SegmentArea(Elf[j]).start_vpn
    BY <2>1, <1>1, ElfAssumption
  <2> QED BY <2>1, <2>2, <1>2
<1>6. Beside(ar, SegmentArea(seg))
  BY <1>5 DEF Beside
<1> QED BY <1>1, <1>2, <1>3, <1>4, <1>6

ElfFails(res) ==
    res # "Ok" /\ (res = "AcquirePageFailed" \/ \E i \in DOMAIN Elf : Malformed(Elf[i]))

\* The segments are mapped, one after the other.
LEMMA ElfBuilt ==
    ASSUME NEW a0, NEW m0, NEW t \in Tasks, NEW s \in State, Built(s, a0, m0, t),
           s.space.areas = << >>, NEW word \in Own(t), NEW out, out = map_user_elf(s, Elf, word)
    PROVE  ElfFails(out.res) \/ Built(out, a0, m0, t)
<1>e. Elf \in Seq(Segs) /\ Len(Elf) \in Nat
  BY ElfAssumption DEF Segs
<1>w. word \in Words
  BY WordTypes DEF Own
<1>g. PICK g : ElfRun(g, s, word, out)
  BY <1>w, ElfType
<1> DEFINE Ok(u) == ElfFails(u.res) \/ Built(u, a0, m0, t)
<1>0. PICK E : E = [n \in 0 .. Len(Elf) |-> {u \in {g[n]} : Ok(u)}]
  OBVIOUS
<1>1. g[0] \in E[0]
  <2>1. Ok(g[0])
    BY <1>g DEF ElfRun
  <2> HIDE DEF Ok
  <2> QED BY <2>1, <1>0, <1>e
<1>2. ASSUME NEW n \in 0 .. Len(Elf) - 1, g[n] \in E[n] PROVE g[n + 1] \in E[n + 1]
  <2>1. n \in 0 .. Len(Elf) /\ n + 1 \in 0 .. Len(Elf) /\ n + 1 \in DOMAIN Elf
    BY <1>e
  <2>u. PICK u, w, seg : u = g[n] /\ w = g[n + 1] /\ seg = Elf[n + 1]
    OBVIOUS
  <2>2. Ok(u)
    <3> HIDE DEF Ok
    <3> QED BY <1>0, <1>2, <2>1, <2>u
  <2>3. w = map_user_elf_segment(u, seg, word) /\ u \in State /\ Placed(u, n)
    BY <1>g, <2>1, <2>u DEF ElfRun
  <2>4. Ok(w)
    <3>1. CASE u.res # "Ok"
      <4>1. w = u
        BY <2>3, <3>1 DEF map_user_elf_segment
      <4> QED BY <4>1, <2>2
    <3>2. CASE u.res = "Ok"
      <4>1. Built(u, a0, m0, t)
        BY <2>2, <3>2 DEF ElfFails
      <4>2. PICK ar \in Seq(Area) : ar = u.space.areas
        BY <2>3, StateParts
      <4>3. Len(ar) = n /\ \A j \in 1 .. n : /\ ar[j].start_vpn = SegmentArea(Elf[j]).start_vpn
                                             /\ ar[j].end_vpn = SegmentArea(Elf[j]).end_vpn
        BY <2>3, <3>2, <4>2 DEF Placed
      <4>4. /\ Elf[n + 1] \in Segs /\ SegmentArea(Elf[n + 1]) \in Area
            /\ SegmentArea(Elf[n + 1]).end_vpn <= StackStart
            /\ Beside(ar, SegmentArea(Elf[n + 1]))
        BY <4>3, ElfFacts
      <4>5. PICK x \in Area : x = SegmentArea(seg)
        BY <4>4, <2>u
      <4>6. seg \in Segs /\ x.end_vpn <= USER_END_VPN /\ Beside(u.space.areas, x)
        <5>1. x.end_vpn \in Nat /\ x.end_vpn <= StackStart
          BY <4>4, <4>5, <2>u, AreaParts
        <5> QED BY <5>1, <4>2, <4>4, <4>5, <2>u, UserRange
      <4>7. SegmentFails(w.res, seg) \/ Built(w, a0, m0, t)
        BY <4>1, <4>5, <4>6, <2>3, SegmentBuilt
      <4>8. SegmentFails(w.res, seg) => ElfFails(w.res)
        BY <2>1, <2>u DEF SegmentFails, ElfFails
      <4> QED BY <4>7, <4>8
    <3> QED BY <3>1, <3>2
  <2> HIDE DEF Ok
  <2> QED BY <2>4, <1>0, <2>1, <2>u
<1>3. \A n \in 0 .. Len(Elf) : g[n] \in E[n]
  BY <1>1, <1>2, <1>e, LoopStays
<1>4. Ok(g[Len(Elf)])
  <2> HIDE DEF Ok
  <2> QED BY <1>3, <1>0, <1>e
<1> QED BY <1>4, <1>g DEF ElfRun

\* The user stack gets its area, and a page at its top.
LEMMA UserStackBuilt ==
    ASSUME NEW a0, NEW m0, NEW t \in Tasks, NEW s \in State, Built(s, a0, m0, t),
           Placed(s, Len(Elf)), NEW out, out = add_user_stack_area(s)
    PROVE  out.res = "AcquirePageFailed" \/ Built(out, a0, m0, t)
<1>ok. s.res = "Ok"
  BY DEF Built
<1>e. Elf \in Seq(Segs) /\ Len(Elf) \in Nat
  BY ElfAssumption DEF Segs
<1>1. {"R", "W", "U"} \in Flags
  BY DEF Flags
<1>2. PICK x : x = VMArea(StackStart, USER_END_VPN, "Anonymous", {"R", "W", "U"})
  OBVIOUS
<1>3. /\ x \in Area /\ x.start_vpn = StackStart /\ x.end_vpn = USER_END_VPN
      /\ x.permissions = {"R", "W", "U"} /\ x.map_type = "Anonymous" /\ DOMAIN x.pages = {}
  BY <1>1, <1>2, UserRange, NewAreaType
<1>4. PICK ar \in Seq(Area) : ar = s.space.areas
  BY StateParts
<1>5. ASSUME NEW j \in 1 .. Len(ar) PROVE ar[j].end_vpn <= x.start_vpn
  <2>1. j \in 1 .. Len(Elf) /\ j \in DOMAIN Elf /\ ar[j].end_vpn = SegmentArea(Elf[j]).end_vpn
    BY <1>ok, <1>4, <1>e DEF Placed
  <2>2. PICK seg \in Segs : seg = Elf[j]
    BY <2>1, <1>e
  <2>3. seg.va + seg.mem_size <= USER_SPACE_END - USER_STACK_MAX_SIZE_BYTES
    BY <2>1, <2>2, ElfAssumption
  <2>4. SegmentArea(seg).end_vpn <= StackStart
    BY <2>3, SegmentFacts
  <2> QED BY <2>1, <2>2, <2>4, <1>3
<1>6. Beside(s.space.areas, x)
  BY <1>4, <1>5 DEF Beside
<1>7. PICK w : w = AddArea(s, x)
  OBVIOUS
<1>8. w \in State /\ Built(w, a0, m0, t) /\ w.space.areas = Append(s.space.areas, x)
  <2>1. x.end_vpn <= USER_END_VPN
    BY <1>3, UserRange
  <2> QED BY <2>1, <1>3, <1>6, <1>7, AreaBuilt
<1>9. LastHas(w.space.areas, x, {})
  <2>1. PICK br : br = w.space.areas /\ br = Append(ar, x)
    BY <1>8, <1>4
  <2>2. Len(br) = Len(ar) + 1 /\ Len(ar) \in Nat /\ br[Len(br)] = x
    BY <2>1, <1>3, AddedArea
  <2> QED BY <2>1, <2>2, <1>3 DEF LastHas
<1>10. PICK v \in Nat : v = USER_END_VPN - 1 /\ v \in x.start_vpn .. x.end_vpn - 1
  BY <1>3, UserRange
<1>11. out = AnonymousPage(w, v, to_pte_flags(x.permissions), Pte0)
  BY <1>ok, <1>2, <1>7, <1>10, UserRange DEF add_user_stack_area, StackStart
<1>12. Refused(out.res, x.permissions) \/ Built(out, a0, m0, t)
  <2>1. Pte0 \in Own(t) /\ x.end_vpn <= USER_END_VPN /\ v \notin {}
    BY <1>3, UserRange DEF Own
  <2>2. PICK d \in Own(t), D \in {{}} : d = Pte0 /\ D = {}
    BY <2>1
  <2>3. out = AnonymousPage(w, v, to_pte_flags(x.permissions), d) /\ LastHas(w.space.areas, x, D) /\ v \notin D
    BY <2>2, <1>9, <1>11
  <2> QED BY <2>1, <2>3, <1>3, <1>8, <1>10, PageBuilt
<1>13. Refused(out.res, x.permissions) => out.res = "AcquirePageFailed"
  BY <1>3 DEF Refused, is_valid_flags, to_pte_flags
<1> QED BY <1>12, <1>13

\* The area of the kernel stack holds its page.
LEMMA StackAreaFacts ==
    ASSUME NEW p \in PPN, NEW x, x = KernelStackArea(p),
           KERNEL_ROOT * ROOT_SPAN <= KernelVpn(p), KernelVpn(p) \in Nat
    PROVE  x \in Area /\ InHalf(x) /\ PagesIn(x) = {StackPage(p)}
<1>1. PICK vpn \in Nat : vpn = KernelVpn(p) /\ KERNEL_ROOT * ROOT_SPAN <= vpn
  OBVIOUS
<1>2. PICK a \in Area : /\ a = VMArea(vpn, vpn + 1, "KernelVaOffset", {"R", "W"})
                        /\ a.start_vpn = vpn /\ a.end_vpn = vpn + 1
                        /\ a.permissions = {"R", "W"} /\ a.map_type = "KernelVaOffset"
  <2>1. {"R", "W"} \in Flags
    BY DEF Flags
  <2> QED BY <2>1, NewAreaType
<1>3. PICK pages \in PageMaps : pages = Insert(NoPages, vpn, p) /\ DOMAIN pages = {vpn}
  <2>1. PICK none \in PageMaps : none = NoPages /\ DOMAIN none = {}
    BY NoPagesType
  <2>2. PICK z \in PageMaps : z = Insert(none, vpn, p) /\ DOMAIN z = DOMAIN none \cup {vpn}
    BY InsertType
  <2>3. DOMAIN z = {vpn}
    BY <2>1, <2>2
  <2> QED BY <2>1, <2>2, <2>3
<1>4. x = [a EXCEPT !.pages = pages]
  BY <1>1, <1>2, <1>3 DEF KernelStackArea
<1>5. x \in Area /\ x.start_vpn = vpn /\ x.permissions = {"R", "W"} /\ x.map_type = "KernelVaOffset" /\ x.pages = pages
  <2>1. DOMAIN pages \subseteq a.start_vpn .. a.end_vpn - 1
    BY <1>2, <1>3
  <2> QED BY <2>1, <1>2, <1>4, AreaPages
<1>6. pages[vpn] = p
  BY <1>3 DEF Insert
<1>7. InHalf(x)
  BY <1>1, <1>5 DEF InHalf
<1>8. PageOf(x, vpn) = StackPage(p)
  BY <1>1, <1>5, <1>6 DEF PageOf, StackPage
<1>9. PagesIn(x) = {StackPage(p)}
  <2>1. StackPage(p) \in PagesIn(x)
    BY <1>3, <1>5, <1>8, PagesInFacts
  <2>2. \A b \in PagesIn(x) : b = PageOf(x, b.vpn) /\ b.vpn = vpn
    BY <1>3, <1>5, PagesInFacts
  <2> QED BY <2>1, <2>2, <1>8
<1> QED BY <1>5, <1>7, <1>9

\* A space of user areas backs user pages only.
LEMMA UserBacked ==
    ASSUME NEW ar \in Seq(Area), AllAnonymous(ar), InHalves(ar)
    PROVE  \A b \in Backing(ar) : b.vpn < USER_END_VPN
<1> TAKE b \in Backing(ar)
<1>1. PICK i \in 1 .. Len(ar) : b \in PagesIn(ar[i])
  BY DEF Backing
<1>2. PICK a \in Area : a = ar[i]
  OBVIOUS
<1>3. a.end_vpn <= USER_END_VPN /\ a.end_vpn \in Nat
  BY <1>2, AreaParts DEF AllAnonymous, InHalves, InHalf
<1>4. b.vpn < a.end_vpn /\ b.vpn \in Nat
  BY <1>1, <1>2, PagesInFacts
<1> QED BY <1>3, <1>4, UserRange

\* What new_user returns when it succeeds.
Created(out, a0, m0, t) ==
    /\ out.res = "Ok" /\ Fits(out.phys, out.space, t)
    /\ Moves(a0, m0, {}, out.phys.alloc, out.phys.mem, PagesOf(out.space))

\* The kernel stack completes the space.
LEMMA KernelStackBuilt ==
    ASSUME NEW a0, NEW m0, NEW t \in Tasks, NEW s \in State, Built(s, a0, m0, t),
           NEW out, out = add_kernel_stack_area(s)
    PROVE  out.res = "AcquirePageFailed" \/ Created(out, a0, m0, t)
<1>s. PICK ph \in Phys, sp \in Space, res \in Res :
         /\ s = [phys |-> ph, space |-> sp, res |-> res]
         /\ s.phys = ph /\ s.space = sp /\ s.res = res /\ res = "Ok"
  BY StateParts DEF VMResult, Built
<1>a. PICK ar \in Seq(Area) : ar = sp.areas
  BY DEF Space
<1>q. PICK al, m, rt : al = ph.alloc /\ m = ph.mem /\ rt = sp.root_pgt
  OBVIOUS
<1>p. al = ph.alloc /\ m = ph.mem /\ rt = sp.root_pgt /\ ar = sp.areas
  BY <1>a, <1>q
<1>ph. ph = PhysRec(al, m)
  BY <1>p DEF Phys, PhysRec
<1>h. Held(al, m, rt, Backing(ar), t) /\ InHalves(ar) /\ AllocOk(al) /\ AllAnonymous(ar)
      /\ Moves(a0, m0, {}, al, m, Tabs(rt) \cup Frames(Backing(ar)))
  BY <1>s, <1>p DEF Built, Fits, Held, Good, PagesOf
<1>1. CASE alloc_page(al).page = NONE
  <2>1. out = [s EXCEPT !.res = "AcquirePageFailed"]
    BY <1>1, <1>s, <1>p DEF add_kernel_stack_area
  <2>2. out.res = "AcquirePageFailed"
    BY <2>1, <1>s
  <2> QED BY <2>2
<1>2. ASSUME NEW p, NEW a2, Taken(al, p, a2) PROVE Created(out, a0, m0, t)
  <2>1. p \in PPN /\ p \in FreeOf(al) /\ FreeOf(a2) = FreeOf(al) \ {p} /\ p # NONE
        /\ alloc_page(al).page = p /\ alloc_page(al).allocator = a2
    BY <1>2, Layout DEF Taken
  <2>B. PICK B : B = Backing(ar)
    OBVIOUS
  <2>2. /\ Held(a2, m, rt, B \cup {StackPage(p)}, t)
        /\ KERNEL_ROOT * ROOT_SPAN <= KernelVpn(p) /\ KernelVpn(p) \in Nat
    <3>1. \A b \in B : b.vpn < USER_END_VPN
      BY <2>B, <1>h, UserBacked
    <3> QED BY <3>1, <2>B, <1>2, <1>h, StackHeld
  <2>3. PICK x : x = KernelStackArea(p)
    OBVIOUS
  <2>4. x \in Area /\ InHalf(x) /\ PagesIn(x) = {StackPage(p)}
    BY <2>1, <2>2, <2>3, StackAreaFacts
  <2>5. PICK w : w = [phys |-> PhysRec(a2, m), space |-> sp, res |-> res]
    OBVIOUS
  <2>6. out = AddArea(w, x)
    <3>1. [s EXCEPT !.phys.alloc = a2] = w
      <4>1. [s EXCEPT !.phys.alloc = a2] = [s EXCEPT !.phys = [s.phys EXCEPT !.alloc = a2]]
        BY <1>s
      <4>2. PICK q : q = [ph EXCEPT !.alloc = a2] /\ q = PhysRec(a2, m)
        <5>1. [ph EXCEPT !.alloc = a2] = PhysRec(a2, m)
          BY <1>ph DEF PhysRec
        <5> QED BY <5>1
      <4>3. [s EXCEPT !.phys.alloc = a2] = [s EXCEPT !.phys = q]
        BY <4>1, <4>2, <1>s
      <4>4. [s EXCEPT !.phys = q] = [phys |-> q, space |-> sp, res |-> res]
        BY <1>s
      <4> QED BY <4>2, <4>3, <4>4, <2>5
    <3>2. out = AddArea([s EXCEPT !.phys.alloc = a2], KernelStackArea(p))
      BY <2>1, <1>s, <1>p DEF add_kernel_stack_area
    <3> QED BY <3>1, <3>2, <2>3
  <2>7. PICK br : br = Append(ar, x)
    OBVIOUS
  <2>8. out.phys = PhysRec(a2, m) /\ out.space = [root_pgt |-> rt, areas |-> br] /\ out.res = "Ok"
    <3>1. out = [w EXCEPT !.space.areas = Append(@, x)]
      BY <2>6 DEF AddArea
    <3>2. w.space = sp /\ w.space.areas = ar
      BY <2>5, <1>p
    <3>3. out = [w EXCEPT !.space = [sp EXCEPT !.areas = br]]
      BY <3>1, <3>2, <2>7
    <3>4. [sp EXCEPT !.areas = br] = [root_pgt |-> rt, areas |-> br]
      BY <1>p DEF Space
    <3> QED BY <3>3, <3>4, <2>5, <1>s
  <2>9. Backing(br) = B \cup {StackPage(p)}
    BY <2>4, <2>7, <2>B, BackingAppend
  <2>10. InHalves(br)
    <3>1. Len(br) = Len(ar) + 1 /\ Len(ar) \in Nat /\ br[Len(br)] = x /\ \A i \in 1 .. Len(ar) : br[i] = ar[i]
      BY <2>4, <2>7, AddedArea
    <3>2. \A i \in 1 .. Len(br) : i = Len(br) \/ i \in 1 .. Len(ar)
      BY <3>1
    <3> QED BY <3>1, <3>2, <2>4, <1>h DEF InHalves
  <2>11. Frames(B \cup {StackPage(p)}) = Frames(B) \cup {p}
    <3>1. StackPage(p).ppn = p
      BY DEF StackPage
    <3>2. PICK b : b = StackPage(p)
      OBVIOUS
    <3>3. b.ppn = p
      BY <3>1, <3>2
    <3> QED BY <3>2, <3>3 DEF Frames
  <2>12. out.phys.alloc = a2 /\ out.phys.mem = m /\ out.space.root_pgt = rt /\ out.space.areas = br
    BY <2>8 DEF PhysRec
  <2>13. Fits(out.phys, out.space, t)
    BY <2>2, <2>9, <2>10, <2>12 DEF Fits
  <2>14. Moves(a0, m0, {}, a2, m, Tabs(rt) \cup Frames(B) \cup {p})
    BY <2>1, <2>B, <1>h DEF Moves
  <2>15. PagesOf(out.space) = Tabs(rt) \cup Frames(B) \cup {p}
    BY <2>9, <2>11, <2>12 DEF PagesOf
  <2> QED BY <2>8, <2>12, <2>13, <2>14, <2>15 DEF Created
<1>3. CASE FreeOf(al) = {} /\ alloc_page(al) = [page |-> NONE, allocator |-> al]
  <2>1. alloc_page(al).page = NONE
    BY <1>3
  <2> QED BY <2>1, <1>1
<1> QED BY <1>2, <1>3, <1>h, AllocPage

\* new_user's first step copies the kernel's root: a space without areas.
LEMMA CopyBuilt ==
    ASSUME NEW al, AllocOk(al), NEW m \in Memory(Words), NEW t,
           NEW r, NEW p, NEW a2, NEW out, Copied(Words, r, al, m, p, a2, out),
           NEW s, s = VMResult(r.phys, [root_pgt |-> r.root, areas |-> << >>], "Ok")
    PROVE  Built(s, al, m, t)
<1>1. PICK rt : rt = [ppn |-> p, pages |-> <<p>>]
  OBVIOUS
<1>2. r.phys = PhysRec(a2, out) /\ r.root = rt
  BY <1>1 DEF Copied, Result
<1>3. /\ s.res = "Ok" /\ s.space.areas = << >> /\ s.space.root_pgt = rt
      /\ s.phys.alloc = a2 /\ s.phys.mem = out
  BY <1>2 DEF VMResult, PhysRec
<1>4. Held(a2, out, rt, {}, t)
  BY <1>1, StartHeld
<1>5. Fits(s.phys, s.space, t)
  <2>1. PICK e : e = << >>
    OBVIOUS
  <2>2. Len(e) = 0
    BY <2>1
  <2>3. InHalves(e) /\ Backing(e) = {}
    BY <2>1, <2>2, BackingEmpty DEF InHalves
  <2> QED BY <2>1, <2>3, <1>3, <1>4 DEF Fits
<1>6. Tabs(rt) = {p}
  BY <1>1 DEF Tabs, ToSet
<1>7. PagesOf(s.space) = {p}
  BY <1>3, <1>6, BackingEmpty DEF PagesOf, Frames
<1>8. Moves(al, m, {}, a2, out, {p})
  BY DEF Copied, CopiedTo, Taken, Moves
<1>9. Apart(s.space.areas) /\ AllAnonymous(s.space.areas)
  <2>1. PICK e : e = << >>
    OBVIOUS
  <2>2. Len(e) = 0
    BY <2>1
  <2> QED BY <2>1, <2>2, <1>3 DEF Apart, AllAnonymous
<1> QED BY <1>3, <1>5, <1>7, <1>8, <1>9 DEF Built

\* new_user fails for want of a page or for a malformed segment only; otherwise
\* the new space is all that has changed.
LEMMA NewUserBuilt ==
    ASSUME NEW ph \in Phys, AllocOk(ph.alloc), KernelMem(ph.mem), NEW t \in Tasks,
           NEW out, out = new_user(ph, F, Elf, Word(t))
    PROVE  \/ out.res = "CreateRootPgtFailed"
           \/ ElfFails(out.res)
           \/ Created(out, ph.alloc, ph.mem, t)
<1>1. PICK al, m : ph = PhysRec(al, m) /\ al = ph.alloc /\ m = ph.mem
  <2>1. ph = PhysRec(ph.alloc, ph.mem)
    BY DEF Phys, PhysRec
  <2> QED BY <2>1
<1>2. AllocOk(al) /\ m \in Memory(Words) /\ KernelMem(m)
  BY <1>1 DEF Phys
<1>r. PICK r : r = new_copy(ph, ph.mem[F])
  OBVIOUS
<1>3. CASE r.res = "AcquirePageFailed"
  <2>1. out = VMResult(ph, NONE, "CreateRootPgtFailed")
    BY <1>3, <1>r DEF new_user
  <2> QED BY <2>1 DEF VMResult
<1>4. ASSUME NEW p, NEW a2, NEW m2, Copied(Words, r, al, m, p, a2, m2)
      PROVE  ElfFails(out.res) \/ Created(out, al, m, t)
  <2>1. r.res = "Ok"
    BY <1>4 DEF Copied, Result
  <2>2. PICK s : s = VMResult(r.phys, [root_pgt |-> r.root, areas |-> << >>], "Ok")
    OBVIOUS
  <2>3. s \in State /\ s.space.areas = << >>
    <3>1. r.phys \in Phys /\ r.root \in Root
      <4>1. F \in PPN
        BY Layout
      <4> QED BY <4>1, <2>1, <1>r, NewCopyType
    <3>2. PICK e \in Seq(Area) : e = << >>
      <4>1. << >> \in Seq(Area)
        OBVIOUS
      <4> QED BY <4>1
    <3>3. [root_pgt |-> r.root, areas |-> e] \in Space /\ "Ok" \in Res
      BY <3>1, StateParts DEF Res
    <3>4. s \in State
      BY <2>2, <3>1, <3>2, <3>3, StateParts
    <3> QED BY <2>2, <3>4 DEF VMResult
  <2>4. Built(s, al, m, t)
    BY <2>2, <1>2, <1>4, CopyBuilt
  <2>5. PICK word \in Own(t) : word = Word(t) /\ word \in Words
    BY DEF Own, Words
  <2>6. PICK s1 : s1 = map_user_elf(s, Elf, word)
    OBVIOUS
  <2>7. PICK s2 : s2 = add_user_stack_area(s1)
    OBVIOUS
  <2>8. out = add_kernel_stack_area(s2)
    BY <2>1, <2>2, <2>5, <2>6, <2>7, <1>r DEF new_user
  <2>9. s1 \in State /\ Placed(s1, Len(Elf)) /\ (ElfFails(s1.res) \/ Built(s1, al, m, t))
    BY <2>3, <2>4, <2>5, <2>6, ElfType, ElfBuilt
  <2>10. CASE ElfFails(s1.res)
    <3>1. s1.res # "Ok"
      BY <2>10 DEF ElfFails
    <3>2. s2 = s1
      BY <3>1, <2>7 DEF add_user_stack_area
    <3>3. out = s2
      BY <3>1, <3>2, <2>8 DEF add_kernel_stack_area
    <3> QED BY <2>10, <3>2, <3>3
  <2>11. CASE Built(s1, al, m, t)
    <3>1. s2 \in State /\ (s2.res = "AcquirePageFailed" \/ Built(s2, al, m, t))
      BY <2>7, <2>9, <2>11, UserStackType, UserStackBuilt
    <3>2. CASE s2.res = "AcquirePageFailed"
      <4>1. out = s2
        BY <3>2, <2>8 DEF add_kernel_stack_area
      <4> QED BY <3>2, <4>1 DEF ElfFails
    <3>3. CASE Built(s2, al, m, t)
      <4>1. out.res = "AcquirePageFailed" \/ Created(out, al, m, t)
        BY <3>1, <3>3, <2>8, KernelStackBuilt
      <4> QED BY <4>1 DEF ElfFails
    <3> QED BY <3>1, <3>2, <3>3
  <2> QED BY <2>9, <2>10, <2>11
<1>5. r.res = "AcquirePageFailed" \/ \E p, a2, m2 : Copied(Words, r, al, m, p, a2, m2)
  <2>1. r = new_copy(PhysRec(al, m), m[F])
    BY <1>1, <1>r
  <2> QED BY <2>1, <1>2, NewCopy
<1> QED BY <1>1, <1>3, <1>4, <1>5

-----------------------------------------------------------------------------
(* VMSpace::map.                                                           *)

\* A zeroed page.
Blank(z, ph, t, p, a2, m1) ==
    /\ Taken(ph.alloc, p, a2) /\ p \in PPN /\ z.page = p /\ z.phys = PhysRec(a2, m1)
    /\ m1 \in Memory(Words)
    /\ \A q \in PPN : q # p => m1[q] = ph.mem[q]
    /\ \A x \in Index : m1[p][x] \in Own(t)

\* alloc_zeroed_page gives such a page.
LEMMA BlankPage ==
    ASSUME NEW ph \in Phys, AllocOk(ph.alloc), NEW t,
           NEW z, z = alloc_zeroed_page(ph), z.page # NONE
    PROVE  \E p, a2, m1 : Blank(z, ph, t, p, a2, m1)
<1>1. PICK al, m : al = ph.alloc /\ m = ph.mem
  OBVIOUS
<1>2. ph = PhysRec(al, m) /\ m \in Memory(Words)
  BY <1>1 DEF Phys, PhysRec
<1>3. PICK p, a2 : /\ Taken(al, p, a2)
                   /\ z = [page |-> p, phys |-> PhysRec(a2, [m EXCEPT ![p] = ZeroPage])]
  BY <1>1, <1>2, AllocZeroed
<1>4. p = z.page /\ p \in PPN
  BY <1>3, Layout DEF Taken
<1>5. PICK m1 : m1 = [m EXCEPT ![p] = ZeroPage]
  OBVIOUS
<1>6. m1 \in Memory(Words) /\ m1[p] = ZeroPage /\ \A q \in PPN : q # p => m1[q] = m[q]
  <2>1. ZeroPage \in [Index -> Words]
    BY WordTypes
  <2> QED BY <2>1, <1>2, <1>4, <1>5 DEF Memory
<1>7. \A x \in Index : m1[p][x] \in Own(t)
  BY <1>6 DEF ZeroPage, Own
<1>8. z.phys = PhysRec(a2, m1)
  BY <1>3, <1>5
<1>9. Blank(z, ph, t, p, a2, m1)
  BY <1>1, <1>3, <1>4, <1>6, <1>7, <1>8 DEF Blank
<1> QED BY <1>9

\* The pages of an area without a page it does not have, and the page that an
\* insert then replaces.
LEMMA NothingTaken ==
    ASSUME NEW ar \in Seq(Area), NEW i \in 1 .. Len(ar), NEW v, v \notin DOMAIN ar[i].pages
    PROVE  [ar EXCEPT ![i].pages = Only(@, DOMAIN @ \ {v})] = ar
<1>a. PICK a \in Area : a = ar[i]
  OBVIOUS
<1>1. PICK f \in PageMaps : f = a.pages /\ v \notin DOMAIN f
  BY <1>a, AreaParts
<1>2. f = [x \in DOMAIN f |-> f[x]]
  BY DEF PageMaps
<1>3. Only(f, DOMAIN f \ {v}) = f
  <2>1. DOMAIN f \cap (DOMAIN f \ {v}) = DOMAIN f
    BY <1>1
  <2> QED BY <2>1, <1>2 DEF Only, Restrict
<1>4. [a EXCEPT !.pages = f] = a
  BY <1>1, AreaParts
<1>5. [ar EXCEPT ![i].pages = Only(@, DOMAIN @ \ {v})] = [ar EXCEPT ![i] = a]
  BY <1>a, <1>1, <1>3, <1>4
<1>6. [ar EXCEPT ![i] = a] = ar
  BY <1>a
<1> QED BY <1>5, <1>6

\* Dropping no page changes nothing.
LEMMA NothingDropped ==
    ASSUME NEW f \in PageMaps, NEW v, v \notin DOMAIN f, NEW ph
    PROVE  DropPages(ph, Only(f, {v})) = ph
<1>1. DOMAIN Only(f, {v}) = DOMAIN f \cap {v}
  BY OnlyType
<1>2. DOMAIN Only(f, {v}) = {}
  BY <1>1
<1> QED BY <1>2 DEF DropPages

\* The areas do not have a page for vpn that permits what is needed.
Missing(ar, vpn, need) == \A c \in Backing(ar) : c.vpn = vpn => ~(need \subseteq c.flags)

\* A request changed the space sp of t and memory.
Changes(ph, sp, ph2, sp2, t) ==
    /\ Fits(ph2, sp2, t)
    /\ Moves(ph.alloc, ph.mem, PagesOf(sp), ph2.alloc, ph2.mem, PagesOf(sp2))

\* VMSpace::map tries to put a page under area i.
Tries(out, m, sp, i, v, p) ==
    out = IF m.res = "Ok"
          THEN VMResult(m.phys, [root_pgt |-> m.root,
                                 areas |-> [sp.areas EXCEPT ![i].pages = Insert(@, v, p)]], "Ok")
          ELSE MapFailed(m, sp, i, v, p)

\* Whether map_create succeeds or refuses, space and tables agree.
LEMMA MapTries ==
    ASSUME NEW ph \in Phys, NEW rt \in Root, NEW ar \in Seq(Area), NEW sp, sp.root_pgt = rt, sp.areas = ar,
           Apart(ar), NEW t \in Tasks, Fits(ph, sp, t), NEW v \in UserVpns,
           NEW i \in 1 .. Len(ar), contain_vpn(ar[i], v), v \notin DOMAIN ar[i].pages,
           NEW z, z = alloc_zeroed_page(ph), z.page # NONE,
           NEW m, m = map_create(DropPages(z.phys, Only(ar[i].pages, {v})), rt, v, z.page,
                                 to_pte_flags(ar[i].permissions)),
           NEW out, Tries(out, m, sp, i, v, z.page)
    PROVE  out.res # "Panic" /\ Changes(ph, sp, out.phys, out.space, t)
<1>v. v \in Nat /\ v \in UserVpns
  BY UserLow
<1>a. PICK a \in Area : a = ar[i]
  OBVIOUS
<1>f. PICK f \in Flags : f = ar[i].permissions
  BY <1>a, AreaParts
<1>i. ar[i].start_vpn <= v /\ v < ar[i].end_vpn /\ v \notin DOMAIN ar[i].pages
  BY DEF contain_vpn
<1>s. sp.root_pgt = rt /\ sp.areas = ar
  OBVIOUS
<1>h. Held(ph.alloc, ph.mem, rt, Backing(ar), t) /\ InHalves(ar) /\ AllocOk(ph.alloc)
  BY <1>s DEF Fits, Held, Good
<1>1. PICK p, a2, m1 : Blank(z, ph, t, p, a2, m1)
  BY <1>h, BlankPage
<1>2. /\ Taken(ph.alloc, p, a2) /\ p \in PPN /\ z.page = p /\ z.phys = PhysRec(a2, m1)
      /\ m1 \in Memory(Words)
      /\ \A q \in PPN : q # p => m1[q] = ph.mem[q]
      /\ \A x \in Index : m1[p][x] \in Own(t)
  BY <1>1 DEF Blank
<1>3. m = map_create(PhysRec(a2, m1), rt, v, p, to_pte_flags(f))
  <2>1. DropPages(z.phys, Only(ar[i].pages, {v})) = z.phys
    <3>1. PICK g \in PageMaps : g = ar[i].pages
      BY <1>a, AreaParts
    <3> QED BY <3>1, <1>i, NothingDropped
  <2> QED BY <2>1, <1>2, <1>f
<1>4. PICK B, al, m0, b : B = Backing(ar) /\ al = ph.alloc /\ m0 = ph.mem /\ b = Page(v, p, f)
  OBVIOUS
<1>5. PICK al2, m2, rt2 : Enlarges(m, al, m0, rt, B, t, b, al2, m2, rt2)
  <2>1. \A c \in B : c.vpn # v
    BY <1>i, <1>v, <1>4, NotBacked
  <2>2. Held(al, m0, rt, B, t) /\ Taken(al, p, a2) /\ m1 \in Memory(Words)
        /\ (\A q \in PPN : q # p => m1[q] = m0[q]) /\ \A x \in Index : m1[p][x] \in Own(t)
    BY <1>h, <1>2, <1>4
  <2> QED BY <2>1, <2>2, <1>3, <1>4, <1>v, PageEnters
<1>6. PagesOf(sp) = Tabs(rt) \cup Frames(B)
  BY <1>s, <1>4 DEF PagesOf
<1>7. CASE m.res = "Ok"
  <2>1. /\ Held(al2, m2, rt2, B \cup {b}, t) /\ m.phys = PhysRec(al2, m2) /\ m.root = rt2
        /\ Moves(al, m0, Tabs(rt) \cup Frames(B), al2, m2, Tabs(rt2) \cup Frames(B \cup {b}))
    BY <1>5, <1>7 DEF Enlarges
  <2>2. PICK br : Put(ar, br, i, v, p)
    BY DEF Put
  <2>3. br = [ar EXCEPT ![i].pages = Insert(@, v, z.page)]
    BY <2>2, <1>2 DEF Put
  <2>4. out = VMResult(PhysRec(al2, m2), [root_pgt |-> rt2, areas |-> br], "Ok")
    BY <2>1, <2>3, <1>7, <1>s DEF Tries
  <2>5. Backing(br) = Backing(ar) \cup {b} /\ InHalves(br)
    <3>1. b = Page(v, p, ar[i].permissions)
      BY <1>4, <1>f
    <3> QED BY <3>1, <2>2, <1>i, <1>v, <1>2, <1>h, PageInserted
  <2>6. out.res = "Ok" /\ out.phys.alloc = al2 /\ out.phys.mem = m2
        /\ out.space.root_pgt = rt2 /\ out.space.areas = br
    BY <2>4 DEF VMResult, PhysRec
  <2>7. Fits(out.phys, out.space, t)
    BY <2>1, <2>5, <2>6, <1>4 DEF Fits
  <2>8. PagesOf(out.space) = Tabs(rt2) \cup Frames(B \cup {b})
    BY <2>5, <2>6, <1>4 DEF PagesOf
  <2> QED BY <2>1, <2>6, <2>7, <2>8, <1>4, <1>6 DEF Changes
<1>8. CASE m.res # "Ok"
  <2>0. b.ppn = p
    BY <1>4 DEF Page
  <2>1. /\ Held(dealloc(al2, p), m2, rt2, B, t) /\ m.phys = PhysRec(al2, m2) /\ m.root = rt2
        /\ Moves(al, m0, Tabs(rt) \cup Frames(B), dealloc(al2, p), m2, Tabs(rt2) \cup Frames(B))
        /\ m.res # "Panic"
    BY <1>5, <1>8, <2>0 DEF Enlarges
  <2>2. [ar EXCEPT ![i].pages = Only(@, DOMAIN @ \ {v})] = ar
    BY <1>i, NothingTaken
  <2>3. out = VMResult([m.phys EXCEPT !.alloc = dealloc(@, p)], [root_pgt |-> rt2, areas |-> ar], m.res)
    BY <2>1, <2>2, <1>8, <1>2, <1>s DEF MapFailed, Tries
  <2>d. PICK d : d = dealloc(al2, p)
    OBVIOUS
  <2>e. PICK ph2 : ph2 = PhysRec(d, m2)
    OBVIOUS
  <2>4. [m.phys EXCEPT !.alloc = dealloc(@, p)] = ph2
    <3>1. m.phys.alloc = al2 /\ m.phys = PhysRec(al2, m2)
      BY <2>1 DEF PhysRec
    <3>2. [m.phys EXCEPT !.alloc = dealloc(@, p)] = [m.phys EXCEPT !.alloc = d]
      BY <3>1, <2>d
    <3>3. [PhysRec(al2, m2) EXCEPT !.alloc = d] = PhysRec(d, m2)
      BY DEF PhysRec
    <3> QED BY <3>1, <3>2, <3>3, <2>e
  <2>f. out.phys = ph2 /\ out.res = m.res /\ out.space = [root_pgt |-> rt2, areas |-> ar]
    BY <2>3, <2>4 DEF VMResult
  <2>5. out.res = m.res /\ out.phys.alloc = dealloc(al2, p) /\ out.phys.mem = m2
        /\ out.space.root_pgt = rt2 /\ out.space.areas = ar
    BY <2>d, <2>e, <2>f DEF PhysRec
  <2>6. Fits(out.phys, out.space, t)
    BY <2>1, <2>5, <1>4, <1>h DEF Fits
  <2>7. PagesOf(out.space) = Tabs(rt2) \cup Frames(B)
    BY <2>5, <1>4 DEF PagesOf
  <2> QED BY <2>1, <2>5, <2>6, <2>7, <1>4, <1>6 DEF Changes
<1> QED BY <1>7, <1>8

\* VMSpace::map for a page of user space that is missing: no assertion fails, and
\* the space and its tables agree, whether it succeeds or not.
LEMMA MapFits ==
    ASSUME NEW ph \in Phys, NEW sp \in Space, Apart(sp.areas), NEW t \in Tasks, Fits(ph, sp, t),
           NEW v \in UserVpns, NEW need, Missing(sp.areas, v, need),
           NEW out, out = map(ph, sp, v, need)
    PROVE  out.res # "Panic" /\ Changes(ph, sp, out.phys, out.space, t)
<1>1. PICK rt \in Root, ar \in Seq(Area) : sp = [root_pgt |-> rt, areas |-> ar] /\ sp.areas = ar /\ sp.root_pgt = rt
  BY StateParts
<1>v. v \in Nat /\ v < KERNEL_ROOT * ROOT_SPAN /\ KERNEL_ROOT * ROOT_SPAN \in Nat
  BY UserLow
<1>2. ASSUME NEW res, out = VMResult(ph, sp, res), res # "Panic"
      PROVE  out.res # "Panic" /\ Changes(ph, sp, out.phys, out.space, t)
  <2>1. out.phys = ph /\ out.space = sp /\ out.res = res
    BY <1>2 DEF VMResult
  <2> QED BY <2>1, <1>2 DEF Changes, Moves
<1>i. PICK i : i = FindArea(ar, v)
  OBVIOUS
<1>z. PICK z : z = alloc_zeroed_page(ph)
  OBVIOUS
<1>m. PICK m : m = map_create(DropPages(z.phys, Only(ar[i].pages, {v})), rt, v, z.page,
                              to_pte_flags(ar[i].permissions))
  OBVIOUS
<1>3. CASE i = 0
  BY <1>3, <1>2, <1>1, <1>i DEF map
<1>4. CASE i # 0 /\ ~(need \subseteq ar[i].permissions)
  BY <1>4, <1>2, <1>1, <1>i DEF map
<1>5. CASE i # 0 /\ need \subseteq ar[i].permissions
  <2>1. i \in 1 .. Len(ar) /\ contain_vpn(ar[i], v)
    BY <1>5, <1>i, <1>v, FindAreaType
  <2>2. PICK a \in Area : a = ar[i]
    BY <2>1
  <2>3. ar[i].map_type = "Anonymous"
    <3>1. InHalf(a)
      BY <2>1, <2>2, <1>1 DEF Fits, InHalves
    <3>2. a.start_vpn <= v /\ a.start_vpn \in Nat
      BY <2>1, <2>2, AreaParts DEF contain_vpn
    <3> QED BY <3>1, <3>2, <2>2, <1>v DEF InHalf
  <2>4. v \notin DOMAIN ar[i].pages
    <3>1. ASSUME v \in DOMAIN a.pages PROVE FALSE
      <4>1. PICK b : b = PageOf(a, v) /\ b \in PagesIn(a)
        BY <3>1, PagesInFacts
      <4>2. b \in Backing(ar)
        BY <4>1, <2>1, <2>2 DEF Backing, PagesIn
      <4>3. PageOf(a, v).vpn = v /\ PageOf(a, v).flags = a.permissions
        BY DEF PageOf
      <4> QED BY <4>1, <4>2, <4>3, <2>2, <1>1, <1>5 DEF Missing
    <3> QED BY <3>1, <2>2
  <2>5. CASE z.page = NONE
    BY <2>5, <2>3, <1>5, <1>2, <1>1, <1>i, <1>z DEF map, AnonymousFrame
  <2>6. CASE z.page # NONE
    <3>1. Tries(out, m, sp, i, v, z.page)
      BY <2>6, <2>3, <1>5, <1>1, <1>i, <1>z, <1>m, Zenon DEF map, AnonymousFrame, Tries
    <3>2. sp.root_pgt = rt /\ sp.areas = ar
      BY <1>1
    <3> QED BY <3>1, <3>2, <2>1, <2>4, <2>6, <1>z, <1>m, MapTries
  <2> QED BY <2>5, <2>6
<1> QED BY <1>3, <1>4, <1>5

-----------------------------------------------------------------------------
(* VMSpace::unmap.                                                         *)

\* The pages of a range inside one area are the area's.
LEMMA TakenOut ==
    ASSUME NEW ar \in Seq(Area), Apart(ar), NEW i \in 1 .. Len(ar), NEW a \in Area, a = ar[i],
           NEW b \in Nat, NEW e \in Nat, a.start_vpn <= b, e <= a.end_vpn,
           NEW q, q = Only(a.pages, b .. e - 1), NEW al, NEW rt, Owns(al, rt, Backing(ar))
    PROVE  /\ q \in PageMaps /\ DOMAIN q \subseteq a.start_vpn .. a.end_vpn
           /\ Droppable(al, q)
           /\ Frames(Backing(ar)) = Frames(Rest(Backing(ar), b, e)) \cup Range(q)
           /\ Frames(Rest(Backing(ar), b, e)) \cap Range(q) = {}
<1>1. PICK S : S = b .. e - 1
  OBVIOUS
<1>2. PICK f \in PageMaps : f = a.pages
  BY AreaParts
<1>3. q \in PageMaps /\ DOMAIN q = DOMAIN f \cap S
  BY <1>1, <1>2, OnlyType
<1>4. \A v \in DOMAIN q : q[v] = f[v]
  <2>1. q = [w \in DOMAIN f \cap S |-> f[w]]
    BY <1>1, <1>2 DEF Only, Restrict
  <2> QED BY <2>1
<1>5. DOMAIN q \subseteq a.start_vpn .. a.end_vpn
  BY <1>2, <1>3, AreaParts
<1>6. /\ Droppable(al, q) /\ Range(q) \subseteq Frames(Backing(ar))
      /\ Range(q) = Frames(PartOf(ar[i], S))
  <2>1. DOMAIN q = DOMAIN ar[i].pages \cap S /\ \A v \in DOMAIN q : q[v] = ar[i].pages[v]
    BY <1>2, <1>3, <1>4
  <2>2. /\ Owns(al, rt, Backing(ar)) /\ q \in PageMaps
        /\ Picks(q, ar[i], S)
    BY <2>1, <1>3 DEF Picks
  <2> QED BY <2>2, PartDrops
<1>7. PICK B, P, R : B = Backing(ar) /\ P = PartOf(ar[i], S) /\ R = Rest(B, b, e)
  OBVIOUS
<1>8. P \subseteq B /\ P \cup R = B
  <2>1. B = Others(ar, i) \cup PagesIn(ar[i])
    BY <1>7, BackingSplit
  <2>2. \A c \in Others(ar, i) : c.vpn < a.start_vpn \/ a.end_vpn <= c.vpn
    BY BackingApart
  <2>3. \A c \in B : c.vpn \in Nat
    BY <1>7 DEF Owns, Backed
  <2>4. ASSUME NEW c \in B, c \notin R PROVE c \in P
    <3>1. b <= c.vpn /\ c.vpn < e /\ c.vpn \in Nat
      BY <2>3, <2>4, <1>7 DEF Rest
    <3>2. c \notin Others(ar, i)
      <4>1. a.start_vpn \in Nat /\ a.end_vpn \in Nat
        BY AreaParts
      <4> QED BY <4>1, <3>1, <2>2
    <3> QED BY <3>1, <3>2, <2>1, <1>1, <1>7 DEF PartOf
  <2>5. R \subseteq B
    BY <1>7 DEF Rest
  <2>6. P \subseteq B
    BY <2>1, <1>7 DEF PartOf
  <2> QED BY <2>4, <2>5, <2>6
<1>9. \A c \in P, d \in R : c.ppn # d.ppn
  <2>1. ASSUME NEW c \in P, NEW d \in R, c.ppn = d.ppn PROVE FALSE
    <3>1. c = d
      BY <2>1, <1>7, <1>8 DEF Owns
    <3>2. c.vpn \in b .. e - 1 /\ ~(b <= d.vpn /\ d.vpn < e)
      BY <1>1, <1>7 DEF Rest, PartOf
    <3> QED BY <3>1, <3>2
  <2> QED BY <2>1
<1>10. Frames(B) = Frames(R) \cup Frames(P) /\ Frames(R) \cap Frames(P) = {}
  BY <1>8, <1>9 DEF Frames
<1> QED BY <1>3, <1>5, <1>6, <1>7, <1>10

\* One turn of VMSpace::unmap on a range of user space: the page table is
\* cleared, then the pages are dropped, and the rest of the space is as it was.
LEMMA UnmapAreaFits ==
    ASSUME NEW s \in State, s.res = "Ok", Apart(s.space.areas), NEW i \in 1 .. Len(s.space.areas),
           NEW t \in Tasks, Fits(s.phys, s.space, t),
           NEW sv \in Nat, NEW ev \in Nat, sv < ev, ev <= USER_END_VPN,
           NEW out, out = UnmapArea(s, i, sv, ev)
    PROVE  out.res = "Ok" /\ Changes(s.phys, s.space, out.phys, out.space, t)
<1>s. PICK ph \in Phys, rt \in Root, ar \in Seq(Area) :
         s = [phys |-> ph, space |-> [root_pgt |-> rt, areas |-> ar], res |-> "Ok"]
  <2>1. PICK ph \in Phys, sp \in Space : s = [phys |-> ph, space |-> sp, res |-> "Ok"]
    BY StateParts DEF VMResult
  <2>2. PICK rt \in Root, ar \in Seq(Area) : sp = [root_pgt |-> rt, areas |-> ar]
    BY StateParts
  <2> QED BY <2>1, <2>2
<1>a. s.space.areas = ar /\ s.phys = ph /\ s.space.root_pgt = rt /\ s.space = [root_pgt |-> rt, areas |-> ar]
  BY <1>s
<1>m. PICK al, m : ph = PhysRec(al, m) /\ al = ph.alloc /\ m = ph.mem
  <2>1. ph = PhysRec(ph.alloc, ph.mem)
    BY DEF Phys, PhysRec
  <2> QED BY <2>1
<1>B. PICK B : B = Backing(ar)
  OBVIOUS
<1>h. Held(al, m, rt, B, t) /\ InHalves(ar) /\ i \in 1 .. Len(ar) /\ Apart(ar)
  BY <1>a, <1>m, <1>B DEF Fits
<1>h1. AllocOk(al) /\ Owns(al, rt, B) /\ RootOk(rt, al) /\ m \in Memory(Words)
  BY <1>h DEF Held, Good
<1>1. PICK a \in Area : a = ar[i]
  BY <1>h
<1>2. a.start_vpn \in Nat /\ a.end_vpn \in Nat /\ a.start_vpn < a.end_vpn
  BY AreaParts
<1>3. PICK b \in Nat, e \in Nat : /\ b = IF sv <= a.start_vpn THEN a.start_vpn ELSE sv
                                  /\ e = IF a.end_vpn <= ev THEN a.end_vpn ELSE ev
  BY <1>2
<1>u. PICK u : u = unmap(ph, rt, b, e)
  OBVIOUS
<1>4. CASE a.end_vpn <= sv \/ ev <= a.start_vpn
  <2>1. out = s
    BY <1>4, <1>a, <1>1 DEF UnmapArea
  <2> QED BY <2>1 DEF Changes, Moves
<1>5. CASE ~(a.end_vpn <= sv) /\ ~(ev <= a.start_vpn)
  <2>1. a.start_vpn <= b /\ b < e /\ e <= a.end_vpn /\ b \in 0 .. USER_END_VPN /\ e \in 0 .. USER_END_VPN
    BY <1>2, <1>3, <1>5, UserRange
  <2>2. PICK m2 : Clears(u, al, m, rt, B, t, b, e, m2)
    <3>1. u = unmap(PhysRec(al, m), rt, b, e)
      BY <1>u, <1>m
    <3> QED BY <3>1, <2>1, <1>h, UnmapClears
  <2>R. PICK R : R = Rest(B, b, e)
    OBVIOUS
  <2>3. /\ u.phys = PhysRec(al, m2) /\ u.res = "Ok" /\ Grown(al, m, rt, al, m2, rt)
        /\ Held(al, m2, rt, R, t)
    BY <2>2, <2>R DEF Clears
  <2>4. PICK q : q = Only(a.pages, b .. e - 1)
    OBVIOUS
  <2>5. /\ q \in PageMaps /\ DOMAIN q \subseteq a.start_vpn .. a.end_vpn
        /\ Droppable(al, q) /\ Frames(B) = Frames(R) \cup Range(q) /\ Frames(R) \cap Range(q) = {}
    BY <2>1, <2>4, <2>R, <1>1, <1>h, <1>h1, <1>B, TakenOut
  <2>6. PICK gone : gone = DropPages(u.phys, q)
    OBVIOUS
  <2>p. u.phys \in Phys /\ u.phys.alloc = al /\ u.phys.mem = m2
    <3>1. u.phys.alloc = al /\ u.phys.mem = m2
      BY <2>3 DEF PhysRec
    <3>2. u.phys \in Phys
      BY <1>u, UnmapResultType
    <3> QED BY <3>1, <3>2
  <2>7. Freed(gone, u.phys, Range(q))
    BY <2>5, <2>6, <2>p, <1>h1, <1>2, DropFrees
  <2>8. PICK a2 : /\ a2 = gone.alloc /\ gone.mem = m2 /\ AllocOk(a2)
                  /\ FreeOf(a2) = FreeOf(al) \cup Range(q)
    BY <2>7, <2>p DEF Freed
  <2>9. PICK bs : bs = Remaining(ar, i, b, e)
    OBVIOUS
  <2>10. Backing(bs) = R /\ InHalves(bs)
    BY <2>1, <2>9, <2>R, <1>1, <1>h, <1>B, RemainingBacks
  <2>11. out = VMResult(gone, [root_pgt |-> rt, areas |-> bs], "Ok")
    <3>1. [s.space EXCEPT !.areas = Remaining(@, i, b, e)] = [root_pgt |-> rt, areas |-> bs]
      <4>1. [s.space EXCEPT !.areas = Remaining(@, i, b, e)] = [s.space EXCEPT !.areas = bs]
        BY <1>a, <2>9
      <4>2. [s.space EXCEPT !.areas = bs] = [root_pgt |-> rt, areas |-> bs]
        BY <1>a
      <4> QED BY <4>1, <4>2
    <3>2. out = VMResult(gone, [s.space EXCEPT !.areas = Remaining(@, i, b, e)], "Ok")
      BY <1>a, <1>1, <1>3, <1>5, <1>u, <2>3, <2>4, <2>6, Zenon DEF UnmapArea
    <3> QED BY <3>1, <3>2
  <2>12. out.res = "Ok" /\ out.phys = gone /\ out.space.root_pgt = rt /\ out.space.areas = bs
    BY <2>11 DEF VMResult
  <2>13. Held(a2, m2, rt, R, t)
    <3>1. Frames(R) \cap FreeOf(al) = {}
      BY <2>3, FrameFacts
    <3>2. Tabs(rt) \cap FreeOf(al) = {}
      BY <1>h1 DEF RootOk
    <3>3. Frames(B) \cap Tabs(rt) = {}
      BY <1>h, FrameFacts
    <3>4. (Tabs(rt) \cup Frames(R)) \cap FreeOf(a2) = {}
      BY <3>1, <3>2, <3>3, <2>5, <2>8
    <3>5. m2 \in Memory(Words)
      BY <2>3 DEF Held, Good
    <3> QED BY <3>4, <3>5, <2>3, <2>8, FrameHeld
  <2>14. Fits(out.phys, out.space, t)
    BY <2>8, <2>10, <2>12, <2>13 DEF Fits
  <2>15. Moves(al, m, Tabs(rt) \cup Frames(B), a2, m2, Tabs(rt) \cup Frames(R))
    <3>1. \A p \in PPN : p \notin FreeOf(al) \cup Tabs(rt) => m2[p] = m[p]
      BY <2>3 DEF Grown
    <3> QED BY <3>1, <2>5, <2>8 DEF Moves
  <2>16. PagesOf(s.space) = Tabs(rt) \cup Frames(B) /\ PagesOf(out.space) = Tabs(rt) \cup Frames(R)
    BY <2>10, <2>12, <1>a, <1>B DEF PagesOf
  <2> QED BY <2>8, <2>12, <2>14, <2>15, <2>16, <1>a, <1>m DEF Changes
<1> QED BY <1>4, <1>5

\* VMSpace::unmap on a range of user space never panics.
LEMMA UnmapFits ==
    ASSUME NEW ph \in Phys, NEW sp \in Space, Apart(sp.areas), NEW t \in Tasks, Fits(ph, sp, t),
           NEW sv \in Nat, NEW ev \in Nat, sv < ev, ev <= USER_END_VPN,
           NEW out, out = unmap_range(ph, sp, sv, ev)
    PROVE  out.res = "Ok" /\ Changes(ph, sp, out.phys, out.space, t)
<1>n. PICK N \in Nat : N = Len(sp.areas)
  BY StateParts
<1>g. PICK g : UnmapRun(g, ph, sp, sv, ev, out)
  BY UnmapRangeType
<1> DEFINE Ok(u) == u.res = "Ok" /\ Changes(ph, sp, u.phys, u.space, t)
<1>0. PICK E : E = [n \in 0 .. N |-> {u \in {g[n]} : Ok(u)}]
  OBVIOUS
<1>1. g[0] \in E[0]
  <2>1. g[0].phys = ph /\ g[0].space = sp /\ g[0].res = "Ok"
    BY <1>g DEF UnmapRun, VMResult
  <2>2. Ok(g[0])
    BY <2>1 DEF Changes, Moves
  <2> HIDE DEF Ok
  <2> QED BY <2>2, <1>0
<1>2. ASSUME NEW n \in 0 .. N - 1, g[n] \in E[n] PROVE g[n + 1] \in E[n + 1]
  <2>1. n \in 0 .. N /\ n + 1 \in 0 .. N
    OBVIOUS
  <2>u. PICK u, w : u = g[n] /\ w = g[n + 1]
    OBVIOUS
  <2>2. Ok(u)
    <3> HIDE DEF Ok
    <3> QED BY <1>0, <1>2, <2>1, <2>u
  <2>3. /\ w = UnmapArea(u, N + 1 - (n + 1), sv, ev)
        /\ u \in State /\ Apart(u.space.areas) /\ Len(u.space.areas) >= N - n
    BY <1>g, <1>n, <2>1, <2>u DEF UnmapRun
  <2>l. Len(u.space.areas) \in Nat
    <3>1. u.space.areas \in Seq(Area)
      BY <2>3, StateParts
    <3> QED BY <3>1
  <2>4. PICK i \in 1 .. Len(u.space.areas) : i = N + 1 - (n + 1)
    BY <2>3, <2>l
  <2>5. w.res = "Ok" /\ Changes(u.phys, u.space, w.phys, w.space, t)
    <3>1. w = UnmapArea(u, i, sv, ev) /\ u.res = "Ok" /\ Fits(u.phys, u.space, t)
      BY <2>2, <2>3, <2>4 DEF Changes
    <3> QED BY <3>1, <2>3, UnmapAreaFits
  <2>6. Ok(w)
    <3>1. PICK al1, m1, Q1 : al1 = u.phys.alloc /\ m1 = u.phys.mem /\ Q1 = PagesOf(u.space)
      OBVIOUS
    <3>2. PICK al2, m2, Q2 : al2 = w.phys.alloc /\ m2 = w.phys.mem /\ Q2 = PagesOf(w.space)
      OBVIOUS
    <3>3. Moves(ph.alloc, ph.mem, PagesOf(sp), al1, m1, Q1) /\ Moves(al1, m1, Q1, al2, m2, Q2)
      BY <2>2, <2>5, <3>1, <3>2 DEF Changes
    <3>4. Moves(ph.alloc, ph.mem, PagesOf(sp), al2, m2, Q2)
      BY <3>3, MovesTrans
    <3> QED BY <3>2, <3>4, <2>5 DEF Changes
  <2> HIDE DEF Ok
  <2> QED BY <2>6, <1>0, <2>1, <2>u
<1>3. \A n \in 0 .. N : g[n] \in E[n]
  BY <1>1, <1>2, LoopStays
<1>4. Ok(g[N])
  <2> HIDE DEF Ok
  <2> QED BY <1>3, <1>0
<1> QED BY <1>4, <1>g, <1>n DEF UnmapRun

-----------------------------------------------------------------------------
(* What the hardware finds.                                                *)

\* Below the kernel half the hardware finds the pages that back the areas, and
\* nothing else.
LEMMA EntryAt ==
    ASSUME NEW al, NEW m, NEW rt, NEW B, NEW t, Held(al, m, rt, B, t),
           NEW v \in Nat, v < KERNEL_ROOT * ROOT_SPAN, NEW e, e = Translate(m, rt.ppn, v)
    PROVE  /\ \A c \in B : c.vpn = v => e = Entry(c)
           /\ (\A c \in B : c.vpn # v) => e = NONE
<1>1. Points(m, rt.ppn, Tabs(rt) \ {rt.ppn})
  BY DEF Held, Good, Tree
<1>2. PICK i, j, k : i = parse_vpn(v)[2] /\ j = parse_vpn(v)[1] /\ k = parse_vpn(v)[0]
  OBVIOUS
<1>3. i \in UserIndex /\ j \in Index /\ k \in Index /\ v = VpnOf(i, j, k) /\ Translates(m, rt.ppn, v, i, j, k)
  BY <1>1, <1>2, TranslateBelow
<1>4. Look(m, rt.ppn, i, j, k) = Backs(B, v)
  BY <1>3 DEF Held, Agrees
<1>5. ASSUME NEW c \in B, c.vpn = v PROVE e = Entry(c)
  <2>1. \A d \in B : d.vpn = c.vpn => d = c
    BY DEF Held, Owns
  <2>2. Backs(B, v) = {Entry(c)}
    <3>1. {d \in B : d.vpn = v} = {c}
      BY <1>5, <2>1
    <3> QED BY <3>1 DEF Backs
  <2> QED BY <2>2, <1>3, <1>4 DEF Translates
<1>6. ASSUME \A c \in B : c.vpn # v PROVE e = NONE
  <2>1. Backs(B, v) = {}
    BY <1>6, BacksMore
  <2> QED BY <2>1, <1>3, <1>4 DEF Translates
<1> QED BY <1>5, <1>6

\* The page of an address below the kernel half.
LEMMA LowAddress ==
    ASSUME NEW va \in Nat, NEW n \in Nat, va < n * PAGE_SIZE_BYTES
    PROVE  VpnFromVa(va) \in Nat /\ VpnFromVa(va) < n
<1>1. PICK d \in Nat : d = PAGE_SIZE_BYTES /\ d # 0
  BY MemAssumption
<1>2. PICK q, r : q = va \div d /\ r = va % d
  OBVIOUS
<1>3. q \in Nat /\ r \in Nat /\ r < d /\ va = q * d + r
  BY <1>1, <1>2, DivMod
<1>4. q < n
  <2>1. ASSUME n <= q PROVE FALSE
    <3>1. n = q \/ n < q
      BY <2>1, <1>3
    <3>2. n * d <= q * d
      BY <3>1, <1>1, <1>3, MulStep
    <3>3. PICK x \in Nat, y \in Nat : x = n * d /\ y = q * d
      BY <1>1, <1>3
    <3> QED BY <3>2, <3>3, <1>1, <1>3
  <2> QED BY <2>1, <1>3
<1> QED BY <1>1, <1>2, <1>3, <1>4 DEF VpnFromVa

\* An address of the upper half has a root index of the kernel half.
LEMMA HighAddress ==
    ASSUME NEW va \in 0 .. USIZE - 1, USIZE - SV39_HALF <= va, NEW v, v = VpnFromVa(va)
    PROVE  /\ parse_vpn(v)[2] \in KernelIndex
           /\ parse_vpn(v)[1] \in Index /\ parse_vpn(v)[0] \in Index
<1>1. PICK n \in Nat, K \in Nat, R \in Nat, P \in Nat :
         /\ n = PTES_PER_TABLE /\ K = KERNEL_ROOT /\ R = ROOT_SPAN /\ P = PAGE_SIZE_BYTES
         /\ n # 0 /\ R # 0 /\ P # 0 /\ 2 * K <= n
  <2>1. /\ PTES_PER_TABLE \in Nat /\ KERNEL_ROOT \in Nat /\ ROOT_SPAN \in Nat /\ PTES_PER_TABLE # 0
        /\ ROOT_SPAN # 0
    BY Shape
  <2> QED BY <2>1, MemAssumption, VMAssumption
<1>2. PICK H \in Nat, U \in Nat : /\ H = SV39_HALF /\ U = USIZE /\ 2 * H <= U /\ H = (K * R) * P
                                  /\ (U - 2 * H) % ((n * R) * P) = 0
  <2>1. SV39_HALF = (K * R) * P
    BY <1>1 DEF SV39_HALF
  <2>2. (K * R) * P \in Nat
    <3>1. PICK x \in Nat : x = K * R
      BY <1>1
    <3> QED BY <3>1, <1>1
  <2> QED BY <2>1, <2>2, <1>1, VMAssumption
<1>3. PICK c \in Nat : U - 2 * H = c * ((n * R) * P)
  <2>1. PICK x \in Nat : x = n * R /\ x # 0
    <3>1. n * R \in Nat /\ n * R # 0
      BY <1>1
    <3> QED BY <3>1
  <2>2. PICK y \in Nat : y = x * P /\ y # 0
    <3>1. x * P \in Nat /\ x * P # 0
      BY <1>1, <2>1
    <3> QED BY <3>1
  <2>3. PICK w \in Nat : w = U - 2 * H
    BY <1>2
  <2>4. w % y = 0
    BY <2>1, <2>2, <2>3, <1>2
  <2>5. w \div y \in Nat /\ w = (w \div y) * y + (w % y)
    BY <2>2, DivMod
  <2>6. PICK q \in Nat : q = w \div y
    BY <2>5
  <2>7. w = q * y
    <3>1. q * y \in Nat
      BY <2>2, <2>6
    <3> QED BY <3>1, <2>4, <2>5, <2>6
  <2> QED BY <2>1, <2>2, <2>3, <2>6, <2>7
<1>4. PICK d \in Nat : va = U - H + d /\ d < H
  <2>1. va - (U - H) \in Nat /\ va - (U - H) < H /\ va = U - H + (va - (U - H))
    BY <1>2
  <2> QED BY <2>1
<1>5. PICK q \in Nat, z \in Nat : d = q * P + z /\ z < P /\ q < K * R
  <2>1. PICK q \in Nat, z \in Nat : q = d \div P /\ z < P /\ d = q * P + z
    BY <1>1, DivMod
  <2>2. PICK x \in Nat : x = K * R
    BY <1>1
  <2>3. d < x * PAGE_SIZE_BYTES
    BY <2>2, <1>1, <1>2, <1>4
  <2>4. q < x
    BY <2>1, <2>2, <2>3, <1>1, LowAddress DEF VpnFromVa
  <2> QED BY <2>1, <2>2, <2>4
<1>6. PICK x \in Nat, y \in Nat : q = x * R + y /\ y < R /\ x < K
  <2>1. PICK x \in Nat, y \in Nat : q = x * R + y /\ y < R
    <3>1. q \div R \in Nat /\ q % R \in Nat /\ q % R < R /\ q = (q \div R) * R + (q % R)
      BY <1>1, DivMod
    <3> QED BY <3>1
  <2>2. ASSUME K <= x PROVE FALSE
    <3>1. K * R <= x * R
      <4>1. K = x \/ K < x
        BY <2>2
      <4> QED BY <4>1, <1>1, MulStep
    <3>2. PICK g \in Nat, h \in Nat : g = K * R /\ h = x * R
      BY <1>1
    <3> QED BY <3>1, <3>2, <2>1, <1>5
  <2> QED BY <2>1, <2>2
<1>7. PICK s \in Nat : s = c * n + (K + x)
  <2>1. c * n \in Nat
    BY <1>1
  <2> QED BY <2>1
<1>8. va = (s * R + y) * P + z
  <2>1. va = c * ((n * R) * P) + (K * R) * P + (q * P + z)
    BY <1>2, <1>3, <1>4, <1>5
  <2>2. c * ((n * R) * P) + (K * R) * P + (q * P + z) = ((c * n) * R + K * R + q) * P + z
    BY <1>1
  <2>3. (c * n) * R + K * R + q = s * R + y
    <3>1. s * R = (c * n) * R + K * R + x * R
      BY <1>7, <1>1
    <3> QED BY <3>1, <1>6
  <2> QED BY <2>1, <2>2, <2>3
<1>9. PICK w \in Nat : w = s * R + y
  <2>1. s * R \in Nat
    BY <1>1
  <2> QED BY <2>1
<1>10. v = w
  <2>1. va \in Nat
    OBVIOUS
  <2>2. va \div P = w
    BY <2>1, <1>1, <1>5, <1>8, <1>9, DivUnique
  <2> QED BY <2>2, <1>1 DEF VpnFromVa
<1>11. v \div R = s
  BY <1>1, <1>6, <1>9, <1>10, DivUnique
<1>12. s % n = K + x
  <2>1. K + x < n /\ K + x \in Nat
    BY <1>1, <1>6
  <2> QED BY <2>1, <1>1, <1>7
<1>13. parse_vpn(v)[2] = K + x
  BY <1>1, <1>11, <1>12 DEF parse_vpn
<1>14. K + x \in KernelIndex
  BY <1>1, <1>6 DEF KernelIndex
<1>15. parse_vpn(v)[0] = v % n /\ parse_vpn(v)[1] = (v \div n) % n
  BY <1>1 DEF parse_vpn
<1>16. v % n \in Index /\ (v \div n) % n \in Index
  <2>1. PICK g \in Nat : g = v \div n
    BY <1>1, <1>10, DivMod
  <2>2. v % n \in Nat /\ v % n < n /\ g % n \in Nat /\ g % n < n
    BY <1>1, <1>10, DivMod
  <2> QED BY <2>1, <2>2, <1>1 DEF Index
<1> QED BY <1>13, <1>14, <1>15, <1>16

\* What the hardware finds in the kernel half is not for user mode.
LEMMA KernelEntry ==
    ASSUME NEW al, NEW m, NEW rt, NEW B, NEW t, Held(al, m, rt, B, t), NEW v,
           parse_vpn(v)[2] \in KernelIndex, parse_vpn(v)[1] \in Index, parse_vpn(v)[0] \in Index,
           NEW e, e = Translate(m, rt.ppn, v), e # NONE
    PROVE  "U" \notin e.flags
<1>1. PICK i, j, k : i = parse_vpn(v)[2] /\ j = parse_vpn(v)[1] /\ k = parse_vpn(v)[0]
  OBVIOUS
<1>2. i \in Index /\ j \in Index /\ k \in Index /\ i \in KernelIndex
  BY <1>1, Shape DEF KernelIndex, Index
<1>3. m[rt.ppn][i] = m[F][i] /\ KernelMem(m)
  BY <1>2 DEF Held, Good
<1>4. m[F][i] = IF i = KERNEL_ROOT THEN Ptr(F + 1) ELSE Pte0
  BY <1>2, <1>3 DEF KernelMem
<1>5. m[F + 1][j] = IF j = 0 THEN Ptr(F + 2)
                    ELSE IF j = 1 THEN [ppn   |-> LargeFrame - (LargeFrame % PTES_PER_TABLE),
                                        flags |-> KernelFlags]
                    ELSE Pte0
  BY <1>2, <1>3 DEF KernelMem
<1>6. m[F + 2][k] = IF k = 1 THEN [ppn |-> DeviceFrame, flags |-> KernelFlags] ELSE Pte0
  BY <1>2, <1>3 DEF KernelMem
<1>7. e = LET Leaf(p) == p.flags \cap {"R", "W", "X"} # {}
              pte2 == m[rt.ppn][i]
              pte1 == m[pte2.ppn][j]
              pte0 == m[pte1.ppn][k]
          IN  IF ~is_valid(pte2) THEN NONE
              ELSE IF Leaf(pte2) THEN pte2
              ELSE IF ~is_valid(pte1) THEN NONE
              ELSE IF Leaf(pte1) THEN pte1
              ELSE IF is_valid(pte0) THEN pte0 ELSE NONE
  BY <1>1 DEF Translate
<1>8. m[rt.ppn][i] = Ptr(F + 1)
  <2>1. is_valid(m[rt.ppn][i])
    BY <1>7
  <2> QED BY <2>1, <1>3, <1>4 DEF is_valid, Pte0
<1>9. m[rt.ppn][i].ppn = F + 1 /\ m[rt.ppn][i].flags = {"V"}
  BY <1>8 DEF Ptr
<1>10. PICK p1 : p1 = m[F + 1][j]
  OBVIOUS
<1>11. e = IF ~is_valid(p1) THEN NONE
           ELSE IF p1.flags \cap {"R", "W", "X"} # {} THEN p1
           ELSE IF is_valid(m[p1.ppn][k]) THEN m[p1.ppn][k] ELSE NONE
  BY <1>7, <1>9, <1>10 DEF is_valid
<1>12. CASE j = 0
  <2>1. p1.flags = {"V"} /\ p1.ppn = F + 2
    BY <1>5, <1>10, <1>12 DEF Ptr
  <2>2. e = m[F + 2][k] /\ is_valid(m[F + 2][k])
    BY <2>1, <1>11 DEF is_valid
  <2> QED BY <2>2, <1>6 DEF is_valid, Pte0, KernelFlags
<1>13. CASE j = 1
  <2>1. p1.flags = KernelFlags
    BY <1>5, <1>10, <1>13
  <2>2. e = p1
    BY <2>1, <1>11 DEF is_valid, KernelFlags
  <2> QED BY <2>1, <2>2 DEF KernelFlags
<1>14. CASE j # 0 /\ j # 1
  <2>1. p1 = Pte0
    BY <1>5, <1>10, <1>14
  <2> QED BY <2>1, <1>11 DEF is_valid, Pte0
<1> QED BY <1>12, <1>13, <1>14

-----------------------------------------------------------------------------
(* The spaces and memory together.                                         *)

\* The pages of a task's space, if it has one.
PagesAt(sp) == IF sp = NONE THEN {} ELSE PagesOf(sp)

\* The pages of a space are pages of the pool that are not free.
LEMMA PagesFacts ==
    ASSUME NEW ph, NEW sp, NEW t, Fits(ph, sp, t)
    PROVE  PagesOf(sp) \subseteq Pool /\ PagesOf(sp) \subseteq PPN /\ PagesOf(sp) \cap FreeOf(ph.alloc) = {}
<1>1. PICK al, m, rt, B : al = ph.alloc /\ m = ph.mem /\ rt = sp.root_pgt /\ B = Backing(sp.areas)
  OBVIOUS
<1>2. Held(al, m, rt, B, t)
  BY <1>1 DEF Fits
<1>3. Frames(B) \subseteq Pool /\ Frames(B) \cap FreeOf(al) = {}
  BY <1>2, FrameFacts
<1>4. RootOk(rt, al)
  BY <1>2 DEF Held, Good
<1>5. Tabs(rt) \subseteq Pool /\ Tabs(rt) \cap FreeOf(al) = {}
  BY <1>4 DEF RootOk, Tabs, ToSet
<1>6. PagesOf(sp) = Tabs(rt) \cup Frames(B)
  BY <1>1 DEF PagesOf
<1> QED BY <1>1, <1>3, <1>5, <1>6, Layout

\* Memory and the spaces: every space fits its tables, no page is in two of them,
\* and none is lost.
Separate(sps) == \A t, u \in Tasks : t # u => PagesAt(sps[t]) \cap PagesAt(sps[u]) = {}

NoneLost(ph, sps) ==
    \A p \in Pool : p \in FreeOf(ph.alloc) \/ \E t \in Tasks : p \in PagesAt(sps[t])

MemInv(ph, sps) ==
    /\ AllocOk(ph.alloc) /\ KernelMem(ph.mem)
    /\ \A t \in Tasks : sps[t] # NONE => Fits(ph, sps[t], t)
    /\ Separate(sps) /\ NoneLost(ph, sps)

\* A step changes the space of one task, and moves pages between it and the free
\* ones only.
Handed(ph, sps, t, ph2, sp) ==
    /\ Moves(ph.alloc, ph.mem, PagesAt(sps[t]), ph2.alloc, ph2.mem, PagesAt(sp))
    /\ AllocOk(ph2.alloc) /\ (sp # NONE => Fits(ph2, sp, t))

\* Such a step keeps what memory and the spaces have in common.
LEMMA SpacesKept ==
    ASSUME NEW ph \in Phys, NEW sps, DOMAIN sps = Tasks, MemInv(ph, sps), NEW t \in Tasks,
           NEW ph2 \in Phys, NEW sp, Handed(ph, sps, t, ph2, sp),
           NEW sps2, sps2 = [sps EXCEPT ![t] = sp]
    PROVE  MemInv(ph2, sps2)
<1>1. PICK al, m, Q, a2, m2, Q2 : /\ al = ph.alloc /\ m = ph.mem /\ Q = PagesAt(sps[t])
                                  /\ a2 = ph2.alloc /\ m2 = ph2.mem /\ Q2 = PagesAt(sp)
  OBVIOUS
<1>2. /\ FreeOf(a2) \cup Q2 = FreeOf(al) \cup Q /\ AllocOk(al) /\ AllocOk(a2) /\ m2 \in Memory(Words)
      /\ \A p \in PPN : p \notin FreeOf(al) \cup Q => m2[p] = m[p]
  BY <1>1 DEF Handed, Moves, MemInv, Phys
<1>3. \A u \in Tasks : /\ PagesAt(sps[u]) \subseteq Pool /\ PagesAt(sps[u]) \subseteq PPN
                       /\ PagesAt(sps[u]) \cap FreeOf(al) = {}
  <2> TAKE u \in Tasks
  <2>1. CASE sps[u] = NONE
    BY <2>1 DEF PagesAt
  <2>2. CASE sps[u] # NONE
    <3>1. Fits(ph, sps[u], u)
      BY <2>2 DEF MemInv
    <3> QED BY <3>1, <2>2, <1>1, PagesFacts DEF PagesAt
  <2> QED BY <2>1, <2>2
<1>4. Q2 \cap FreeOf(a2) = {}
  <2>1. CASE sp = NONE
    BY <2>1, <1>1 DEF PagesAt
  <2>2. CASE sp # NONE
    <3>1. Fits(ph2, sp, t)
      BY <2>2 DEF Handed
    <3> QED BY <3>1, <2>2, <1>1, PagesFacts DEF PagesAt
  <2> QED BY <2>1, <2>2
<1>5. FreeOf(al) \cup Q \subseteq Pool
  BY <1>1, <1>2, <1>3, FreeFacts
<1>6. m2[F] = m[F] /\ m2[F + 1] = m[F + 1] /\ m2[F + 2] = m[F + 2]
  BY <1>2, <1>5, Layout
<1>7. KernelMem(m2)
  BY <1>1, <1>6 DEF KernelMem, MemInv
<1>8. \A u \in Tasks : u # t => PagesAt(sps[u]) \cap (FreeOf(al) \cup Q) = {}
  BY <1>1, <1>3 DEF MemInv, Separate
<1>9. sps2[t] = sp /\ \A u \in Tasks : u # t => sps2[u] = sps[u]
  OBVIOUS
<1>10. ASSUME NEW u \in Tasks, sps2[u] # NONE PROVE Fits(ph2, sps2[u], u)
  <2>1. CASE u = t
    BY <2>1, <1>9, <1>10 DEF Handed
  <2>2. CASE u # t
    <3>1. PICK s : s = sps[u] /\ s = sps2[u] /\ s # NONE
      BY <2>2, <1>9, <1>10
    <3>2. Fits(ph, s, u)
      BY <3>1 DEF MemInv
    <3>3. PICK rt, B : rt = s.root_pgt /\ B = Backing(s.areas)
      OBVIOUS
    <3>4. Held(al, m, rt, B, u) /\ InHalves(s.areas)
      BY <3>2, <3>3, <1>1 DEF Fits
    <3>5. PagesAt(sps[u]) = Tabs(rt) \cup Frames(B)
      BY <3>1, <3>3 DEF PagesAt, PagesOf
    <3>6. (Tabs(rt) \cup Frames(B)) \cap (FreeOf(al) \cup Q) = {} /\ Tabs(rt) \cup Frames(B) \subseteq PPN
      BY <3>5, <2>2, <1>3, <1>8
    <3>7. (Tabs(rt) \cup Frames(B)) \cap FreeOf(a2) = {}
      BY <3>6, <1>2
    <3>8. \A p \in Tabs(rt) \cup Frames(B) : m2[p] = m[p]
      BY <3>6, <1>2
    <3>9. Held(a2, m2, rt, B, u)
      BY <3>4, <3>7, <3>8, <1>2, <1>6, FrameHeld
    <3> QED BY <3>1, <3>3, <3>4, <3>9, <1>1 DEF Fits
  <2> QED BY <2>1, <2>2
<1>11. Separate(sps2)
  <2>1. \A u \in Tasks : u # t => Q2 \cap PagesAt(sps2[u]) = {}
    <3> TAKE u \in Tasks
    <3> HAVE u # t
    <3>1. PagesAt(sps[u]) \cap (FreeOf(al) \cup Q) = {} /\ sps2[u] = sps[u]
      BY <1>8, <1>9
    <3> QED BY <3>1, <1>2
  <2>2. \A u, w \in Tasks : u # t /\ w # t /\ u # w => PagesAt(sps2[u]) \cap PagesAt(sps2[w]) = {}
    BY <1>9 DEF MemInv, Separate
  <2>3. PagesAt(sps2[t]) = Q2
    BY <1>1, <1>9
  <2> QED BY <2>1, <2>2, <2>3 DEF Separate
<1>12. NoneLost(ph2, sps2)
  <2> SUFFICES ASSUME NEW p \in Pool PROVE p \in FreeOf(a2) \/ \E u \in Tasks : p \in PagesAt(sps2[u])
    BY <1>1 DEF NoneLost
  <2>0. PagesAt(sps2[t]) = Q2
    BY <1>1, <1>9
  <2>1. CASE p \in FreeOf(al) \cup Q
    <3>1. p \in FreeOf(a2) \cup Q2
      BY <2>1, <1>2
    <3> QED BY <3>1, <2>0
  <2>2. CASE p \notin FreeOf(al) \cup Q
    <3>1. PICK u \in Tasks : p \in PagesAt(sps[u])
      BY <2>2, <1>1 DEF MemInv, NoneLost
    <3>2. u # t
      BY <3>1, <2>2, <1>1
    <3> QED BY <3>1, <3>2, <1>9
  <2> QED BY <2>1, <2>2
<1> QED BY <1>1, <1>2, <1>7, <1>10, <1>11, <1>12 DEF MemInv

-----------------------------------------------------------------------------
(* Requests: the addresses.                                                *)

\* The end of user space, in bytes and in pages.
LEMMA UserEnd ==
    /\ PAGE_SIZE_BYTES \in Nat /\ 1 <= PAGE_SIZE_BYTES
    /\ SV39_HALF \in Nat /\ USER_SPACE_END \in Nat
    /\ SV39_HALF = USER_SPACE_END + PAGE_SIZE_BYTES
    /\ USER_SPACE_END = USER_END_VPN * PAGE_SIZE_BYTES
    /\ SV39_HALF = (USER_END_VPN + 1) * PAGE_SIZE_BYTES
    /\ USER_END_VPN \in Nat
<1>1. PICK d \in Nat : d = PAGE_SIZE_BYTES /\ d >= 1
  BY MemAssumption
<1>2. PICK m \in Nat : m = KERNEL_ROOT * ROOT_SPAN /\ m >= 1
  <2>1. KERNEL_ROOT \in Nat /\ ROOT_SPAN \in Nat /\ 1 <= KERNEL_ROOT /\ 1 <= ROOT_SPAN
    BY Shape
  <2>2. KERNEL_ROOT * ROOT_SPAN \in Nat /\ KERNEL_ROOT * ROOT_SPAN >= 1
    BY <2>1
  <2> QED BY <2>2
<1>3. PICK q \in Nat : q = m - 1 /\ q = USER_END_VPN /\ m = q + 1
  BY <1>2 DEF USER_END_VPN
<1>4. m * d = q * d + d /\ q * d \in Nat /\ m * d \in Nat
  BY <1>3
<1>5. SV39_HALF = m * d
  BY <1>1, <1>2 DEF SV39_HALF
<1>6. USER_SPACE_END = m * d - d
  BY <1>1, <1>5 DEF USER_SPACE_END
<1> QED BY <1>1, <1>3, <1>4, <1>5, <1>6

\* check_u_va leaves addresses of user pages.
LEMMA UserAddress ==
    ASSUME NEW va \in Nat, check_u_va(va)
    PROVE  VpnFromVa(va) \in UserVpns
<1>1. va < USER_END_VPN * PAGE_SIZE_BYTES
  BY UserEnd DEF check_u_va
<1>2. VpnFromVa(va) \in Nat /\ VpnFromVa(va) < USER_END_VPN
  BY <1>1, UserEnd, LowAddress
<1> QED BY <1>2, UserEnd DEF UserVpns

\* check_u_va_range, though end - 1 may wrap, leaves ranges whose rounded end is
\* a valid address and a page of user space at most.
LEMMA RangeFacts ==
    ASSUME NEW addr \in 0 .. USIZE - 1, NEW len \in 0 .. USIZE - 1, check_u_va_range(addr, len)
    PROVE  is_valid_va(EndVa(addr, len)) /\ VpnFromVa(EndVa(addr, len)) <= USER_END_VPN
<1>1. PICK u \in Nat, h \in Nat, d \in Nat, n \in Nat :
         /\ u = USIZE /\ h = SV39_HALF /\ d = PAGE_SIZE_BYTES /\ n = USER_END_VPN
         /\ 2 * h <= u /\ d >= 1 /\ h = USER_SPACE_END + d /\ h = (n + 1) * d
  BY UserEnd, VMAssumption
<1>2. PICK x \in Nat : x = addr + len
  BY <1>1
<1>3. x < u /\ (x - 1) % u < h - d /\ h - d \in Nat
  BY <1>1, <1>2, UserEnd DEF check_u_va_range, check_u_va
<1>4. x # 0
  <2>1. ASSUME x = 0 PROVE FALSE
    <3>1. (0 - 1) % u = u - 1
      BY <1>1, <1>3
    <3> QED BY <2>1, <3>1, <1>1, <1>3
  <2> QED BY <2>1
<1>5. (x - 1) % u = x - 1
  BY <1>3, <1>4
<1>6. PICK y \in Nat : y = EndVa(addr, len) /\ y < h
  BY <1>1, <1>2, <1>3, <1>4, <1>5 DEF EndVa
<1>7. is_valid_va(y)
  BY <1>1, <1>6 DEF is_valid_va
<1>8. n + 1 \in Nat /\ y < (n + 1) * PAGE_SIZE_BYTES
  BY <1>1, <1>6
<1>9. VpnFromVa(y) \in Nat /\ VpnFromVa(y) < n + 1
  BY <1>8, LowAddress
<1> QED BY <1>1, <1>6, <1>7, <1>9

\* A load or store that goes through is one to a page that backs an area, ...
LEMMA HitBacked ==
    ASSUME NEW al, NEW m, NEW rt, NEW B, NEW t, Held(al, m, rt, B, t),
           NEW va \in 0 .. USIZE - 1, is_valid_va(va),
           NEW e, e = Translate(m, rt.ppn, VpnFromVa(va)), e # NONE, "U" \in e.flags
    PROVE  \E b \in B : e = Entry(b) /\ b.vpn = VpnFromVa(va)
<1>1. PICK v : v = VpnFromVa(va)
  OBVIOUS
<1>2. va \in Nat
  BY VMAssumption
<1>3. CASE va < SV39_HALF
  <2>1. KERNEL_ROOT * ROOT_SPAN \in Nat
    BY UserLow
  <2>2. v \in Nat /\ v < KERNEL_ROOT * ROOT_SPAN
    BY <2>1, <1>1, <1>2, <1>3, LowAddress DEF SV39_HALF
  <2>3. /\ \A c \in B : c.vpn = v => e = Entry(c)
        /\ (\A c \in B : c.vpn # v) => e = NONE
    BY <2>2, <1>1, EntryAt
  <2>4. PICK b \in B : b.vpn = v
    BY <2>3
  <2> QED BY <2>3, <2>4, <1>1
<1>4. CASE USIZE - SV39_HALF <= va
  <2>1. /\ parse_vpn(v)[2] \in KernelIndex
        /\ parse_vpn(v)[1] \in Index /\ parse_vpn(v)[0] \in Index
    BY <1>1, <1>4, HighAddress
  <2>2. "U" \notin e.flags
    BY <2>1, <1>1, KernelEntry
  <2> QED BY <2>2
<1> QED BY <1>3, <1>4 DEF is_valid_va

\* ... and one that faults in user space finds no page that permits it.
LEMMA FaultMissing ==
    ASSUME NEW ph, NEW sp, NEW t, Fits(ph, sp, t), NONE \notin PTE, NEW need,
           NEW v \in UserVpns, NEW e, e = Translate(ph.mem, sp.root_pgt.ppn, v),
           ~(e # NONE /\ need \subseteq e.flags)
    PROVE  Missing(sp.areas, v, need)
<1>1. PICK al, m, rt, B : /\ al = ph.alloc /\ m = ph.mem /\ rt = sp.root_pgt
                          /\ B = Backing(sp.areas) /\ Held(al, m, rt, B, t)
  BY DEF Fits
<1>2. v \in Nat /\ v < KERNEL_ROOT * ROOT_SPAN
  BY UserLow
<1>3. \A c \in B : c.vpn = v => e = Entry(c)
  BY <1>1, <1>2, EntryAt
<1>4. B \subseteq Backed
  BY <1>1 DEF Held, Owns
<1>5. ASSUME NEW c \in B, c.vpn = v, need \subseteq c.flags PROVE FALSE
  <2>1. e = Entry(c) /\ c \in Backed
    BY <1>3, <1>4, <1>5
  <2>2. Entry(c) \in PTE /\ Entry(c).flags = c.flags \cup {"V"}
    BY <2>1, Layout DEF Entry, PTE, Backed, Flags
  <2> QED BY <2>1, <2>2, <1>5
<1> QED BY <1>1, <1>5 DEF Missing

\* mmap adds an area without pages: the tables and the pages are as they were.
LEMMA AddNewAreaFits ==
    ASSUME NEW ph, NEW sp \in Space, NEW t, Fits(ph, sp, t),
           NEW s \in Nat, NEW e \in Nat, e <= USER_END_VPN, NEW f \in Flags,
           NEW out, out = add_new_area(sp, s, e, "Anonymous", f)
    PROVE  Changes(ph, sp, ph, out.space, t)
<1> DEFINE Added == s < e /\ out.space = [sp EXCEPT !.areas = Append(@, VMArea(s, e, "Anonymous", f))]
<1>1. PICK rt \in Root, ar \in Seq(Area) :
         sp = [root_pgt |-> rt, areas |-> ar] /\ sp.areas = ar /\ sp.root_pgt = rt
  BY StateParts
<1>2. CASE out.space = sp
  BY <1>2 DEF Changes, Moves
<1>3. CASE Added
  <2>1. PICK x \in Area : /\ x = VMArea(s, e, "Anonymous", f) /\ x.end_vpn = e
                          /\ DOMAIN x.pages = {} /\ x.map_type = "Anonymous"
    <3>1. VMArea(s, e, "Anonymous", f) \in Area
      BY <1>3, NewAreaType
    <3> QED BY <3>1, NoPagesType DEF VMArea
  <2>2. PICK br : br = Append(ar, x)
    OBVIOUS
  <2>3. out.space = [root_pgt |-> rt, areas |-> br]
    <3>1. out.space = [sp EXCEPT !.areas = br]
      BY <1>1, <1>3, <2>1, <2>2
    <3> QED BY <3>1, <1>1
  <2>4. out.space.areas = br /\ out.space.root_pgt = rt
    BY <2>3
  <2>5. Backing(br) = Backing(ar) /\ (InHalves(ar) => InHalves(br))
    BY <2>1, <2>2, AreaFits
  <2>6. PagesOf(out.space) = PagesOf(sp)
    BY <2>4, <2>5, <1>1 DEF PagesOf
  <2>7. Fits(ph, out.space, t)
    BY <2>4, <2>5, <1>1 DEF Fits
  <2> QED BY <2>6, <2>7 DEF Changes, Moves
<1>4. out.space = sp \/ Added
  <2>1. ~(e <= s) => s < e
    OBVIOUS
  <2> QED BY <2>1, Zenon DEF add_new_area
<1> HIDE DEF Added
<1> QED BY <1>2, <1>3, <1>4

\* The end of a task gives all its pages back.
LEMMA DropMoves ==
    ASSUME NEW ph \in Phys, NEW sp \in Space, Apart(sp.areas), NEW t, Fits(ph, sp, t),
           NEW out, out = DropSpace(ph, sp)
    PROVE  /\ AllocOk(out.alloc)
           /\ Moves(ph.alloc, ph.mem, PagesOf(sp), out.alloc, out.mem, {})
<1>1. Freed(out, ph, PagesOf(sp))
  BY DropSpaceFrees
<1> QED BY <1>1 DEF Freed, Moves
-----------------------------------------------------------------------------
(* The invariant.                                                          *)

\* None is neither an entry nor a space.
NoneApart == NONE \notin PTE /\ NONE \notin Space

\* Every space fits its tables and no page is lost or has two owners; a task
\* that is not added has no space; requests are made only when all are.
DInv ==
    /\ kernel_satp = F
    /\ MemInv(phys, spaces)
    /\ \A t \in Tasks : started < t => spaces[t] = NONE
    /\ started # Cardinality(Tasks) => requests = 0
    /\ NoPanic

\* A space has the pages of its task.
LEMMA SpaceParts ==
    ASSUME UInv, DInv, NEW t \in Tasks, spaces[t] # NONE
    PROVE  /\ spaces[t] \in Space /\ Apart(spaces[t].areas) /\ Fits(phys, spaces[t], t)
           /\ PagesAt(spaces[t]) = PagesOf(spaces[t]) /\ phys \in Phys
  BY DEF UInv, DInv, MemInv, PagesAt

\* A step that changes one space.
LEMMA StepKeeps ==
    ASSUME UInv, UInv', DInv, NEW t \in Tasks, NEW sp, Handed(phys, spaces, t, phys', sp),
           spaces' = [spaces EXCEPT ![t] = sp], UNCHANGED kernel_satp, halt' # "Panic",
           \A u \in Tasks : started' < u => u # t /\ started < u,
           started' # Cardinality(Tasks) => requests' = 0
    PROVE  DInv'
<1>1. phys \in Phys /\ phys' \in Phys /\ DOMAIN spaces = Tasks
  BY DEF UInv
<1>2. MemInv(phys, spaces) /\ \A u \in Tasks : started < u => spaces[u] = NONE
  BY DEF DInv
<1>3. MemInv(phys', spaces')
  BY <1>1, <1>2, SpacesKept
<1>4. \A u \in Tasks : started' < u => spaces'[u] = NONE
  BY <1>1, <1>2
<1>5. kernel_satp' = F /\ NoPanic'
  BY DEF DInv, NoPanic
<1> QED BY <1>3, <1>4, <1>5 DEF DInv

\* A task that runs a request.
LEMMA RunsFacts ==
    ASSUME UInv, NEW t, Runs(t), UNCHANGED started
    PROVE  /\ halt # "Panic" /\ started' = Cardinality(Tasks) /\ spaces[t] # NONE
           /\ \A u \in Tasks : ~(started' < u)
<1>1. Cardinality(Tasks) \in Nat /\ Tasks = 1 .. Cardinality(Tasks)
  BY TasksAssumption, FS_CardinalityType
<1> QED BY <1>1 DEF Runs

\* It changes its space and goes on, ...
LEMMA RequestKeeps ==
    ASSUME UInv, UInv', DInv, NEW t \in Tasks, Runs(t), NEW sp, sp # NONE,
           Changes(phys, spaces[t], phys', sp, t), spaces' = [spaces EXCEPT ![t] = sp],
           UNCHANGED <<kernel_satp, started, halt>>
    PROVE  DInv'
<1>1. /\ halt # "Panic" /\ started' = Cardinality(Tasks) /\ spaces[t] # NONE
      /\ \A u \in Tasks : ~(started' < u)
  BY RunsFacts
<1>2. Fits(phys', sp, t)
  BY DEF Changes
<1>3. AllocOk(phys'.alloc)
  BY <1>2 DEF Fits, Held, Good
<1>4. Handed(phys, spaces, t, phys', sp)
  BY <1>1, <1>2, <1>3 DEF Handed, Changes, PagesAt
<1> QED BY <1>1, <1>4, StepKeeps

\* ... or its memory is as it was, ...
LEMMA QuietRequest ==
    ASSUME UInv, UInv', DInv, NEW t \in Tasks, Runs(t),
           UNCHANGED <<phys, spaces, kernel_satp, started>>, halt' # "Panic"
    PROVE  DInv'
<1>1. started' = Cardinality(Tasks) /\ \A u \in Tasks : ~(started' < u)
  BY RunsFacts
<1>2. kernel_satp' = F /\ NoPanic' /\ MemInv(phys', spaces')
  BY DEF DInv, NoPanic
<1> QED BY <1>1, <1>2 DEF DInv

\* ... or it is over.
LEMMA EndKeeps ==
    ASSUME UInv, UInv', DInv, NEW t \in Tasks, Runs(t), NEW ph \in Phys, NEW sp \in Space,
           Changes(phys, spaces[t], ph, sp, t), Apart(sp.areas), phys' = DropSpace(ph, sp),
           spaces' = [spaces EXCEPT ![t] = NONE], UNCHANGED <<kernel_satp, started, halt>>
    PROVE  DInv'
<1>1. /\ halt # "Panic" /\ started' = Cardinality(Tasks) /\ spaces[t] # NONE
      /\ \A u \in Tasks : ~(started' < u)
  BY RunsFacts
<1>2. PICK out : out = phys'
  OBVIOUS
<1>3. Fits(ph, sp, t)
  BY DEF Changes
<1>4. AllocOk(out.alloc) /\ Moves(ph.alloc, ph.mem, PagesOf(sp), out.alloc, out.mem, {})
  BY <1>2, <1>3, DropMoves
<1>5. Moves(phys.alloc, phys.mem, PagesOf(spaces[t]), ph.alloc, ph.mem, PagesOf(sp))
  BY DEF Changes
<1>6. Moves(phys.alloc, phys.mem, PagesOf(spaces[t]), out.alloc, out.mem, {})
  BY <1>4, <1>5, MovesTrans
<1>7. PagesAt(spaces[t]) = PagesOf(spaces[t]) /\ PagesAt(NONE) = {}
  BY <1>1 DEF PagesAt
<1>8. Handed(phys, spaces, t, phys', NONE)
  BY <1>2, <1>4, <1>6, <1>7 DEF Handed
<1> QED BY <1>1, <1>8, StepKeeps

-----------------------------------------------------------------------------
(* The actions.                                                            *)

\* At boot all pages but the kernel's are free.
LEMMA DInvInit == Init => DInv
<1> SUFFICES ASSUME Init PROVE DInv
  OBVIOUS
<1>1. PICK m, q : /\ init_kernel_satp.phys = PhysRec(Fresh(F + 3), m)
                  /\ init_kernel_satp.root = [ppn |-> F, pages |-> q]
                  /\ BootMem(m)
  BY BootKernel
<1>2. phys = PhysRec(Fresh(F + 3), m) /\ kernel_satp = F
  BY <1>1 DEF Init
<1>3. phys.alloc = Fresh(F + 3) /\ phys.mem = m
  BY <1>2 DEF PhysRec
<1>4. AllocOk(phys.alloc) /\ FreeOf(phys.alloc) = Pool
  BY <1>3, BootFree
<1>5. KernelMem(phys.mem)
  BY <1>1, <1>3 DEF BootMem
<1>6. \A t \in Tasks : spaces[t] = NONE /\ PagesAt(spaces[t]) = {}
  BY DEF Init, PagesAt
<1>7. MemInv(phys, spaces)
  BY <1>4, <1>5, <1>6 DEF MemInv, Separate, NoneLost
<1>8. halt = "No" /\ requests = 0
  BY DEF Init
<1> QED BY <1>2, <1>6, <1>7, <1>8 DEF DInv, NoPanic

\* add_task gives the new task a space, or fails for want of a page or for a
\* malformed segment.
LEMMA AddTaskFits ==
    ASSUME NoneApart, UInv, UInv', DInv, AddTask
    PROVE  DInv'
<1>1. PICK t \in Tasks, r \in {new_user(phys, kernel_satp, Elf, Word(started + 1))} :
         t = started + 1 /\ r = new_user(phys, kernel_satp, Elf, Word(t))
  BY DEF AddTask
<1>2. phys \in Phys /\ kernel_satp \in PPN /\ started \in Nat /\ kernel_satp = F
  BY DEF UInv, DInv
<1>c. Cardinality(Tasks) \in Nat /\ Tasks = 1 .. Cardinality(Tasks)
  BY TasksAssumption, FS_CardinalityType
<1>3. started' = t /\ UNCHANGED <<kernel_satp, requests>> /\ halt = "No"
  BY <1>1 DEF AddTask
<1>4. spaces[t] = NONE /\ requests = 0
  BY <1>1, <1>2, <1>c DEF DInv
<1>5. \/ r.res = "CreateRootPgtFailed" \/ ElfFails(r.res)
      \/ Created(r, phys.alloc, phys.mem, t)
  BY <1>1, <1>2, NewUserBuilt DEF DInv, MemInv
<1>6. CASE r.res = "Ok"
  <2>1. phys' = r.phys /\ spaces' = [spaces EXCEPT ![t] = r.space] /\ UNCHANGED halt
    BY <1>1, <1>6 DEF AddTask
  <2>2. Created(r, phys.alloc, phys.mem, t)
    BY <1>5, <1>6 DEF ElfFails
  <2>3. Word(t) \in Words
    BY WordTypes
  <2>4. r.space \in Space
    BY <1>1, <1>2, <1>6, <2>3, NewUserType
  <2>5. r.space # NONE
    BY <2>4 DEF NoneApart
  <2>6. PagesAt(spaces[t]) = {} /\ PagesAt(r.space) = PagesOf(r.space)
    BY <1>4, <2>5 DEF PagesAt
  <2>7. Fits(r.phys, r.space, t) /\ AllocOk(r.phys.alloc)
    BY <2>2 DEF Created, Fits, Held, Good
  <2>8. Handed(phys, spaces, t, phys', r.space)
    BY <2>1, <2>2, <2>6, <2>7 DEF Handed, Created
  <2>9. \A u \in Tasks : started' < u => u # t /\ started < u
    BY <1>1, <1>2, <1>3, <1>c
  <2> QED BY <1>3, <1>4, <2>1, <2>8, <2>9, StepKeeps
<1>7. CASE r.res # "Ok"
  <2>1. Halt("Panic")
    BY <1>1, <1>7 DEF AddTask
  <2>2. UNCHANGED <<phys, spaces>>
    BY <2>1 DEF Halt
  <2>3. r.res = "CreateRootPgtFailed" \/ ElfFails(r.res)
    BY <1>5, <1>7 DEF Created
  <2>4. PICK r2 : r2 = new_user(phys', kernel_satp', Elf, Word(started'))
    OBVIOUS
  <2>5. r2 = r
    BY <1>1, <1>3, <2>2, <2>4
  <2>6. \/ r2.res \in {"CreateRootPgtFailed", "AcquirePageFailed"}
        \/ \E i \in DOMAIN Elf : \/ PAGE_SIZE_BYTES % Elf[i].align # 0
                                 \/ ~is_valid_flags(to_pte_flags(Elf[i].flags))
    BY <2>3, <2>5 DEF ElfFails, Malformed
  <2>7. NoPanic'
    BY <2>4, <2>6, <1>3, <1>4 DEF NoPanic
  <2>8. kernel_satp' = F /\ MemInv(phys', spaces') /\ requests' = 0
    BY <1>2, <1>3, <1>4, <2>2 DEF DInv
  <2>9. \A u \in Tasks : started' < u => spaces'[u] = NONE
    BY <1>1, <1>2, <1>3, <1>c, <2>2 DEF DInv
  <2> QED BY <2>7, <2>8, <2>9 DEF DInv
<1> QED BY <1>6, <1>7

\* mmap never panics: from_va finds the rounded end valid.
LEMMA MmapFits ==
    ASSUME NoneApart, UInv, UInv', DInv, NEW t \in Tasks, NEW c \in MmapCalls,
           Mmap(t, c[1], c[2], c[3])
    PROVE  DInv'
<1>c. PICK addr \in 0 .. USIZE - 1, len \in 0 .. USIZE - 1, prot \in {c[3]} :
         addr = c[1] /\ len = c[2] /\ prot = c[3]
  BY RequestAssumption
<1>m. Mmap(t, addr, len, prot)
  BY <1>c
<1>1. PICK r : r = add_new_area(spaces[t], VpnFromVa(addr), VpnFromVa(EndVa(addr, len)),
                                "Anonymous", prot \cup {"U"})
  OBVIOUS
<1>2. /\ UNCHANGED <<kernel_satp, started>> /\ Runs(t)
      /\ \/ UNCHANGED <<phys, spaces, halt>>
         \/ /\ prot \subseteq {"R", "W", "X"} /\ spaces' = [spaces EXCEPT ![t] = r.space]
            /\ check_u_va_range(addr, len) /\ UNCHANGED <<phys, halt>>
         \/ check_u_va_range(addr, len) /\ ~is_valid_va(EndVa(addr, len))
  BY <1>m, <1>1, Zenon DEF Mmap
<1>3. halt # "Panic" /\ spaces[t] # NONE
  BY <1>2, RunsFacts
<1>4. CASE UNCHANGED <<phys, spaces, halt>>
  BY <1>2, <1>3, <1>4, QuietRequest
<1>5. CASE /\ prot \subseteq {"R", "W", "X"} /\ spaces' = [spaces EXCEPT ![t] = r.space]
           /\ check_u_va_range(addr, len) /\ UNCHANGED <<phys, halt>>
  <2>1. PICK sp \in Space : sp = spaces[t] /\ Fits(phys, sp, t) /\ Apart(sp.areas)
    BY <1>3, SpaceParts
  <2>2. prot \cup {"U"} \in Flags
    BY <1>5 DEF Flags
  <2>3. PICK sv \in Nat, ev \in Nat : sv = VpnFromVa(addr) /\ ev = VpnFromVa(EndVa(addr, len))
    BY RequestPages
  <2>4. ev <= USER_END_VPN
    BY <1>5, <2>3, RangeFacts
  <2>5. r.space \in Space /\ Changes(phys, sp, phys, r.space, t)
    BY <1>1, <2>1, <2>2, <2>3, <2>4, AddNewAreaType, AddNewAreaFits
  <2>6. r.space # NONE /\ Changes(phys, spaces[t], phys', r.space, t)
    BY <2>1, <2>5, <1>5 DEF NoneApart
  <2> QED BY <1>2, <1>5, <2>6, RequestKeeps
<1>6. CASE check_u_va_range(addr, len) /\ ~is_valid_va(EndVa(addr, len))
  BY <1>6, RangeFacts
<1> QED BY <1>2, <1>4, <1>5, <1>6

\* munmap never panics: it finds every table entry as it should be.
LEMMA MunmapFits ==
    ASSUME NoneApart, UInv, UInv', DInv, NEW t \in Tasks, NEW c \in MunmapCalls,
           Munmap(t, c[1], c[2])
    PROVE  DInv'
<1>c. PICK addr \in 0 .. USIZE - 1, len \in 0 .. USIZE - 1 : addr = c[1] /\ len = c[2]
  BY RequestAssumption
<1>m. Munmap(t, addr, len)
  BY <1>c
<1>1. PICK r : r = unmap_range(phys, spaces[t], VpnFromVa(addr), VpnFromVa(EndVa(addr, len)))
  OBVIOUS
<1>2. /\ UNCHANGED <<kernel_satp, started>> /\ Runs(t)
      /\ \/ UNCHANGED <<phys, spaces, halt>>
         \/ /\ len > 0 /\ check_u_va_range(addr, len)
            /\ \/ phys' = r.phys /\ spaces' = [spaces EXCEPT ![t] = r.space] /\ UNCHANGED halt
               \/ ~(is_valid_va(EndVa(addr, len)) /\ r.res # "Panic")
  BY <1>m, <1>1, Zenon DEF Munmap
<1>3. halt # "Panic" /\ spaces[t] # NONE
  BY <1>2, RunsFacts
<1>4. CASE UNCHANGED <<phys, spaces, halt>>
  BY <1>2, <1>3, <1>4, QuietRequest
<1>5. CASE /\ len > 0 /\ check_u_va_range(addr, len)
           /\ \/ phys' = r.phys /\ spaces' = [spaces EXCEPT ![t] = r.space] /\ UNCHANGED halt
              \/ ~(is_valid_va(EndVa(addr, len)) /\ r.res # "Panic")
  <2>1. PICK sp \in Space : sp = spaces[t] /\ Fits(phys, sp, t) /\ Apart(sp.areas) /\ phys \in Phys
    BY <1>3, SpaceParts
  <2>2. PICK sv \in Nat, ev \in Nat : sv = VpnFromVa(addr) /\ ev = VpnFromVa(EndVa(addr, len)) /\ sv < ev
    BY <1>5, RequestPages
  <2>3. ev <= USER_END_VPN /\ is_valid_va(EndVa(addr, len))
    BY <1>5, <2>2, RangeFacts
  <2>4. r.res = "Ok" /\ Changes(phys, sp, r.phys, r.space, t)
    BY <1>1, <2>1, <2>2, <2>3, UnmapFits
  <2>5. r \in State
    BY <1>1, <2>1, <2>2, UnmapRangeType
  <2>6. r.space \in Space
    BY <2>5, StateParts
  <2>7. phys' = r.phys /\ spaces' = [spaces EXCEPT ![t] = r.space] /\ UNCHANGED halt
    BY <1>5, <2>3, <2>4
  <2>8. r.space # NONE /\ Changes(phys, spaces[t], phys', r.space, t)
    BY <2>1, <2>4, <2>6, <2>7 DEF NoneApart
  <2> QED BY <1>2, <2>7, <2>8, RequestKeeps
<1> QED BY <1>2, <1>4, <1>5

\* The end of a task.
LEMMA ExitFits ==
    ASSUME UInv, UInv', DInv, NEW t \in Tasks, Exit(t)
    PROVE  DInv'
<1>1. /\ UNCHANGED <<kernel_satp, started, halt>> /\ Runs(t)
      /\ phys' = DropSpace(phys, spaces[t]) /\ spaces' = [spaces EXCEPT ![t] = NONE]
  BY DEF Exit, Finish
<1>2. spaces[t] # NONE
  BY <1>1, RunsFacts
<1>3. spaces[t] \in Space /\ Apart(spaces[t].areas) /\ Fits(phys, spaces[t], t) /\ phys \in Phys
  BY <1>2, SpaceParts
<1>4. Changes(phys, spaces[t], phys, spaces[t], t)
  BY <1>3 DEF Changes, Moves
<1> QED BY <1>1, <1>3, <1>4, EndKeeps

\* A store, by the task or for it, that goes through.
LEMMA StoreChanges ==
    ASSUME NEW ph \in Phys, NEW sp, NEW t \in Tasks, Fits(ph, sp, t), NEW b \in Backing(sp.areas),
           NEW ph2, ph2 = [ph EXCEPT !.mem[b.ppn][0] = Word(t)]
    PROVE  Changes(ph, sp, ph2, sp, t)
<1>1. PICK al, m, rt, B : /\ al = ph.alloc /\ m = ph.mem /\ rt = sp.root_pgt
                          /\ B = Backing(sp.areas) /\ Held(al, m, rt, B, t)
  BY DEF Fits
<1>2. PICK m2 : m2 = Write(m, b.ppn, 0, Word(t))
  OBVIOUS
<1>3. ph2.alloc = al /\ ph2.mem = m2
  BY <1>1, <1>2 DEF Phys, Write
<1>4. Held(al, m2, rt, B, t) /\ \A p \in PPN : p \notin Frames(B) => m2[p] = m[p]
  BY <1>1, <1>2, StoreHeld
<1>5. Fits(ph2, sp, t)
  BY <1>1, <1>3, <1>4 DEF Fits
<1>6. Moves(ph.alloc, ph.mem, PagesOf(sp), ph2.alloc, ph2.mem, PagesOf(sp))
  BY <1>1, <1>3, <1>4 DEF Moves, PagesOf
<1> QED BY <1>5, <1>6 DEF Changes

\* An access goes through to a page of the task, or faults and is served, or
\* ends the task; map never panics, whatever the page.
LEMMA AccessFits ==
    ASSUME ~SpuriousFaults, NoneApart, UInv, UInv', DInv, NEW t \in Tasks, NEW c \in Accesses,
           NEW mode, Access(t, c[1], c[2], mode)
    PROVE  DInv'
<1>c. PICK va \in 0 .. USIZE - 1, kind \in {c[2]} : va = c[1] /\ kind = c[2]
  BY AccessAssumption
<1>a. Access(t, va, kind, mode)
  BY <1>c
<1>n. va \in Nat
  BY VMAssumption
<1>1. PICK vpn, need, e : /\ vpn = VpnFromVa(va) /\ need = Need(kind)
                          /\ e = Translate(phys.mem, spaces[t].root_pgt.ppn, vpn)
  OBVIOUS
<1>r. PICK r : r = map(phys, spaces[t], vpn, need)
  OBVIOUS
<1> DEFINE Hit == is_valid_va(va) /\ e # NONE /\ need \subseteq e.flags
<1>2. /\ UNCHANGED <<kernel_satp, started>> /\ Runs(t) /\ (mode = "kernel" => check_u_va(va))
      /\ \/ /\ Hit /\ UNCHANGED <<spaces, halt>>
            /\ phys' = [phys EXCEPT !.mem[e.ppn][0] = Word(t)] \/ phys' = phys
         \/ Halt("TrapPanic")
         \/ /\ ~Hit /\ (check_u_va(va) \/ mode = "kernel")
            /\ \/ r.res = "Panic"
               \/ phys' = r.phys /\ spaces' = [spaces EXCEPT ![t] = r.space] /\ UNCHANGED halt
               \/ /\ phys' = DropSpace(r.phys, r.space) /\ spaces' = [spaces EXCEPT ![t] = NONE]
                  /\ UNCHANGED halt
  <2>1. Need(kind) = need
    BY <1>1
  <2> QED BY <1>a, <1>1, <1>r, <2>1, Zenon DEF Access
<1>3. halt # "Panic" /\ spaces[t] # NONE
  BY <1>2, RunsFacts
<1>4. PICK sp \in Space : sp = spaces[t] /\ Fits(phys, sp, t) /\ Apart(sp.areas) /\ phys \in Phys
  BY <1>3, SpaceParts
<1>u. "U" \in need
  BY <1>1 DEF Need
<1>5. CASE /\ Hit /\ UNCHANGED <<spaces, halt>>
           /\ phys' = [phys EXCEPT !.mem[e.ppn][0] = Word(t)] \/ phys' = phys
  <2>1. CASE phys' = phys
    BY <2>1, <1>2, <1>3, <1>5, QuietRequest
  <2>2. CASE phys' = [phys EXCEPT !.mem[e.ppn][0] = Word(t)]
    <3>1. PICK al, m, rt, B : /\ al = phys.alloc /\ m = phys.mem /\ rt = sp.root_pgt
                              /\ B = Backing(sp.areas) /\ Held(al, m, rt, B, t)
      BY <1>4 DEF Fits
    <3>2. is_valid_va(va) /\ e # NONE /\ "U" \in e.flags
      BY <1>5, <1>u
    <3>3. e = Translate(m, rt.ppn, VpnFromVa(va))
      BY <1>1, <1>4, <3>1
    <3>4. PICK b \in B : e = Entry(b)
      BY <3>1, <3>2, <3>3, HitBacked
    <3>5. e.ppn = b.ppn /\ b \in Backing(sp.areas)
      BY <3>1, <3>4 DEF Entry
    <3>6. PICK ph2 : ph2 = phys' /\ ph2 = [phys EXCEPT !.mem[b.ppn][0] = Word(t)]
      BY <2>2, <3>5
    <3>7. Changes(phys, sp, ph2, sp, t)
      BY <1>4, <3>5, <3>6, StoreChanges
    <3>8. Changes(phys, spaces[t], phys', sp, t) /\ sp # NONE
      BY <3>6, <3>7, <1>3, <1>4
    <3>9. spaces' = [spaces EXCEPT ![t] = sp]
      <4>1. DOMAIN spaces = Tasks /\ spaces \in [Tasks -> Space \cup {NONE}]
        BY DEF UInv
      <4> QED BY <4>1, <1>4, <1>5
    <3> QED BY <1>2, <1>5, <3>8, <3>9, RequestKeeps
  <2> QED BY <1>5, <2>1, <2>2
<1>6. CASE Halt("TrapPanic")
  <2>1. UNCHANGED <<phys, spaces>> /\ halt' # "Panic"
    BY <1>6 DEF Halt
  <2> QED BY <1>2, <2>1, QuietRequest
<1>7. CASE /\ ~Hit /\ (check_u_va(va) \/ mode = "kernel")
           /\ \/ r.res = "Panic"
              \/ phys' = r.phys /\ spaces' = [spaces EXCEPT ![t] = r.space] /\ UNCHANGED halt
              \/ /\ phys' = DropSpace(r.phys, r.space) /\ spaces' = [spaces EXCEPT ![t] = NONE]
                 /\ UNCHANGED halt
  <2>1. check_u_va(va)
    BY <1>2, <1>7
  <2>2. vpn \in UserVpns /\ vpn \in Nat
    BY <2>1, <1>n, <1>1, UserAddress, UserLow
  <2>3. is_valid_va(va)
    BY <2>1, <1>n, UserEnd DEF check_u_va, is_valid_va
  <2>4. ~(e # NONE /\ need \subseteq e.flags)
    BY <2>3, <1>7
  <2>5. Missing(sp.areas, vpn, need)
    BY <2>2, <2>4, <1>1, <1>4, FaultMissing DEF NoneApart
  <2>6. r.res # "Panic" /\ Changes(phys, sp, r.phys, r.space, t)
    BY <2>2, <2>5, <1>4, <1>r, MapFits
  <2>7. r.phys \in Phys /\ r.space \in Space /\ SameRanges(sp.areas, r.space.areas)
    BY <2>2, <1>4, <1>r, MapType
  <2>8. Apart(r.space.areas) /\ r.space # NONE
    BY <2>7, <1>4, SameApart DEF NoneApart
  <2>9. CASE phys' = r.phys /\ spaces' = [spaces EXCEPT ![t] = r.space] /\ UNCHANGED halt
    <3>1. Changes(phys, spaces[t], phys', r.space, t)
      BY <2>6, <2>9, <1>4
    <3> QED BY <3>1, <2>8, <2>9, <1>2, RequestKeeps
  <2>10. CASE /\ phys' = DropSpace(r.phys, r.space) /\ spaces' = [spaces EXCEPT ![t] = NONE]
              /\ UNCHANGED halt
    <3>1. Changes(phys, spaces[t], r.phys, r.space, t)
      BY <2>6, <1>4
    <3> QED BY <3>1, <2>7, <2>8, <2>10, <1>2, EndKeeps
  <2> QED BY <1>7, <2>6, <2>9, <2>10
<1> HIDE DEF Hit
<1> QED BY <1>2, <1>5, <1>6, <1>7

\* The machine is off, or nothing happens.
LEMMA StutterFits ==
    ASSUME DInv, UNCHANGED vars
    PROVE  DInv'
<1>1. UNCHANGED <<phys, kernel_satp, spaces, started, halt, requests>>
  BY DEF vars
<1>2. NoPanic'
  BY <1>1, Zenon DEF DInv, NoPanic
<1>3. MemInv(phys', spaces')
  BY <1>1 DEF DInv
<1> QED BY <1>1, <1>2, <1>3 DEF DInv

\* The invariant is inductive.
LEMMA DInvNext ==
    ASSUME ~SpuriousFaults, NoneApart
    PROVE  UInv /\ DInv /\ [Next]_vars => UInv' /\ DInv'
<1> SUFFICES ASSUME UInv, DInv, [Next]_vars PROVE UInv' /\ DInv'
  OBVIOUS
<1>0. UInv'
  BY UInvNext
<1>1. ASSUME AddTask PROVE DInv'
  BY <1>0, <1>1, AddTaskFits
<1>2. ASSUME NEW t \in Tasks, NEW c \in MmapCalls, Mmap(t, c[1], c[2], c[3]) PROVE DInv'
  BY <1>0, <1>2, MmapFits
<1>3. ASSUME NEW t \in Tasks, NEW c \in MunmapCalls, Munmap(t, c[1], c[2]) PROVE DInv'
  BY <1>0, <1>3, MunmapFits
<1>4. ASSUME NEW t \in Tasks, NEW c \in Accesses, NEW mode \in {"user", "kernel"},
             Access(t, c[1], c[2], mode)
      PROVE  DInv'
  BY <1>0, <1>4, AccessFits
<1>5. ASSUME NEW t \in Tasks, Exit(t) PROVE DInv'
  BY <1>0, <1>5, ExitFits
<1>6. ASSUME Off \/ UNCHANGED vars PROVE DInv'
  <2>1. UNCHANGED vars
    BY <1>6 DEF Off
  <2> QED BY <2>1, StutterFits
<1>7. ASSUME Next PROVE DInv'
  <2>1. \/ AddTask
        \/ \E t \in Tasks :
              \/ \E c \in MmapCalls : Mmap(t, c[1], c[2], c[3])
              \/ \E c \in MunmapCalls : Munmap(t, c[1], c[2])
              \/ \E c \in Accesses, mode \in {"user", "kernel"} : Access(t, c[1], c[2], mode)
              \/ Exit(t)
        \/ Off
    BY <1>7 DEF Next
  <2> QED BY <2>1, <1>1, <1>2, <1>3, <1>4, <1>5, <1>6
<1>8. DInv'
  BY <1>6, <1>7
<1> QED BY <1>0, <1>8

-----------------------------------------------------------------------------
(* The theorems.                                                           *)

\* UserMemory, when no access faults that the tables permit: every space and its
\* page tables agree, and pages move between the spaces and the allocator only.
THEOREM SpacesInvariance ==
    ASSUME ~SpuriousFaults, NoneApart
    PROVE  Spec => [](UInv /\ DInv)
<1>1. Init => UInv /\ DInv
  BY UInvInit, DInvInit
<1>2. UInv /\ DInv /\ [Next]_vars => UInv' /\ DInv'
  BY DInvNext
<1> QED BY <1>1, <1>2, PTL DEF Spec

\* What the hardware finds for a user page of a task.
LEMMA PteIs ==
    ASSUME UInv, DInv, NEW t \in Alive, NEW v \in UserVpns, NEW B, B = Backing(spaces[t].areas)
    PROVE  /\ \A c \in B : c.vpn = v => Pte(t, v) = Entry(c)
           /\ (\A c \in B : c.vpn # v) => Pte(t, v) = NONE
           /\ Held(phys.alloc, phys.mem, spaces[t].root_pgt, B, t)
<1>1. t \in Tasks /\ spaces[t] # NONE
  BY DEF Alive
<1>2. Fits(phys, spaces[t], t)
  BY <1>1, SpaceParts
<1>3. PICK al, m, rt : al = phys.alloc /\ m = phys.mem /\ rt = spaces[t].root_pgt
  OBVIOUS
<1>4. Held(al, m, rt, B, t)
  BY <1>2, <1>3 DEF Fits
<1>5. v \in Nat /\ v < KERNEL_ROOT * ROOT_SPAN
  BY UserLow
<1>6. PICK e : e = Translate(m, rt.ppn, v)
  OBVIOUS
<1>7. /\ \A c \in B : c.vpn = v => e = Entry(c)
      /\ (\A c \in B : c.vpn # v) => e = NONE
  BY <1>4, <1>5, <1>6, EntryAt
<1>8. e = Pte(t, v)
  BY <1>3, <1>6 DEF Pte
<1> QED BY <1>3, <1>4, <1>7, <1>8

\* A page that is mapped is one that backs an area.
LEMMA MappedPage ==
    ASSUME UInv, DInv, NEW t \in Alive, NEW v \in UserVpns, Pte(t, v) # NONE,
           NEW B, B = Backing(spaces[t].areas)
    PROVE  \E b \in B : b.vpn = v /\ Pte(t, v).ppn = b.ppn
<1>1. PICK b \in B : b.vpn = v
  BY PteIs
<1>2. Pte(t, v) = Entry(b)
  BY <1>1, PteIs
<1> QED BY <1>1, <1>2 DEF Entry

\* UserMemory: the page tables and the areas agree on every user page of every
\* task, after any sequence of mmap, munmap, faults and exits.
THEOREM TablesAgree ==
    ASSUME ~SpuriousFaults, NoneApart
    PROVE  Spec => []TablesMatchAreas
<1>1. UInv /\ DInv => TablesMatchAreas
  <2> SUFFICES ASSUME UInv, DInv, NEW t \in Alive, NEW v \in UserVpns, NEW ar, ar = spaces[t].areas,
                      NEW H, H = {i \in DOMAIN ar : v \in DOMAIN ar[i].pages}
               PROVE  IF H = {} THEN Pte(t, v) = NONE
                      ELSE \E i \in H : Pte(t, v) = [ppn |-> ar[i].pages[v],
                                                     flags |-> ar[i].permissions \cup {"V"}]
    BY DEF TablesMatchAreas
  <2>1. PICK sp \in Space : sp = spaces[t]
    BY DEF UInv, Alive
  <2>2. ar \in Seq(Area) /\ DOMAIN ar = 1 .. Len(ar)
    <3>1. ar \in Seq(Area)
      BY <2>1, StateParts
    <3> QED BY <3>1
  <2>3. PICK B : B = Backing(ar)
    OBVIOUS
  <2>4. /\ \A c \in B : c.vpn = v => Pte(t, v) = Entry(c)
        /\ (\A c \in B : c.vpn # v) => Pte(t, v) = NONE
    BY <2>3, PteIs
  <2>5. CASE H = {}
    <3>1. ASSUME NEW c \in B PROVE c.vpn # v
      <4>1. PICK i \in 1 .. Len(ar) : c \in PagesIn(ar[i])
        BY <2>3 DEF Backing
      <4>2. c.vpn \in DOMAIN ar[i].pages
        BY <4>1 DEF PagesIn
      <4> QED BY <4>2, <2>2, <2>5
    <3> QED BY <3>1, <2>4, <2>5
  <2>6. CASE H # {}
    <3>1. PICK i \in H : TRUE
      BY <2>6
    <3>2. PICK a \in Area : a = ar[i] /\ v \in DOMAIN a.pages /\ i \in 1 .. Len(ar)
      BY <3>1, <2>2
    <3>3. PageOf(a, v) \in PagesIn(a)
      BY <3>2, PagesInFacts
    <3>4. PICK b : b = PageOf(a, v) /\ b \in B
      BY <3>2, <3>3, <2>3 DEF Backing, PagesIn
    <3>5. b.vpn = v /\ Entry(b) = [ppn |-> ar[i].pages[v], flags |-> ar[i].permissions \cup {"V"}]
      BY <3>2, <3>4 DEF PageOf, Entry
    <3>6. Pte(t, v) = Entry(b)
      BY <3>4, <3>5, <2>4
    <3> QED BY <3>1, <3>5, <3>6, <2>6
  <2> QED BY <2>5, <2>6
<1>2. Spec => [](UInv /\ DInv)
  BY SpacesInvariance
<1> QED BY <1>1, <1>2, PTL

\* UserMemory: no task reaches a page that is free, the invariant the page
\* allocator documents for its unsafe code.
THEOREM FreeUnreachable ==
    ASSUME ~SpuriousFaults, NoneApart
    PROVE  Spec => []RecycledUnreachable
<1>1. UInv /\ DInv => RecycledUnreachable
  <2> SUFFICES ASSUME UInv, DInv, NEW t \in Alive, NEW v \in UserVpns, Pte(t, v) # NONE
               PROVE  Pte(t, v).ppn \notin Free
    BY DEF RecycledUnreachable
  <2>1. PICK B : B = Backing(spaces[t].areas)
    OBVIOUS
  <2>2. PICK b \in B : Pte(t, v).ppn = b.ppn
    BY <2>1, MappedPage
  <2>3. Owns(phys.alloc, spaces[t].root_pgt, B)
    BY <2>1, PteIs DEF Held
  <2> QED BY <2>2, <2>3 DEF Owns, Free, FreeOf
<1>2. Spec => [](UInv /\ DInv)
  BY SpacesInvariance
<1> QED BY <1>1, <1>2, PTL

\* UserMemory: a task finds only zeroes and its own data in its memory, however
\* often the pages have changed hands.
THEOREM DataStaysOwn ==
    ASSUME ~SpuriousFaults, NoneApart
    PROVE  Spec => []OwnDataOnly
<1>1. UInv /\ DInv => OwnDataOnly
  <2> SUFFICES ASSUME UInv, DInv, NEW t \in Alive, NEW v \in UserVpns, Pte(t, v) # NONE,
                      NEW i \in Index
               PROVE  phys.mem[Pte(t, v).ppn][i] \in {Pte0, Word(t)}
    BY DEF OwnDataOnly
  <2>1. PICK B : B = Backing(spaces[t].areas)
    OBVIOUS
  <2>2. PICK b \in B : Pte(t, v).ppn = b.ppn /\ b.vpn = v
    BY <2>1, MappedPage
  <2>3. Clean(phys.mem, B, t)
    BY <2>1, PteIs DEF Held
  <2>4. v < USER_END_VPN
    BY UserLow
  <2> QED BY <2>2, <2>3, <2>4 DEF Clean, Own
<1>2. Spec => [](UInv /\ DInv)
  BY SpacesInvariance
<1> QED BY <1>1, <1>2, PTL

\* UserMemory: no assertion of the memory code fails under any sequence of
\* requests; only add_task may give up, before the first of them.
THEOREM PanicsNever ==
    ASSUME ~SpuriousFaults, NoneApart
    PROVE  Spec => []NoPanic
<1>1. UInv /\ DInv => NoPanic
  BY DEF DInv
<1>2. Spec => [](UInv /\ DInv)
  BY SpacesInvariance
<1> QED BY <1>1, <1>2, PTL

-----------------------------------------------------------------------------
(* Where each page is held.                                                *)

\* Where a page may be held.
InUnused(p) == p \in phys.alloc.next_unused_ppn .. phys.alloc.max_ppn - 1
InRecycled(p, i) == i \in DOMAIN phys.alloc.recycled_ppn /\ phys.alloc.recycled_ppn[i] = p
InKernel(p) == p \in KernelTables(phys.mem, kernel_satp)
InTables(p, t, i) ==
    t \in Alive /\ i \in DOMAIN spaces[t].root_pgt.pages /\ spaces[t].root_pgt.pages[i] = p
InArea(p, t, i, v) ==
    /\ t \in Alive /\ i \in DOMAIN spaces[t].areas
    /\ v \in DOMAIN spaces[t].areas[i].pages /\ spaces[t].areas[i].pages[v] = p

Holds(h, p) ==
    \/ InUnused(p) /\ h = <<"unused">>
    \/ \E i : InRecycled(p, i) /\ h = <<"recycled", i>>
    \/ InKernel(p) /\ h = <<"kernel">>
    \/ \E t, i : InTables(p, t, i) /\ h = <<"table", t, i>>
    \/ \E t, i, v : InArea(p, t, i, v) /\ h = <<"area", t, i, v>>

\* Holders collects exactly these places.
LEMMA HoldersAre ==
    ASSUME NEW p, NEW h
    PROVE  h \in Holders(p) <=> Holds(h, p)
<1> DEFINE At(f) == {x \in DOMAIN f : f[x] = p}
           U == {<<"unused">> : q \in {p} \cap phys.alloc.next_unused_ppn .. phys.alloc.max_ppn - 1}
           R == {<<"recycled", i>> : i \in At(phys.alloc.recycled_ppn)}
           K == {<<"kernel">> : q \in {p} \cap KernelTables(phys.mem, kernel_satp)}
           Tt(t) == {<<"table", t, i>> : i \in At(spaces[t].root_pgt.pages)}
           T == UNION {Tt(t) : t \in Alive}
           Ai(t, i) == {<<"area", t, i, v>> : v \in At(spaces[t].areas[i].pages)}
           Aa(t) == UNION {Ai(t, i) : i \in DOMAIN spaces[t].areas}
           A == UNION {Aa(t) : t \in Alive}
<1>1. h \in U <=> InUnused(p) /\ h = <<"unused">>
  BY Zenon DEF InUnused
<1>2. h \in R <=> \E i : InRecycled(p, i) /\ h = <<"recycled", i>>
  BY Zenon DEF InRecycled
<1>3. h \in K <=> InKernel(p) /\ h = <<"kernel">>
  BY Zenon DEF InKernel
<1>4. h \in T <=> \E t, i : InTables(p, t, i) /\ h = <<"table", t, i>>
  <2>1. \A t : h \in Tt(t) <=> \E i : i \in At(spaces[t].root_pgt.pages) /\ h = <<"table", t, i>>
    BY Zenon
  <2> HIDE DEF Tt
  <2>2. h \in T <=> \E t : t \in Alive /\ h \in Tt(t)
    BY Zenon
  <2> HIDE DEF T
  <2> QED BY <2>1, <2>2, Zenon DEF InTables
<1>5. h \in A <=> \E t, i, v : InArea(p, t, i, v) /\ h = <<"area", t, i, v>>
  <2>1. \A t, i : h \in Ai(t, i) <=> \E v : v \in At(spaces[t].areas[i].pages) /\ h = <<"area", t, i, v>>
    BY Zenon
  <2> HIDE DEF Ai
  <2>2. \A t : h \in Aa(t) <=> \E i : i \in DOMAIN spaces[t].areas /\ h \in Ai(t, i)
    BY Zenon
  <2> HIDE DEF Aa
  <2>3. h \in A <=> \E t : t \in Alive /\ h \in Aa(t)
    BY Zenon
  <2> HIDE DEF A
  <2>4. ASSUME h \in A PROVE \E t, i, v : InArea(p, t, i, v) /\ h = <<"area", t, i, v>>
    <3>1. PICK t : t \in Alive /\ h \in Aa(t)
      BY <2>3, <2>4
    <3>2. PICK i : i \in DOMAIN spaces[t].areas /\ h \in Ai(t, i)
      BY <3>1, <2>2
    <3>3. PICK v : v \in At(spaces[t].areas[i].pages) /\ h = <<"area", t, i, v>>
      BY <3>2, <2>1
    <3>4. InArea(p, t, i, v)
      BY <3>1, <3>2, <3>3, Zenon DEF InArea
    <3> QED BY <3>3, <3>4
  <2>5. ASSUME NEW t, NEW i, NEW v, InArea(p, t, i, v), h = <<"area", t, i, v>> PROVE h \in A
    <3>1. v \in At(spaces[t].areas[i].pages) /\ t \in Alive /\ i \in DOMAIN spaces[t].areas
      BY <2>5, Zenon DEF InArea
    <3>2. h \in Ai(t, i)
      BY <2>1, <2>5, <3>1
    <3>3. h \in Aa(t)
      BY <2>2, <3>1, <3>2
    <3> QED BY <2>3, <3>1, <3>3
  <2> QED BY <2>4, <2>5
<1>6. Holders(p) = U \cup R \cup K \cup T \cup A
  BY DEF Holders
<1> HIDE DEF U, R, K, T, A
<1>7. h \in Holders(p) <=> h \in U \/ h \in R \/ h \in K \/ h \in T \/ h \in A
  BY <1>6
<1> QED BY <1>1, <1>2, <1>3, <1>4, <1>5, <1>7, Zenon DEF Holds

\* A page of a task is in one slot of its tables, or under one page of one area.
Placing(p, t, tabs, frs) ==
    /\ PagesAt(spaces[t]) = tabs \cup frs /\ tabs \cap frs = {} /\ t \in Tasks
    /\ PagesAt(spaces[t]) \subseteq Pool /\ PagesAt(spaces[t]) \cap FreeOf(phys.alloc) = {}
    /\ p \in tabs <=> \E i : InTables(p, t, i)
    /\ p \in frs <=> \E i, v : InArea(p, t, i, v)
    /\ \A i, j : InTables(p, t, i) /\ InTables(p, t, j) => i = j
    /\ \A i, v, j, w : InArea(p, t, i, v) /\ InArea(p, t, j, w) => i = j /\ v = w

\* The places of a page in a space: one slot of its tables, or one page of one area.
LEMMA SpacePlaces ==
    ASSUME UInv, DInv, NEW t \in Alive, NEW p, NEW tabs, tabs = Tabs(spaces[t].root_pgt),
           NEW frs, frs = Frames(Backing(spaces[t].areas))
    PROVE  Placing(p, t, tabs, frs)
<1>1. t \in Tasks /\ spaces[t] # NONE
  BY DEF Alive
<1>2. PICK sp \in Space : sp = spaces[t] /\ Fits(phys, sp, t) /\ Apart(sp.areas) /\ PagesAt(spaces[t]) = PagesOf(sp)
  BY <1>1, SpaceParts
<1>3. PICK rt \in Root, ar \in Seq(Area) : sp.root_pgt = rt /\ sp.areas = ar
  BY StateParts
<1>4. PICK B : B = Backing(ar)
  OBVIOUS
<1>5. Held(phys.alloc, phys.mem, rt, B, t)
  BY <1>2, <1>3, <1>4 DEF Fits
<1>6. PagesAt(spaces[t]) = tabs \cup frs
  BY <1>2, <1>3 DEF PagesOf
<1>7. tabs \cap frs = {}
  BY <1>2, <1>3, <1>4, <1>5, FrameFacts
<1>8. PagesAt(spaces[t]) \subseteq Pool /\ PagesAt(spaces[t]) \cap FreeOf(phys.alloc) = {}
  BY <1>2, PagesFacts
<1>9. p \in tabs <=> \E i : InTables(p, t, i)
  BY <1>2, <1>3 DEF Tabs, ToSet, InTables
<1>10. ASSUME NEW i, NEW j, InTables(p, t, i), InTables(p, t, j) PROVE i = j
  <2>1. NoRepeat(rt.pages) /\ rt.pages \in Seq(Pool)
    BY <1>5 DEF Held, Good, RootOk
  <2>2. i \in 1 .. Len(rt.pages) /\ j \in 1 .. Len(rt.pages) /\ rt.pages[i] = rt.pages[j]
    BY <2>1, <1>2, <1>3, <1>10 DEF InTables
  <2> QED BY <2>1, <2>2 DEF NoRepeat
<1>11. ASSUME NEW i, NEW v, InArea(p, t, i, v)
       PROVE  /\ i \in 1 .. Len(ar) /\ ar[i] \in Area /\ v \in DOMAIN ar[i].pages
              /\ PageOf(ar[i], v) \in B /\ PageOf(ar[i], v) \in PagesIn(ar[i])
              /\ PageOf(ar[i], v).ppn = p /\ PageOf(ar[i], v).vpn = v
  <2>1. i \in 1 .. Len(ar) /\ v \in DOMAIN ar[i].pages /\ ar[i].pages[v] = p
    BY <1>2, <1>3, <1>11 DEF InArea
  <2>2. PICK a \in Area : a = ar[i]
    BY <2>1
  <2>3. PageOf(a, v) \in PagesIn(a)
    BY <2>1, <2>2, PagesInFacts
  <2>4. PageOf(a, v) \in B
    BY <2>1, <2>2, <2>3, <1>4 DEF Backing, PagesIn
  <2> QED BY <2>1, <2>2, <2>3, <2>4 DEF PageOf
<1>12. p \in frs <=> \E i, v : InArea(p, t, i, v)
  <2>1. ASSUME p \in frs PROVE \E i, v : InArea(p, t, i, v)
    <3>1. PICK b \in B : b.ppn = p
      BY <2>1, <1>2, <1>3, <1>4 DEF Frames
    <3>2. PICK i \in 1 .. Len(ar) : b \in PagesIn(ar[i])
      BY <1>4 DEF Backing
    <3>3. b.vpn \in DOMAIN ar[i].pages /\ ar[i].pages[b.vpn] = p
      BY <3>1, <3>2 DEF PagesIn
    <3>4. InArea(p, t, i, b.vpn)
      BY <3>3, <1>2, <1>3 DEF InArea
    <3> QED BY <3>4
  <2>2. ASSUME NEW i, NEW v, InArea(p, t, i, v) PROVE p \in frs
    <3>1. PICK b \in B : b.ppn = p
      BY <2>2, <1>11
    <3> QED BY <3>1, <1>2, <1>3, <1>4 DEF Frames
  <2> QED BY <2>1, <2>2
<1>13. ASSUME NEW i, NEW v, NEW j, NEW w, InArea(p, t, i, v), InArea(p, t, j, w)
       PROVE  i = j /\ v = w
  <2>1. PICK a \in Area, b \in B : /\ a = ar[i] /\ b = PageOf(a, v) /\ b \in PagesIn(a)
                                   /\ b.ppn = p /\ b.vpn = v /\ i \in 1 .. Len(ar)
    BY <1>11, <1>13
  <2>2. PICK x \in Area, y \in B : /\ x = ar[j] /\ y = PageOf(x, w) /\ y \in PagesIn(x)
                                   /\ y.ppn = p /\ y.vpn = w /\ j \in 1 .. Len(ar)
    BY <1>11, <1>13
  <2>3. b = y
    BY <2>1, <2>2, <1>5 DEF Held, Owns
  <2>4. v = w
    BY <2>1, <2>2, <2>3
  <2>5. a.start_vpn <= v /\ v < a.end_vpn /\ x.start_vpn <= v /\ v < x.end_vpn /\ v \in Nat
    BY <2>1, <2>2, <2>4, PagesInFacts
  <2>6. a.start_vpn \in Nat /\ a.end_vpn \in Nat /\ x.start_vpn \in Nat /\ x.end_vpn \in Nat
    BY AreaParts
  <2>7. i # j => a.end_vpn <= x.start_vpn \/ x.end_vpn <= a.start_vpn
    BY <2>1, <2>2, <1>2, <1>3 DEF Apart
  <2> QED BY <2>4, <2>5, <2>6, <2>7
<1> QED BY <1>1, <1>6, <1>7, <1>8, <1>9, <1>10, <1>12, <1>13 DEF Placing

\* The free pages, each in one place, and the kernel's.
LEMMA OtherPlaces ==
    ASSUME UInv, DInv, NEW p \in F .. compute_max_ppn - 1
    PROVE  /\ InKernel(p) <=> p \notin Pool
           /\ p \in FreeOf(phys.alloc) <=> InUnused(p) \/ \E i : InRecycled(p, i)
           /\ \A i : ~(InUnused(p) /\ InRecycled(p, i))
           /\ \A i, j : InRecycled(p, i) /\ InRecycled(p, j) => i = j
           /\ FreeOf(phys.alloc) \subseteq Pool
<1>1. PICK al : al = phys.alloc /\ AllocOk(al) /\ KernelMem(phys.mem) /\ kernel_satp = F
  BY DEF DInv, MemInv
<1>2. InKernel(p) <=> p \in {F, F + 1, F + 2}
  BY <1>1, ThreeKernelTables DEF InKernel
<1>3. p \in {F, F + 1, F + 2} <=> p \notin Pool
  BY Layout DEF Pool
<1>4. PICK rs : rs = al.recycled_ppn /\ rs \in Seq(Pool) /\ NoRepeat(rs)
  BY <1>1 DEF AllocOk
<1>5. \A i : InRecycled(p, i) <=> i \in 1 .. Len(rs) /\ rs[i] = p
  BY <1>1, <1>4 DEF InRecycled
<1>6. p \in FreeOf(al) <=> InUnused(p) \/ \E i : InRecycled(p, i)
  BY <1>1, <1>4 DEF FreeOf, ToSet, InUnused, InRecycled
<1>7. ASSUME NEW i, InUnused(p), InRecycled(p, i) PROVE FALSE
  <2>1. al.next_unused_ppn \in Nat /\ al.next_unused_ppn <= p
    BY <1>1, <1>7, Layout DEF AllocOk, InUnused
  <2>2. p < al.next_unused_ppn
    BY <1>1, <1>4, <1>5, <1>7 DEF AllocOk
  <2> QED BY <2>1, <2>2, Layout
<1>8. \A i, j : InRecycled(p, i) /\ InRecycled(p, j) => i = j
  BY <1>4, <1>5 DEF NoRepeat
<1>9. FreeOf(al) \subseteq Pool
  BY <1>1, FreeFacts
<1> QED BY <1>1, <1>2, <1>3, <1>6, <1>7, <1>8, <1>9

\* Two holders of a page are the same.
LEMMA OneHolder ==
    ASSUME UInv, DInv, NEW p \in F .. compute_max_ppn - 1,
           NEW h, NEW k, Holds(h, p), Holds(k, p)
    PROVE  h = k
<1>1. /\ InKernel(p) <=> p \notin Pool
      /\ p \in FreeOf(phys.alloc) <=> InUnused(p) \/ \E i : InRecycled(p, i)
      /\ \A i : ~(InUnused(p) /\ InRecycled(p, i))
      /\ \A i, j : InRecycled(p, i) /\ InRecycled(p, j) => i = j
      /\ FreeOf(phys.alloc) \subseteq Pool
  BY OtherPlaces
<1> DEFINE Tasked(t) == t \in Tasks /\ p \in PagesAt(spaces[t])
<1>2. ASSUME NEW t, NEW i, InTables(p, t, i)
      PROVE  /\ t \in Alive /\ Tasked(t) /\ p \in Pool /\ p \notin FreeOf(phys.alloc)
             /\ \A j, v : ~InArea(p, t, j, v)
             /\ \A j : InTables(p, t, j) => i = j
  <2>1. t \in Alive
    BY <1>2 DEF InTables
  <2>2. PICK tabs, frs : Placing(p, t, tabs, frs)
    BY <2>1, SpacePlaces
  <2> QED BY <1>2, <2>1, <2>2 DEF Placing
<1>3. ASSUME NEW t, NEW x, NEW y, InArea(p, t, x, y)
      PROVE  /\ t \in Alive /\ Tasked(t) /\ p \in Pool /\ p \notin FreeOf(phys.alloc)
             /\ \A j : ~InTables(p, t, j)
             /\ \A j, w : InArea(p, t, j, w) => x = j /\ y = w
  <2>1. t \in Alive
    BY <1>3 DEF InArea
  <2>2. PICK tabs, frs : Placing(p, t, tabs, frs)
    BY <2>1, SpacePlaces
  <2>3. p \in frs /\ p \notin tabs /\ \A j, w : InArea(p, t, j, w) => x = j /\ y = w
    BY <1>3, <2>2 DEF Placing
  <2> QED BY <2>1, <2>2, <2>3 DEF Placing
<1>4. \A t, u : Tasked(t) /\ Tasked(u) => t = u
  BY DEF DInv, MemInv, Separate
<1> HIDE DEF Tasked
<1>5. CASE InUnused(p) /\ h = <<"unused">>
  <2>1. ~InKernel(p) /\ \A t, i, v : ~InTables(p, t, i) /\ ~InArea(p, t, i, v) /\ ~InRecycled(p, i)
    BY <1>1, <1>2, <1>3, <1>5
  <2> QED BY <1>5, <2>1 DEF Holds
<1>6. CASE \E i : InRecycled(p, i) /\ h = <<"recycled", i>>
  <2>1. PICK i : InRecycled(p, i) /\ h = <<"recycled", i>>
    BY <1>6
  <2>2. ~InKernel(p) /\ ~InUnused(p) /\ \A t, j, v : ~InTables(p, t, j) /\ ~InArea(p, t, j, v)
    BY <1>1, <1>2, <1>3, <2>1
  <2>3. PICK j : InRecycled(p, j) /\ k = <<"recycled", j>>
    BY <2>2 DEF Holds
  <2> QED BY <1>1, <2>1, <2>3
<1>7. CASE InKernel(p) /\ h = <<"kernel">>
  <2>1. /\ ~InUnused(p)
        /\ \A t, i, v : ~InTables(p, t, i) /\ ~InArea(p, t, i, v) /\ ~InRecycled(p, i)
    BY <1>1, <1>2, <1>3, <1>7
  <2> QED BY <1>7, <2>1 DEF Holds
<1>8. CASE \E t, i : InTables(p, t, i) /\ h = <<"table", t, i>>
  <2>1. PICK t, i : InTables(p, t, i) /\ h = <<"table", t, i>>
    BY <1>8
  <2>2. ~InUnused(p) /\ ~InKernel(p) /\ \A j : ~InRecycled(p, j)
    BY <1>1, <1>2, <2>1
  <2>3. \A u, j, v : ~InArea(p, u, j, v)
    BY <1>2, <1>3, <1>4, <2>1
  <2>4. PICK u, j : InTables(p, u, j) /\ k = <<"table", u, j>>
    BY <2>2, <2>3 DEF Holds
  <2>5. u = t
    BY <1>2, <1>4, <2>1, <2>4
  <2>6. j = i
    BY <1>2, <2>1, <2>4, <2>5
  <2> QED BY <2>1, <2>4, <2>5, <2>6
<1>9. CASE \E t, i, v : InArea(p, t, i, v) /\ h = <<"area", t, i, v>>
  <2>1. PICK t, i, v : InArea(p, t, i, v) /\ h = <<"area", t, i, v>>
    BY <1>9
  <2>2. ~InUnused(p) /\ ~InKernel(p) /\ \A j : ~InRecycled(p, j)
    BY <1>1, <1>3, <2>1
  <2>3. \A u, j : ~InTables(p, u, j)
    BY <1>2, <1>3, <1>4, <2>1
  <2>4. PICK u, j, w : InArea(p, u, j, w) /\ k = <<"area", u, j, w>>
    BY <2>2, <2>3 DEF Holds
  <2>5. u = t
    BY <1>3, <1>4, <2>1, <2>4
  <2>6. j = i /\ w = v
    BY <1>3, <2>1, <2>4, <2>5
  <2> QED BY <2>1, <2>4, <2>5, <2>6
<1> QED BY <1>5, <1>6, <1>7, <1>8, <1>9 DEF Holds

\* Every page has a holder.
LEMMA SomeHolder ==
    ASSUME UInv, DInv, NEW p \in F .. compute_max_ppn - 1
    PROVE  \E h : Holds(h, p)
<1>1. /\ InKernel(p) <=> p \notin Pool
      /\ p \in FreeOf(phys.alloc) <=> InUnused(p) \/ \E i : InRecycled(p, i)
  BY OtherPlaces
<1>2. CASE p \notin Pool \/ p \in FreeOf(phys.alloc)
  BY <1>1, <1>2 DEF Holds
<1>3. CASE p \in Pool /\ p \notin FreeOf(phys.alloc)
  <2>1. PICK t \in Tasks : p \in PagesAt(spaces[t])
    BY <1>3 DEF DInv, MemInv, NoneLost
  <2>2. t \in Alive
    BY <2>1 DEF PagesAt, Alive
  <2>3. (\E i : InTables(p, t, i)) \/ \E i, v : InArea(p, t, i, v)
    <3>1. PICK tabs, frs : Placing(p, t, tabs, frs)
      BY <2>2, SpacePlaces
    <3> QED BY <2>1, <3>1 DEF Placing
  <2> QED BY <2>3 DEF Holds
<1> QED BY <1>2, <1>3

\* UserMemory: no page behind the kernel image is ever lost or has two owners.
THEOREM EveryPageHeldOnce ==
    ASSUME ~SpuriousFaults, NoneApart
    PROVE  Spec => []PagesConserved
<1>1. UInv /\ DInv => PagesConserved
  <2> SUFFICES ASSUME UInv, DInv, NEW p \in F .. compute_max_ppn - 1
               PROVE  Cardinality(Holders(p)) = 1
    BY DEF PagesConserved, F
  <2>1. PICK h : Holds(h, p)
    BY SomeHolder
  <2>2. \A k : k \in Holders(p) <=> k = h
    BY <2>1, OneHolder, HoldersAre
  <2>3. Holders(p) = {h}
    BY <2>2
  <2> QED BY <2>3, FS_Singleton
<1>2. Spec => [](UInv /\ DInv)
  BY SpacesInvariance
<1> QED BY <1>1, <1>2, PTL

-----------------------------------------------------------------------------
(* What new_user puts where.                                               *)

\* An area of the place, the kind and the permissions of x, with pages in D.
Shaped(a, x, D) ==
    /\ a.start_vpn = x.start_vpn /\ a.end_vpn = x.end_vpn
    /\ a.permissions = x.permissions /\ a.map_type = x.map_type /\ DOMAIN a.pages = D

\* The list ar with one area more.
OneMore(ar, br, x, D) ==
    /\ Len(br) = Len(ar) + 1 /\ Shaped(br[Len(ar) + 1], x, D)
    /\ \A j \in 1 .. Len(ar) : br[j] = ar[j]

\* A page of the last area that is backed at once is put under it.
LEMMA PageShape ==
    ASSUME NEW s \in State, NEW ar \in Seq(Area), NEW x \in Area, NEW D,
           OneMore(ar, s.space.areas, x, D), NEW v \in x.start_vpn .. x.end_vpn - 1,
           NEW word \in Words, NEW out, out = AnonymousPage(s, v, to_pte_flags(x.permissions), word),
           out.res = "Ok"
    PROVE  s.res = "Ok" /\ OneMore(ar, out.space.areas, x, D \cup {v})
<1>1. s.res = "Ok"
  <2>1. s.res # "Ok" => out = s
    BY DEF AnonymousPage
  <2> QED BY <2>1
<1>2. PICK as \in Seq(Area) : as = s.space.areas
  BY StateParts
<1>3. PICK k \in 1 .. Len(as) : k = Len(ar) + 1 /\ k = Len(as) /\ Shaped(as[k], x, D)
  BY <1>2 DEF OneMore
<1>4. PICK a \in Area : a = as[k]
  BY <1>2, <1>3
<1>5. PICK f \in SUBSET {"V", "R", "W", "X", "U"} : f = to_pte_flags(x.permissions)
  BY AreaParts, FlagWords
<1>6. v \in a.start_vpn .. a.end_vpn - 1
  BY <1>3, <1>4 DEF Shaped
<1>7. PICK p, m, br : Laid(s, v, f, word, out, p, m, br)
  <2>1. Len(s.space.areas) > 0 /\ a = s.space.areas[Len(s.space.areas)]
    BY <1>2, <1>3, <1>4
  <2>2. out = AnonymousPage(s, v, f, word)
    BY <1>5
  <2> QED BY <2>1, <2>2, <1>1, <1>6, AnonymousPageType
<1>8. p \in PPN /\ br = [as EXCEPT ![k].pages = Insert(as[k].pages, v, p)] /\ out.space.areas = br
  <2>1. out = VMResult(m.phys, [root_pgt |-> m.root, areas |-> br], m.res)
    BY <1>7 DEF Laid
  <2>2. p \in PPN /\ br = [as EXCEPT ![k].pages = Insert(as[k].pages, v, p)]
    BY <1>7, <1>2, <1>3 DEF Laid
  <2>3. out.space.areas = br
    BY <2>1 DEF VMResult
  <2> QED BY <2>2, <2>3
<1>9. a.pages \in PageMaps /\ a.start_vpn \in Nat /\ a.end_vpn \in Nat
      /\ DOMAIN a.pages \subseteq a.start_vpn .. a.end_vpn - 1
  BY AreaParts
<1>10. PICK q \in PageMaps : q = Insert(as[k].pages, v, p) /\ DOMAIN q = DOMAIN a.pages \cup {v}
  <2>1. PICK old \in PageMaps, w \in Nat : old = a.pages /\ w = v
    BY <1>6, <1>9
  <2>2. Insert(old, w, p) \in PageMaps /\ DOMAIN Insert(old, w, p) = DOMAIN old \cup {w}
    BY <1>8, InsertType
  <2> QED BY <2>1, <2>2, <1>4
<1>11. /\ SameRanges(as, br) /\ br[k].pages = q
       /\ br[k].permissions = as[k].permissions /\ br[k].map_type = as[k].map_type
       /\ SameBut(as, br, k)
  <2>1. Repaged(as, br, k, q)
    BY <1>8, <1>10 DEF Repaged
  <2>2. DOMAIN q \subseteq as[k].start_vpn .. as[k].end_vpn - 1
    BY <1>4, <1>6, <1>9, <1>10
  <2> QED BY <2>1, <2>2, <1>2, <1>3, <1>10, SetPages
<1>12. DOMAIN q = D \cup {v}
  BY <1>3, <1>4, <1>10 DEF Shaped
<1>13. Shaped(br[k], x, D \cup {v})
  BY <1>3, <1>11, <1>12 DEF Shaped, SameRanges
<1>14. \A j \in 1 .. Len(ar) : br[j] = ar[j]
  BY <1>2, <1>3, <1>11 DEF SameBut, OneMore
<1>15. Len(br) = Len(ar) + 1
  BY <1>3, <1>11 DEF SameRanges
<1> QED BY <1>1, <1>3, <1>8, <1>13, <1>14, <1>15 DEF OneMore

\* A segment that is mapped has its area, with all its pages.
LEMMA SegmentShape ==
    ASSUME NEW s \in State, NEW seg \in Segs, NEW x \in Area, x = SegmentArea(seg), NEW word \in Words,
           NEW out, out = map_user_elf_segment(s, seg, word), out.res = "Ok"
    PROVE  s.res = "Ok" /\ OneMore(s.space.areas, out.space.areas, x, x.start_vpn .. x.end_vpn - 1)
<1>f. x.map_type = "Anonymous" /\ DOMAIN x.pages = {}
  BY SegmentFacts
<1>a. PICK ar \in Seq(Area) : ar = s.space.areas
  BY StateParts
<1>1. PICK g : SegmentRun(g, s, seg, word, out)
  BY SegmentType
<1>0. s.res = "Ok"
  BY SegmentType
<1>x. x.start_vpn \in Nat /\ x.end_vpn \in Nat /\ x.start_vpn < x.end_vpn
  BY AreaParts
<1>n. PICK N \in Nat : N = x.end_vpn - x.start_vpn
  BY <1>x
<1> DEFINE Ok(n, u) == u.res = "Ok" => OneMore(ar, u.space.areas, x, x.start_vpn .. x.start_vpn + n - 1)
<1>e. PICK E : E = [n \in 0 .. N |-> {u \in {g[n]} : Ok(n, u)}]
  OBVIOUS
<1>g. /\ g[0] = AddArea(s, x) /\ out = g[N]
      /\ \A n \in 0 .. N - 1 :
            g[n + 1] = AnonymousPage(g[n], x.start_vpn + (n + 1) - 1,
                                     to_pte_flags(x.permissions), SegmentData(seg, n, word))
      /\ \A n \in 0 .. N : g[n] \in State
  BY <1>1, <1>n DEF SegmentRun
<1>2. g[0] \in E[0]
  <2>1. PICK u, br : u = g[0] /\ br = u.space.areas /\ br = Append(ar, x)
    BY <1>a, <1>g, AddAreaType
  <2>2. Len(br) = Len(ar) + 1 /\ Len(ar) \in Nat /\ br[Len(ar) + 1] = x /\ \A i \in 1 .. Len(ar) : br[i] = ar[i]
    BY <2>1, AddedArea
  <2>3. x.start_vpn .. x.start_vpn + 0 - 1 = {}
    BY <1>x
  <2>4. OneMore(ar, br, x, {})
    BY <2>2, <1>f DEF OneMore, Shaped
  <2>5. Ok(0, u)
    BY <2>1, <2>3, <2>4
  <2> HIDE DEF Ok
  <2> QED BY <2>1, <2>5, <1>e, <1>n
<1>3. ASSUME NEW n \in 0 .. N - 1, g[n] \in E[n] PROVE g[n + 1] \in E[n + 1]
  <2>1. n \in 0 .. N /\ n + 1 \in 0 .. N /\ n \in Nat
    BY <1>n
  <2>u. PICK u, w : u = g[n] /\ w = g[n + 1]
    OBVIOUS
  <2>2. Ok(n, u)
    <3> HIDE DEF Ok
    <3> QED BY <1>e, <1>3, <2>1, <2>u
  <2>3. PICK v \in Nat : v = x.start_vpn + (n + 1) - 1 /\ v = x.start_vpn + n
    BY <1>x, <2>1
  <2>d. PICK d \in Words : d = SegmentData(seg, n, word)
    <3>1. SegmentData(seg, n, word) \in Words
      BY WordTypes DEF SegmentData
    <3> QED BY <3>1
  <2>4. w = AnonymousPage(u, v, to_pte_flags(x.permissions), d) /\ u \in State
    BY <1>g, <2>1, <2>3, <2>u, <2>d
  <2>5. Ok(n + 1, w)
    <3> SUFFICES ASSUME w.res = "Ok"
                 PROVE  OneMore(ar, w.space.areas, x, x.start_vpn .. x.start_vpn + (n + 1) - 1)
      OBVIOUS
    <3>0. u.res = "Ok"
      <4>1. u.res # "Ok" => w = u
        BY <2>4 DEF AnonymousPage
      <4> QED BY <4>1
    <3>D. PICK D : D = x.start_vpn .. x.start_vpn + n - 1
      OBVIOUS
    <3>1. v \in x.start_vpn .. x.end_vpn - 1
      BY <2>3, <1>n, <1>x, <2>1
    <3>2. D \cup {v} = x.start_vpn .. x.start_vpn + (n + 1) - 1
      BY <3>D, <2>3, <1>x, <2>1
    <3>3. OneMore(ar, u.space.areas, x, D)
      BY <3>0, <3>D, <2>2
    <3>4. OneMore(ar, w.space.areas, x, D \cup {v})
      BY <3>1, <3>3, <2>4, PageShape
    <3> QED BY <3>2, <3>4
  <2> HIDE DEF Ok
  <2> QED BY <2>5, <1>e, <2>1, <2>u
<1>4. \A n \in 0 .. N : g[n] \in E[n]
  BY <1>2, <1>3, <1>n, LoopStays
<1>5. Ok(N, g[N])
  <2> HIDE DEF Ok
  <2> QED BY <1>4, <1>e, <1>n
<1>6. x.start_vpn .. x.start_vpn + N - 1 = x.start_vpn .. x.end_vpn - 1
  BY <1>n, <1>x
<1> QED BY <1>0, <1>5, <1>6, <1>g, <1>a

\* The first n areas are those of the segments.
SegmentsIn(ar, n) ==
    \A j \in 1 .. n : LET x == SegmentArea(Elf[j]) IN Shaped(ar[j], x, x.start_vpn .. x.end_vpn - 1)

\* All segments have their areas.
LEMMA ElfShape ==
    ASSUME NEW s \in State, s.space.areas = << >>, NEW word \in Words,
           NEW out, out = map_user_elf(s, Elf, word), out.res = "Ok"
    PROVE  Len(out.space.areas) = Len(Elf) /\ SegmentsIn(out.space.areas, Len(Elf))
<1>e. Elf \in Seq(Segs) /\ Len(Elf) \in Nat
  BY ElfAssumption DEF Segs
<1>g. PICK g : ElfRun(g, s, word, out)
  BY ElfType
<1> DEFINE Ok(n, u) == u.res = "Ok" => Len(u.space.areas) = n /\ SegmentsIn(u.space.areas, n)
<1>0. PICK E : E = [n \in 0 .. Len(Elf) |-> {u \in {g[n]} : Ok(n, u)}]
  OBVIOUS
<1>1. g[0] \in E[0]
  <2>1. g[0].space.areas = << >>
    BY <1>g DEF ElfRun
  <2>2. Ok(0, g[0])
    BY <2>1 DEF SegmentsIn
  <2> HIDE DEF Ok
  <2> QED BY <2>2, <1>0, <1>e
<1>2. ASSUME NEW n \in 0 .. Len(Elf) - 1, g[n] \in E[n] PROVE g[n + 1] \in E[n + 1]
  <2>1. n \in 0 .. Len(Elf) /\ n + 1 \in 0 .. Len(Elf) /\ n + 1 \in DOMAIN Elf
    BY <1>e
  <2>u. PICK seg \in Segs, u \in {g[n]}, w \in {g[n + 1]} : u = g[n] /\ w = g[n + 1] /\ seg = Elf[n + 1]
    BY <1>e, <2>1
  <2>2. Ok(n, u)
    <3> HIDE DEF Ok
    <3> QED BY <1>0, <1>2, <2>1, <2>u
  <2>3. w = map_user_elf_segment(u, seg, word) /\ u \in State
    BY <1>g, <2>1, <2>u DEF ElfRun
  <2>4. Ok(n + 1, w)
    <3> SUFFICES ASSUME w.res = "Ok"
                 PROVE  Len(w.space.areas) = n + 1 /\ SegmentsIn(w.space.areas, n + 1)
      OBVIOUS
    <3>1. PICK x \in Area : x = SegmentArea(seg)
      BY SegmentFacts
    <3>2. u.res = "Ok" /\ OneMore(u.space.areas, w.space.areas, x, x.start_vpn .. x.end_vpn - 1)
      BY <3>1, <2>3, SegmentShape
    <3>3. PICK ar, br : ar = u.space.areas /\ br = w.space.areas
      OBVIOUS
    <3>4. Len(ar) = n /\ SegmentsIn(ar, n) /\ OneMore(ar, br, x, x.start_vpn .. x.end_vpn - 1)
      BY <3>2, <3>3, <2>2
    <3>5. ASSUME NEW j \in 1 .. n + 1, NEW y, y = SegmentArea(Elf[j])
          PROVE  Shaped(br[j], y, y.start_vpn .. y.end_vpn - 1)
      <4>1. CASE j = n + 1
        BY <4>1, <3>1, <3>4, <3>5, <2>u DEF OneMore
      <4>2. CASE j # n + 1
        <5>1. j \in 1 .. n
          BY <4>2, <2>1
        <5>2. br[j] = ar[j] /\ Shaped(ar[j], y, y.start_vpn .. y.end_vpn - 1)
          BY <5>1, <3>4, <3>5 DEF OneMore, SegmentsIn
        <5> QED BY <5>2
      <4> QED BY <4>1, <4>2
    <3>6. SegmentsIn(br, n + 1)
      BY <3>5 DEF SegmentsIn
    <3> QED BY <3>3, <3>4, <3>6 DEF OneMore
  <2> HIDE DEF Ok
  <2> QED BY <2>4, <1>0, <2>1, <2>u
<1>3. \A n \in 0 .. Len(Elf) : g[n] \in E[n]
  BY <1>1, <1>2, <1>e, LoopStays
<1>4. Ok(Len(Elf), g[Len(Elf)])
  <2> HIDE DEF Ok
  <2> QED BY <1>3, <1>0, <1>e
<1> QED BY <1>4, <1>g DEF ElfRun

\* The areas of a new space: the segments, the stack with its top page, and one
\* in the kernel half.
LEMMA NewUserShape ==
    ASSUME NEW ph \in Phys, NEW satp \in PPN, NEW word \in Words,
           NEW out, out = new_user(ph, satp, Elf, word), out.res = "Ok", NEW ar, ar = out.space.areas
    PROVE  /\ ar \in Seq(Area) /\ Len(ar) = Len(Elf) + 2 /\ SegmentsIn(ar, Len(Elf))
           /\ Shaped(ar[Len(Elf) + 1], VMArea(StackStart, USER_END_VPN, "Anonymous", {"R", "W", "U"}),
                     {USER_END_VPN - 1})
           /\ USER_END_VPN <= ar[Len(Elf) + 2].start_vpn
<1>e. Len(Elf) \in Nat
  BY ElfAssumption
<1>r. PICK r : r = new_copy(ph, ph.mem[satp])
  OBVIOUS
<1>1. r.res = "Ok"
  <2>1. r.res # "Ok" => out = VMResult(ph, NONE, "CreateRootPgtFailed")
    BY <1>r DEF new_user
  <2> QED BY <2>1 DEF VMResult
<1>2. PICK s : s = VMResult(r.phys, [root_pgt |-> r.root, areas |-> << >>], "Ok")
  OBVIOUS
<1>3. s \in State /\ s.space.areas = << >>
  <2>1. r.phys \in Phys /\ r.root \in Root
    BY <1>1, <1>r, NewCopyType
  <2>2. PICK e \in Seq(Area) : e = << >>
    <3>1. << >> \in Seq(Area)
      OBVIOUS
    <3> QED BY <3>1
  <2>3. [root_pgt |-> r.root, areas |-> e] \in Space /\ "Ok" \in Res
    BY <2>1, StateParts DEF Res
  <2>4. s \in State
    BY <1>2, <2>1, <2>2, <2>3, StateParts
  <2> QED BY <1>2, <2>4 DEF VMResult
<1>4. PICK s1 : s1 = map_user_elf(s, Elf, word)
  OBVIOUS
<1>5. PICK s2 : s2 = add_user_stack_area(s1)
  OBVIOUS
<1>6. out = add_kernel_stack_area(s2)
  BY <1>1, <1>2, <1>4, <1>5, <1>r DEF new_user
<1>7. s1 \in State
  BY <1>3, <1>4, ElfType
<1>8. s2 \in State
  BY <1>5, <1>7, UserStackType
<1>9. PICK y \in Area : /\ s2.res = "Ok" /\ out \in State
                        /\ USER_END_VPN <= y.start_vpn /\ ar = Append(s2.space.areas, y)
  BY <1>6, <1>8, KernelStackType
<1>10. s1.res = "Ok"
  BY <1>5, <1>7, <1>9, UserStackType
<1>11. PICK a1 \in Seq(Area) : a1 = s1.space.areas /\ Len(a1) = Len(Elf) /\ SegmentsIn(a1, Len(Elf))
  BY <1>3, <1>4, <1>7, <1>10, StateParts, ElfShape
<1>12. PICK a2 \in Seq(Area) : a2 = s2.space.areas
  BY <1>8, StateParts
<1>13. PICK x : x = VMArea(StackStart, USER_END_VPN, "Anonymous", {"R", "W", "U"})
  OBVIOUS
<1>14. /\ x \in Area /\ x.start_vpn = StackStart /\ x.end_vpn = USER_END_VPN
       /\ x.permissions = {"R", "W", "U"} /\ x.map_type = "Anonymous" /\ DOMAIN x.pages = {}
  <2>1. {"R", "W", "U"} \in Flags
    BY DEF Flags
  <2> QED BY <2>1, <1>13, UserRange, NewAreaType
<1>15. OneMore(a1, a2, x, {USER_END_VPN - 1})
  <2>1. PICK w : w = AddArea(s1, x)
    OBVIOUS
  <2>2. w \in State /\ w.space.areas = Append(a1, x)
    BY <2>1, <1>7, <1>11, <1>14, AddAreaType
  <2>3. OneMore(a1, w.space.areas, x, {})
    <3>1. PICK br : br = w.space.areas /\ br = Append(a1, x)
      BY <2>2
    <3>2. Len(br) = Len(a1) + 1 /\ br[Len(a1) + 1] = x /\ \A i \in 1 .. Len(a1) : br[i] = a1[i]
      BY <3>1, <1>11, <1>14, AddedArea
    <3> QED BY <3>1, <3>2, <1>14 DEF OneMore, Shaped
  <2>4. PICK v \in x.start_vpn .. x.end_vpn - 1 : v = USER_END_VPN - 1
    BY <1>14, UserRange
  <2>5. PICK d \in Words : d = Pte0
    BY WordTypes
  <2>6. s2 = AnonymousPage(w, v, to_pte_flags(x.permissions), d)
    BY <1>5, <1>10, <1>13, <2>1, <2>4, <2>5, UserRange DEF add_user_stack_area, StackStart
  <2>7. PICK D : D = {}
    OBVIOUS
  <2>8. OneMore(a1, s2.space.areas, x, D \cup {v})
    BY <2>2, <2>3, <2>4, <2>6, <2>7, <1>9, <1>11, <1>14, PageShape
  <2>9. D \cup {v} = {USER_END_VPN - 1}
    BY <2>4, <2>7
  <2> QED BY <2>8, <2>9, <1>12
<1>16. /\ ar \in Seq(Area) /\ Len(ar) = Len(a2) + 1 /\ ar[Len(a2) + 1] = y
       /\ \A i \in 1 .. Len(a2) : ar[i] = a2[i]
  BY <1>9, <1>12, AddedArea
<1>17. Len(a2) = Len(Elf) + 1 /\ Shaped(a2[Len(Elf) + 1], x, {USER_END_VPN - 1})
       /\ \A j \in 1 .. Len(Elf) : a2[j] = a1[j]
  BY <1>11, <1>15 DEF OneMore
<1>18. ar[Len(Elf) + 1] = a2[Len(Elf) + 1] /\ \A j \in 1 .. Len(Elf) : ar[j] = a1[j]
  BY <1>16, <1>17, <1>e
<1>19. SegmentsIn(ar, Len(Elf))
  BY <1>11, <1>18 DEF SegmentsIn
<1>20. Len(ar) = Len(Elf) + 2 /\ ar[Len(Elf) + 2] = y
  BY <1>16, <1>17, <1>e
<1> QED BY <1>9, <1>13, <1>16, <1>17, <1>18, <1>19, <1>20

-----------------------------------------------------------------------------
(* What a task may reach: pages with permissions.                          *)
Granted == [vpn : Nat, flags : Flags]

Grants(areas) ==
    {g \in Granted : \E i \in 1 .. Len(areas) :
        areas[i].map_type = "Anonymous" /\ contain_vpn(areas[i], g.vpn) /\ g.flags = areas[i].permissions}

\* The map f says the same as G.
Shows(f, G) ==
    /\ f = [v \in DOMAIN f |-> f[v]]
    /\ \A v : v \in DOMAIN f <=> \E g \in G : g.vpn = v
    /\ \A g \in G : f[g.vpn] = g.flags

\* Two maps that do are the same map.
LEMMA ShowsOne ==
    ASSUME NEW f, NEW h, NEW G, Shows(f, G), Shows(h, G)
    PROVE  f = h
<1>1. DOMAIN f = DOMAIN h
  BY DEF Shows
<1>2. ASSUME NEW v \in DOMAIN f PROVE f[v] = h[v]
  BY <1>2 DEF Shows
<1> QED BY <1>1, <1>2 DEF Shows

\* The grant of an area.
LEMMA GrantOf ==
    ASSUME NEW ar \in Seq(Area), NEW i \in 1 .. Len(ar), ar[i].map_type = "Anonymous",
           NEW v \in Nat, contain_vpn(ar[i], v)
    PROVE  [vpn |-> v, flags |-> ar[i].permissions] \in Grants(ar)
<1>1. ar[i] \in Area
  OBVIOUS
<1>2. ar[i].permissions \in Flags
  BY <1>1, AreaParts
<1> QED BY <1>2 DEF Grants, Granted

\* Of areas that lie apart, one at most contains a page.
LEMMA OneArea ==
    ASSUME NEW ar \in Seq(Area), Apart(ar), NEW i \in 1 .. Len(ar), NEW j \in 1 .. Len(ar),
           NEW v \in Nat, contain_vpn(ar[i], v), contain_vpn(ar[j], v)
    PROVE  i = j
<1>1. ar[i] \in Area /\ ar[j] \in Area
  OBVIOUS
<1>2. /\ ar[i].start_vpn \in Nat /\ ar[i].end_vpn \in Nat
      /\ ar[j].start_vpn \in Nat /\ ar[j].end_vpn \in Nat
  BY <1>1, AreaParts
<1> QED BY <1>2 DEF Apart, contain_vpn

\* FindArea finds it.
LEMMA FindAreaIs ==
    ASSUME NEW ar \in Seq(Area), Apart(ar), NEW i \in 1 .. Len(ar), NEW v \in Nat, contain_vpn(ar[i], v)
    PROVE  FindArea(ar, v) = i
<1> DEFINE I == {k \in 1 .. Len(ar) : contain_vpn(ar[k], v)}
<1>1. I = {i}
  BY OneArea
<1>2. FindArea(ar, v) = IF I # {} THEN Min(I) ELSE 0
  BY DEF FindArea, SelectInSeq
<1>3. I \in SUBSET (1 .. Len(ar)) /\ Len(ar) \in Nat /\ I # {}
  BY <1>1
<1> HIDE DEF I
<1>4. Min(I) \in I
  BY <1>3, MinMax
<1> QED BY <1>1, <1>2, <1>3, <1>4

\* What the areas reserve is what they grant.
LEMMA ReservedShows ==
    ASSUME NEW sp \in Space, Apart(sp.areas), InHalves(sp.areas)
    PROVE  /\ Shows(ReservedOf(sp), Grants(sp.areas))
           /\ DOMAIN ReservedOf(sp) \subseteq UserVpns
           /\ \A v \in DOMAIN ReservedOf(sp) : ReservedOf(sp)[v] \in Flags
<1>a. PICK ar \in Seq(Area) : ar = sp.areas
  BY StateParts
<1>1. PICK f : f = ReservedOf(sp)
  OBVIOUS
<1> DEFINE S == {w \in UserVpns : \E i \in Anonymous(sp) : contain_vpn(ar[i], w)}
<1>2. f = [v \in S |-> ar[FindArea(ar, v)].permissions]
  BY <1>1, <1>a DEF ReservedOf
<1>3. \A i : i \in Anonymous(sp) <=> i \in 1 .. Len(ar) /\ ar[i].map_type = "Anonymous"
  BY <1>a DEF Anonymous
<1>4. ASSUME NEW g \in Grants(ar) PROVE g.vpn \in S /\ f[g.vpn] = g.flags
  <2>1. PICK i \in 1 .. Len(ar) : ar[i].map_type = "Anonymous" /\ contain_vpn(ar[i], g.vpn)
                                  /\ g.flags = ar[i].permissions
    BY DEF Grants
  <2>2. g.vpn \in Nat
    BY DEF Grants, Granted
  <2>3. ar[i].end_vpn <= USER_END_VPN /\ ar[i].end_vpn \in Nat
    BY <2>1, <1>a, AreaParts DEF InHalves, InHalf
  <2>4. g.vpn \in UserVpns
    BY <2>1, <2>2, <2>3, UserLow DEF contain_vpn, UserVpns
  <2>5. g.vpn \in S
    BY <2>1, <2>4, <1>3
  <2>6. FindArea(ar, g.vpn) = i
    BY <2>1, <2>2, <1>a, FindAreaIs
  <2> QED BY <2>1, <2>5, <2>6, <1>2
<1>5. ASSUME NEW v \in S PROVE \E g \in Grants(ar) : g.vpn = v
  <2>1. PICK i \in 1 .. Len(ar) : ar[i].map_type = "Anonymous" /\ contain_vpn(ar[i], v)
    BY <1>3
  <2>2. v \in Nat
    BY UserLow
  <2>3. [vpn |-> v, flags |-> ar[i].permissions] \in Grants(ar)
    BY <2>1, <2>2, GrantOf
  <2> QED BY <2>3
<1>6. DOMAIN f = S /\ f = [v \in S |-> f[v]]
  BY <1>2
<1>7. S \subseteq UserVpns
  OBVIOUS
<1> HIDE DEF S
<1>8. Shows(f, Grants(ar))
  BY <1>4, <1>5, <1>6 DEF Shows
<1>9. ASSUME NEW v \in S PROVE f[v] \in Flags
  <2>1. PICK g \in Grants(ar) : g.vpn = v
    BY <1>5
  <2>2. g.flags \in Flags
    BY DEF Grants, Granted
  <2> QED BY <2>1, <2>2, <1>4
<1> QED BY <1>1, <1>6, <1>7, <1>8, <1>9, <1>a

-----------------------------------------------------------------------------
(* What munmap leaves.                                                     *)

\* c is a part of a, outside the pages from b to e.
Part(c, a, b, e) ==
    /\ c.map_type = a.map_type /\ c.permissions = a.permissions
    /\ a.start_vpn <= c.start_vpn /\ c.end_vpn <= a.end_vpn
    /\ c.end_vpn <= b \/ e <= c.start_vpn

\* The list bs has the areas of al but for the one at i, and parts of this one,
\* which make up all of it outside b to e.  What is at i or behind it was behind
\* it before, or is a part.
Stays(al, bs, i, b, e) ==
    /\ \A j \in 1 .. Len(bs) : \/ \E k \in 1 .. Len(al) : k # i /\ bs[j] = al[k] /\ (j >= i => k > i)
                               \/ Part(bs[j], al[i], b, e)
    /\ \A k \in 1 .. Len(al) : k # i => \E j \in 1 .. Len(bs) : bs[j] = al[k]

Kept(al, bs, i, b, e) ==
    /\ Stays(al, bs, i, b, e)
    /\ \A v \in Nat : contain_vpn(al[i], v) /\ ~(b <= v /\ v < e) =>
          \E j \in 1 .. Len(bs) : /\ contain_vpn(bs[j], v) /\ bs[j].permissions = al[i].permissions
                                  /\ bs[j].map_type = al[i].map_type

\* Taking pages out of one area leaves the others, and its parts.
LEMMA RemainingKept ==
    ASSUME NEW al \in Seq(Area), Apart(al), NEW i \in 1 .. Len(al), NEW a \in Area, a = al[i],
           NEW b \in Nat, NEW e \in Nat, a.start_vpn <= b, b < e, e <= a.end_vpn,
           NEW bs, bs = Remaining(al, i, b, e)
    PROVE  Kept(al, bs, i, b, e)
<1>1. a.start_vpn \in Nat /\ a.end_vpn \in Nat /\ a.start_vpn < a.end_vpn /\ Len(al) \in Nat
  BY AreaParts
<1>2. ASSUME NEW c \in Area, Part(c, a, b, e), NEW cs, cs = [al EXCEPT ![i] = c]
      PROVE  Stays(al, cs, i, b, e) /\ cs \in Seq(Area) /\ Len(cs) = Len(al) /\ cs[i] = c
  <2>1. /\ cs \in Seq(Area) /\ Len(cs) = Len(al) /\ cs[i] = c
        /\ \A j \in 1 .. Len(al) : j # i => cs[j] = al[j]
    BY <1>2, Replaced
  <2>2. ASSUME NEW j \in 1 .. Len(cs)
        PROVE  \/ \E k \in 1 .. Len(al) : k # i /\ cs[j] = al[k] /\ (j >= i => k > i)
               \/ Part(cs[j], a, b, e)
    <3>1. CASE j = i
      BY <3>1, <2>1, <1>2
    <3>2. CASE j # i
      <4>1. j \in 1 .. Len(al) /\ cs[j] = al[j] /\ (j >= i => j > i)
        BY <3>2, <2>1, <1>1
      <4> QED BY <4>1, <3>2
    <3> QED BY <3>1, <3>2
  <2> QED BY <2>1, <2>2 DEF Stays
<1>3. CASE b = a.start_vpn /\ e = a.end_vpn
  <2>1. bs = SwapRemove(al, i)
    BY <1>3 DEF Remaining
  <2>a. bs \in Seq(Area) /\ Len(bs) = Len(al) - 1 /\ Swapped(al, i, bs)
    BY <2>1, SwapRemoveType
  <2>2. /\ bs \in Seq(Area) /\ Len(bs) = Len(al) - 1
        /\ \A j \in 1 .. Len(al) - 1 : bs[j] = IF j = i THEN al[Len(al)] ELSE al[j]
    BY <2>a DEF Swapped
  <2>4. ASSUME NEW j \in 1 .. Len(bs)
        PROVE  \E k \in 1 .. Len(al) : k # i /\ bs[j] = al[k] /\ (j >= i => k > i)
    <3>1. j \in 1 .. Len(al) - 1 /\ j \in 1 .. Len(al) /\ Len(al) \in 1 .. Len(al) /\ j < Len(al)
      BY <2>2, <1>1
    <3>2. CASE j = i
      BY <3>1, <3>2, <2>2
    <3>3. CASE j # i
      <4>1. bs[j] = al[j] /\ (j >= i => j > i)
        BY <3>1, <3>3, <2>2
      <4> QED BY <4>1, <3>1, <3>3
    <3> QED BY <3>2, <3>3
  <2>5. ASSUME NEW k \in 1 .. Len(al), k # i PROVE \E j \in 1 .. Len(bs) : bs[j] = al[k]
    <3>1. CASE k = Len(al)
      <4>1. i \in 1 .. Len(al) - 1 /\ i \in 1 .. Len(bs)
        BY <3>1, <1>1, <2>2, <2>5
      <4> QED BY <3>1, <4>1, <2>2
    <3>2. CASE k # Len(al)
      <4>1. k \in 1 .. Len(al) - 1 /\ k \in 1 .. Len(bs)
        BY <3>2, <1>1, <2>2
      <4> QED BY <4>1, <2>2, <2>5
    <3> QED BY <3>1, <3>2
  <2>6. \A v \in Nat : contain_vpn(a, v) => b <= v /\ v < e
    BY <1>3 DEF contain_vpn
  <2>7. Stays(al, bs, i, b, e)
    BY <2>4, <2>5 DEF Stays
  <2> QED BY <2>6, <2>7 DEF Kept
<1>4. CASE b = a.start_vpn /\ e # a.end_vpn
  <2>1. bs = [al EXCEPT ![i] = From(a, e)]
    BY <1>4 DEF Remaining
  <2>2. PICK c \in Area : /\ c = From(a, e) /\ c.end_vpn = a.end_vpn /\ c.start_vpn = e
                          /\ c.map_type = a.map_type /\ c.permissions = a.permissions
    BY <1>1, <1>4, CutArea
  <2>3. Part(c, a, b, e)
    BY <2>2, <1>1 DEF Part
  <2>4. \A v \in Nat : contain_vpn(a, v) /\ ~(b <= v /\ v < e) => contain_vpn(c, v)
    BY <2>2, <1>1, <1>4 DEF contain_vpn
  <2>5. bs = [al EXCEPT ![i] = c]
    BY <2>1, <2>2
  <2>6. Stays(al, bs, i, b, e) /\ bs \in Seq(Area) /\ Len(bs) = Len(al) /\ bs[i] = c
    BY <2>3, <2>5, <1>2
  <2>7. i \in 1 .. Len(bs)
    BY <2>6
  <2> QED BY <2>2, <2>4, <2>6, <2>7 DEF Kept
<1>5. CASE b # a.start_vpn
  <2>1. PICK c \in Area : /\ c = Below(a, b) /\ c.start_vpn = a.start_vpn /\ c.end_vpn = b
                          /\ c.map_type = a.map_type /\ c.permissions = a.permissions
    BY <1>1, <1>5, CutArea
  <2>2. PICK cs : cs = [al EXCEPT ![i] = c]
    OBVIOUS
  <2>3. Part(c, a, b, e)
    BY <2>1, <1>1 DEF Part
  <2>4. Stays(al, cs, i, b, e) /\ cs \in Seq(Area) /\ Len(cs) = Len(al) /\ cs[i] = c
    BY <2>1, <2>2, <2>3, <1>2
  <2>5. \A v \in Nat : contain_vpn(a, v) /\ v < b => contain_vpn(c, v)
    BY <2>1 DEF contain_vpn
  <2>6. CASE e = a.end_vpn
    <3>1. bs = cs
      BY <2>6, <1>5, <2>1, <2>2 DEF Remaining
    <3>2. \A v \in Nat : contain_vpn(a, v) /\ ~(b <= v /\ v < e) => contain_vpn(c, v)
      BY <2>1, <2>6, <1>1 DEF contain_vpn
    <3>3. i \in 1 .. Len(bs)
      BY <3>1, <2>4
    <3> QED BY <2>1, <2>4, <3>1, <3>2, <3>3 DEF Kept
  <2>7. CASE e # a.end_vpn
    <3>1. PICK d \in Area : /\ d = From(a, e) /\ d.start_vpn = e /\ d.end_vpn = a.end_vpn
                            /\ d.map_type = a.map_type /\ d.permissions = a.permissions
      BY <1>1, <2>7, CutArea
    <3>2. bs = Append(cs, d)
      BY <2>7, <1>5, <2>1, <2>2, <3>1 DEF Remaining
    <3>3. Part(d, a, b, e)
      BY <3>1, <1>1 DEF Part
    <3>4. Len(bs) = Len(cs) + 1 /\ bs[Len(bs)] = d /\ \A j \in 1 .. Len(cs) : bs[j] = cs[j]
      BY <3>2, <2>4, AddedArea
    <3>5. ASSUME NEW j \in 1 .. Len(bs)
          PROVE  \/ \E k \in 1 .. Len(al) : k # i /\ bs[j] = al[k] /\ (j >= i => k > i)
                 \/ Part(bs[j], a, b, e)
      <4>1. j = Len(bs) \/ (j \in 1 .. Len(cs) /\ bs[j] = cs[j])
        BY <3>4, <2>4, <1>1
      <4> QED BY <4>1, <3>3, <3>4, <2>4 DEF Stays
    <3>6. ASSUME NEW k \in 1 .. Len(al), k # i PROVE \E j \in 1 .. Len(bs) : bs[j] = al[k]
      <4>1. PICK j \in 1 .. Len(cs) : cs[j] = al[k]
        BY <3>6, <2>4 DEF Stays
      <4>2. j \in 1 .. Len(bs) /\ bs[j] = al[k]
        BY <4>1, <3>4, <2>4, <1>1
      <4> QED BY <4>2
    <3>7. ASSUME NEW v \in Nat, contain_vpn(a, v), ~(b <= v /\ v < e)
          PROVE  \E j \in 1 .. Len(bs) : /\ contain_vpn(bs[j], v) /\ bs[j].permissions = a.permissions
                                         /\ bs[j].map_type = a.map_type
      <4>1. CASE v < b
        <5>1. contain_vpn(c, v) /\ i \in 1 .. Len(bs) /\ bs[i] = c
          BY <4>1, <2>4, <2>5, <3>4, <3>7, <1>1
        <5> QED BY <5>1, <2>1
      <4>2. CASE e <= v
        <5>1. contain_vpn(d, v) /\ Len(bs) \in 1 .. Len(bs)
          BY <4>2, <2>4, <3>1, <3>4, <3>7, <1>1 DEF contain_vpn
        <5> QED BY <5>1, <3>1, <3>4
      <4> QED BY <4>1, <4>2, <3>7
    <3>8. Stays(al, bs, i, b, e)
      BY <3>5, <3>6 DEF Stays
    <3> QED BY <3>7, <3>8 DEF Kept
  <2> QED BY <2>6, <2>7
<1> QED BY <1>3, <1>4, <1>5

\* What is left grants what it did, outside the range.
LEMMA RemainingGrants ==
    ASSUME NEW al \in Seq(Area), Apart(al), NEW i \in 1 .. Len(al), NEW a \in Area, a = al[i],
           NEW b \in Nat, NEW e \in Nat, a.start_vpn <= b, b < e, e <= a.end_vpn,
           NEW bs \in Seq(Area), bs = Remaining(al, i, b, e)
    PROVE  Grants(bs) = Rest(Grants(al), b, e)
<1>k. Kept(al, bs, i, b, e)
  BY RemainingKept
<1>1. a.start_vpn \in Nat /\ a.end_vpn \in Nat /\ Len(al) \in Nat
  BY AreaParts
<1>2. ASSUME NEW g \in Grants(bs) PROVE g \in Rest(Grants(al), b, e)
  <2>1. PICK j \in 1 .. Len(bs) : bs[j].map_type = "Anonymous" /\ contain_vpn(bs[j], g.vpn)
                                  /\ g.flags = bs[j].permissions
    BY DEF Grants
  <2>2. g \in Granted /\ g.vpn \in Nat
    BY DEF Grants, Granted
  <2>3. CASE \E k \in 1 .. Len(al) : k # i /\ bs[j] = al[k]
    <3>1. PICK k \in 1 .. Len(al) : k # i /\ bs[j] = al[k]
      BY <2>3
    <3>2. g \in Grants(al)
      BY <3>1, <2>1, <2>2 DEF Grants
    <3>3. ~contain_vpn(al[i], g.vpn)
      BY <3>1, <2>1, <2>2, OneArea
    <3>4. ~(b <= g.vpn /\ g.vpn < e)
      BY <3>3, <2>2, <1>1 DEF contain_vpn
    <3> QED BY <3>2, <3>4 DEF Rest
  <2>4. CASE Part(bs[j], al[i], b, e)
    <3>1. bs[j] \in Area
      OBVIOUS
    <3>2. bs[j].start_vpn \in Nat /\ bs[j].end_vpn \in Nat
      BY <3>1, AreaParts
    <3>3. contain_vpn(al[i], g.vpn) /\ ~(b <= g.vpn /\ g.vpn < e)
      BY <2>1, <2>2, <2>4, <3>2, <1>1 DEF Part, contain_vpn
    <3>4. g \in Grants(al)
      BY <3>3, <2>1, <2>2, <2>4 DEF Grants, Part
    <3> QED BY <3>3, <3>4 DEF Rest
  <2> QED BY <2>3, <2>4, <1>k DEF Kept, Stays
<1>3. ASSUME NEW g \in Rest(Grants(al), b, e) PROVE g \in Grants(bs)
  <2>1. g \in Grants(al) /\ ~(b <= g.vpn /\ g.vpn < e)
    BY DEF Rest
  <2>2. PICK k \in 1 .. Len(al) : al[k].map_type = "Anonymous" /\ contain_vpn(al[k], g.vpn)
                                  /\ g.flags = al[k].permissions
    BY <2>1 DEF Grants
  <2>3. g \in Granted /\ g.vpn \in Nat
    BY <2>1 DEF Grants, Granted
  <2>4. PICK j \in 1 .. Len(bs) : bs[j].map_type = "Anonymous" /\ contain_vpn(bs[j], g.vpn)
                                  /\ g.flags = bs[j].permissions
    <3>1. CASE k # i
      BY <3>1, <2>2, <1>k DEF Kept, Stays
    <3>2. CASE k = i
      BY <3>2, <2>1, <2>2, <2>3, <1>k DEF Kept
    <3> QED BY <3>1, <3>2
  <2> QED BY <2>3, <2>4 DEF Grants
<1> QED BY <1>2, <1>3

\* An area that has no page in a range.
Clear(c, sv, ev) == c.end_vpn <= sv \/ ev <= c.start_vpn

\* Same as before outside the range.
SameRest(al, bs, sv, ev) ==
    /\ Rest(Grants(bs), sv, ev) = Rest(Grants(al), sv, ev)
    /\ Rest(Backing(bs), sv, ev) = Rest(Backing(al), sv, ev)

\* One turn of VMSpace::unmap takes nothing outside the range, and leaves none of
\* the areas it has visited inside.
LEMMA UnmapAreaViews ==
    ASSUME NEW s \in State, Apart(s.space.areas), InHalves(s.space.areas),
           NEW i \in 1 .. Len(s.space.areas), NEW sv \in Nat, NEW ev \in Nat, sv < ev,
           NEW out, out = UnmapArea(s, i, sv, ev), out.res = "Ok",
           NEW al, al = s.space.areas, NEW bs, bs = out.space.areas,
           \A j \in 1 .. Len(al) : j > i => Clear(al[j], sv, ev)
    PROVE  SameRest(al, bs, sv, ev) /\ \A j \in 1 .. Len(bs) : j >= i => Clear(bs[j], sv, ev)
<1>a. PICK ar \in Seq(Area) : ar = al /\ i \in 1 .. Len(ar) /\ Apart(ar) /\ InHalves(ar)
  BY StateParts
<1>1. PICK a \in Area : a = ar[i]
  BY <1>a
<1>2. a.start_vpn \in Nat /\ a.end_vpn \in Nat /\ a.start_vpn < a.end_vpn
  BY AreaParts
<1>3. PICK b \in Nat, e \in Nat : /\ b = IF sv <= a.start_vpn THEN a.start_vpn ELSE sv
                                  /\ e = IF a.end_vpn <= ev THEN a.end_vpn ELSE ev
  BY <1>2
<1>r. s.res = "Ok"
  <2>1. s.res # "Ok" => out = s
    BY DEF UnmapArea
  <2> QED BY <2>1
<1>4. CASE a.end_vpn <= sv \/ ev <= a.start_vpn
  <2>1. out = s
    BY <1>4, <1>a, <1>1 DEF UnmapArea
  <2>2. bs = al /\ Clear(al[i], sv, ev) /\ Len(al) \in Nat
    BY <2>1, <1>4, <1>1, <1>a DEF Clear
  <2>3. ASSUME NEW j \in 1 .. Len(bs), j >= i PROVE Clear(bs[j], sv, ev)
    <3>1. j = i \/ j > i
      BY <2>2, <2>3
    <3> QED BY <3>1, <2>2
  <2> QED BY <2>2, <2>3 DEF SameRest
<1>5. CASE ~(a.end_vpn <= sv) /\ ~(ev <= a.start_vpn)
  <2>1. a.start_vpn <= b /\ b < e /\ e <= a.end_vpn /\ sv <= b /\ e <= ev
    BY <1>2, <1>3, <1>5
  <2>2. bs = Remaining(ar, i, b, e)
    <3>u. PICK u : u = unmap(s.phys, s.space.root_pgt, b, e)
      OBVIOUS
    <3>g. PICK gone : gone = DropPages(u.phys, Only(a.pages, b .. e - 1))
      OBVIOUS
    <3>1. out = IF u.res # "Ok" THEN [s EXCEPT !.res = u.res]
                ELSE VMResult(gone, [s.space EXCEPT !.areas = Remaining(@, i, b, e)], "Ok")
      BY <1>a, <1>r, <1>1, <1>3, <1>5, <3>u, <3>g, Zenon DEF UnmapArea
    <3>p. PICK ph \in Phys, rt \in Root, res \in Res :
             s = [phys |-> ph, space |-> [root_pgt |-> rt, areas |-> ar], res |-> res]
      BY <1>a, StateParts DEF VMResult
    <3>2. u.res = "Ok"
      <4>1. ASSUME u.res # "Ok" PROVE FALSE
        <5>1. out = [phys |-> ph, space |-> [root_pgt |-> rt, areas |-> ar], res |-> u.res]
          BY <3>1, <3>p, <4>1
        <5> QED BY <5>1, <4>1
      <4> QED BY <4>1
    <3>3. out = VMResult(gone, [s.space EXCEPT !.areas = Remaining(@, i, b, e)], "Ok")
      BY <3>1, <3>2
    <3>4. [s.space EXCEPT !.areas = Remaining(@, i, b, e)] = [root_pgt |-> rt, areas |-> Remaining(ar, i, b, e)]
      <4>1. s.space = [root_pgt |-> rt, areas |-> ar]
        BY <3>p
      <4>2. PICK sp, rs : sp = s.space /\ rs = Remaining(ar, i, b, e)
        OBVIOUS
      <4>3. [sp EXCEPT !.areas = Remaining(@, i, b, e)] = [sp EXCEPT !.areas = rs]
        BY <4>1, <4>2
      <4>4. [sp EXCEPT !.areas = rs] = [root_pgt |-> rt, areas |-> rs]
        BY <4>1, <4>2
      <4> QED BY <4>2, <4>3, <4>4
    <3> QED BY <3>3, <3>4 DEF VMResult
  <2>3. bs \in Seq(Area)
    BY <2>1, <2>2, <1>1, <1>a, RemainingType
  <2>4. Grants(bs) = Rest(Grants(ar), b, e) /\ Backing(bs) = Rest(Backing(ar), b, e)
    BY <2>1, <2>2, <2>3, <1>1, <1>a, RemainingGrants, RemainingBacks
  <2>5. \A c : (sv <= c.vpn /\ c.vpn < ev) \/ c.vpn \notin Nat \/ ~(b <= c.vpn /\ c.vpn < e)
    BY <2>1
  <2>6. /\ \A g \in Grants(ar) : g.vpn \in Nat
        /\ \A g \in Backing(ar) : g.vpn \in Nat
    BY DEF Grants, Granted, Backing, Backed
  <2>7. SameRest(ar, bs, sv, ev)
    BY <2>4, <2>5, <2>6 DEF SameRest, Rest
  <2>k. Kept(ar, bs, i, b, e)
    BY <2>1, <2>2, <1>1, <1>a, RemainingKept
  <2>8. ASSUME NEW j \in 1 .. Len(bs), j >= i PROVE Clear(bs[j], sv, ev)
    <3>1. CASE \E k \in 1 .. Len(ar) : k # i /\ bs[j] = ar[k] /\ k > i
      BY <3>1, <1>a
    <3>2. CASE Part(bs[j], ar[i], b, e)
      <4>1. bs[j] \in Area
        BY <2>3
      <4>2. PICK c \in Area : c = bs[j] /\ c.start_vpn \in Nat /\ c.end_vpn \in Nat
        BY <4>1, AreaParts
      <4>3. a.start_vpn <= c.start_vpn /\ c.end_vpn <= a.end_vpn /\ (c.end_vpn <= b \/ e <= c.start_vpn)
        BY <3>2, <4>2, <1>1 DEF Part
      <4>4. c.start_vpn < c.end_vpn
        BY AreaParts
      <4>5. c.end_vpn <= sv \/ ev <= c.start_vpn
        <5>1. (b = a.start_vpn \/ b = sv) /\ (e = a.end_vpn \/ e = ev)
          BY <1>3
        <5>2. CASE c.end_vpn <= b
          <6>1. b # a.start_vpn
            BY <5>2, <4>2, <4>3, <4>4, <1>2
          <6> QED BY <5>1, <5>2, <6>1
        <5>3. CASE e <= c.start_vpn
          <6>1. e # a.end_vpn
            BY <5>3, <4>2, <4>3, <4>4, <1>2
          <6> QED BY <5>1, <5>3, <6>1
        <5> QED BY <4>3, <5>2, <5>3
      <4> QED BY <4>2, <4>5 DEF Clear
    <3> QED BY <2>k, <2>8, <3>1, <3>2 DEF Kept, Stays
  <2> QED BY <2>7, <2>8, <1>a
<1> QED BY <1>4, <1>5

\* VMSpace::unmap takes the range away, and nothing else.
LEMMA UnmapViews ==
    ASSUME NEW ph \in Phys, NEW sp \in Space, Apart(sp.areas), NEW t \in Tasks, Fits(ph, sp, t),
           NEW sv \in Nat, NEW ev \in Nat, sv < ev, ev <= USER_END_VPN,
           NEW out, out = unmap_range(ph, sp, sv, ev)
    PROVE  /\ Grants(out.space.areas) = Rest(Grants(sp.areas), sv, ev)
           /\ Backing(out.space.areas) = Rest(Backing(sp.areas), sv, ev)
<1>n. PICK N \in Nat : N = Len(sp.areas)
  BY StateParts
<1>g. PICK g : UnmapRun(g, ph, sp, sv, ev, out)
  BY UnmapRangeType
<1> DEFINE Ok(n, u) == /\ u.res = "Ok" /\ Fits(u.phys, u.space, t)
                       /\ SameRest(sp.areas, u.space.areas, sv, ev)
                       /\ \A j \in 1 .. Len(u.space.areas) : j > N - n => Clear(u.space.areas[j], sv, ev)
<1>0. PICK E : E = [n \in 0 .. N |-> {u \in {g[n]} : Ok(n, u)}]
  OBVIOUS
<1>1. g[0] \in E[0]
  <2>1. g[0].phys = ph /\ g[0].space = sp /\ g[0].res = "Ok"
    BY <1>g DEF UnmapRun, VMResult
  <2>2. Ok(0, g[0])
    BY <2>1, <1>n DEF SameRest
  <2> HIDE DEF Ok
  <2> QED BY <2>2, <1>0
<1>2. ASSUME NEW n \in 0 .. N - 1, g[n] \in E[n] PROVE g[n + 1] \in E[n + 1]
  <2>1. n \in 0 .. N /\ n + 1 \in 0 .. N
    OBVIOUS
  <2>u. PICK u, w : u = g[n] /\ w = g[n + 1]
    OBVIOUS
  <2>2. Ok(n, u)
    <3> HIDE DEF Ok
    <3> QED BY <1>0, <1>2, <2>1, <2>u
  <2>3. /\ w = UnmapArea(u, N + 1 - (n + 1), sv, ev)
        /\ u \in State /\ Apart(u.space.areas) /\ Len(u.space.areas) >= N - n
    BY <1>g, <1>n, <2>1, <2>u DEF UnmapRun
  <2>l. Len(u.space.areas) \in Nat
    <3>1. u.space.areas \in Seq(Area)
      BY <2>3, StateParts
    <3> QED BY <3>1
  <2>4. PICK i \in 1 .. Len(u.space.areas) : i = N + 1 - (n + 1) /\ i = N - n /\ i > N - (n + 1)
    BY <2>3, <2>l, <2>1
  <2>5. w.res = "Ok" /\ Fits(w.phys, w.space, t)
    <3>1. w = UnmapArea(u, i, sv, ev) /\ u.res = "Ok" /\ Fits(u.phys, u.space, t)
      BY <2>2, <2>3, <2>4
    <3> QED BY <3>1, <2>3, UnmapAreaFits DEF Changes
  <2>6. PICK al, bs : al = u.space.areas /\ bs = w.space.areas
    OBVIOUS
  <2>7. SameRest(al, bs, sv, ev) /\ \A j \in 1 .. Len(bs) : j >= i => Clear(bs[j], sv, ev)
    <3>1. InHalves(u.space.areas) /\ w = UnmapArea(u, i, sv, ev)
      BY <2>2, <2>3, <2>4 DEF Fits
    <3>2. \A j \in 1 .. Len(al) : j > i => Clear(al[j], sv, ev)
      BY <2>2, <2>4, <2>6
    <3> QED BY <3>1, <3>2, <2>3, <2>5, <2>6, UnmapAreaViews
  <2>8. \A j \in 1 .. Len(bs) : j > N - (n + 1) => j >= i
    BY <2>4, <2>1
  <2>9. Ok(n + 1, w)
    <3>1. SameRest(sp.areas, bs, sv, ev)
      BY <2>2, <2>6, <2>7 DEF SameRest
    <3> QED BY <3>1, <2>5, <2>6, <2>7, <2>8
  <2> HIDE DEF Ok
  <2> QED BY <2>9, <1>0, <2>1, <2>u
<1>3. \A n \in 0 .. N : g[n] \in E[n]
  BY <1>1, <1>2, LoopStays
<1>4. Ok(N, g[N])
  <2> HIDE DEF Ok
  <2> QED BY <1>3, <1>0
<1>5. out = g[N] /\ out \in State
  BY <1>g, <1>n DEF UnmapRun
<1>6. PICK bs \in Seq(Area) : bs = out.space.areas
  BY <1>5, StateParts
<1>7. SameRest(sp.areas, bs, sv, ev) /\ \A j \in 1 .. Len(bs) : Clear(bs[j], sv, ev)
  BY <1>4, <1>5, <1>6
<1>8. ASSUME NEW j \in 1 .. Len(bs), NEW v \in Nat, contain_vpn(bs[j], v) PROVE ~(sv <= v /\ v < ev)
  <2>1. bs[j] \in Area
    BY <1>6
  <2>2. bs[j].start_vpn \in Nat /\ bs[j].end_vpn \in Nat
    BY <2>1, AreaParts
  <2> QED BY <2>2, <1>7, <1>8 DEF Clear, contain_vpn
<1>9. Rest(Grants(bs), sv, ev) = Grants(bs)
  <2>1. ASSUME NEW h \in Grants(bs) PROVE ~(sv <= h.vpn /\ h.vpn < ev)
    <3>1. h.vpn \in Nat /\ \E j \in 1 .. Len(bs) : contain_vpn(bs[j], h.vpn)
      BY DEF Grants, Granted
    <3> QED BY <3>1, <1>8
  <2> QED BY <2>1 DEF Rest
<1>10. Rest(Backing(bs), sv, ev) = Backing(bs)
  <2>1. ASSUME NEW h \in Backing(bs) PROVE ~(sv <= h.vpn /\ h.vpn < ev)
    <3>1. PICK j \in 1 .. Len(bs) : h \in PagesIn(bs[j])
      BY DEF Backing
    <3>2. bs[j] \in Area
      BY <1>6
    <3>3. bs[j].start_vpn <= h.vpn /\ h.vpn < bs[j].end_vpn /\ h.vpn \in Nat
      BY <3>1, <3>2, PagesInFacts
    <3> QED BY <3>3, <1>8 DEF contain_vpn
  <2> QED BY <2>1 DEF Rest
<1> QED BY <1>6, <1>7, <1>9, <1>10 DEF SameRest

-----------------------------------------------------------------------------
(* Addresses and pages.                                                    *)

\* The page of a byte, by comparison with the bounds of the page.
LEMMA PageBounds ==
    ASSUME NEW x \in Nat, NEW v \in Nat, NEW d \in Nat, d # 0
    PROVE  /\ x \div d <= v <=> x < (v + 1) * d
           /\ v <= x \div d <=> v * d <= x
<1>1. PICK q \in Nat, r \in Nat : q = x \div d /\ r < d /\ x = q * d + r
  BY DivMod
<1>2. (v + 1) * d = v * d + d /\ v * d \in Int /\ q * d \in Int
  OBVIOUS
<1>3. ASSUME q <= v PROVE q * d <= v * d
  <2>1. CASE q = v
    BY <2>1, <1>2
  <2>2. CASE q < v
    <3>1. q * d + d <= v * d
      BY <2>2, MulStep
    <3> QED BY <3>1, <1>2
  <2> QED BY <1>3, <2>1, <2>2
<1>4. ASSUME v < q PROVE v * d + d <= q * d
  BY <1>4, MulStep
<1> QED BY <1>1, <1>2, <1>3, <1>4

\* The pages that hold a byte of a range are those from the page of its start to
\* the page of its rounded end.
LEMMA PagesOfRange ==
    ASSUME NEW addr \in Nat, NEW len \in Nat, NEW v \in Nat,
           NEW s, s = VpnFromVa(addr), NEW e, e = VpnFromVa(EndVa(addr, len))
    PROVE  (s <= v /\ v < e) <=> (v * PAGE_SIZE_BYTES < addr + len /\ addr < (v + 1) * PAGE_SIZE_BYTES)
<1>1. PICK d \in Nat : d = PAGE_SIZE_BYTES /\ d # 0
  BY UserEnd
<1>2. PICK x \in Nat : x = addr + len /\ EndVa(addr, len) = x + d - 1 /\ x + d - 1 \in Nat
  BY <1>1 DEF EndVa
<1>3. s = addr \div d /\ e = (x + d - 1) \div d /\ s \in Nat /\ e \in Nat
  BY <1>1, <1>2, DivMod DEF VpnFromVa
<1>4. s <= v <=> addr < (v + 1) * d
  BY <1>1, <1>3, PageBounds
<1>5. PICK w \in Nat : w = v + 1 /\ w * d = v * d + d /\ v * d \in Int
  BY <1>1
<1>6. w <= e <=> w * d <= x + d - 1
  BY <1>1, <1>2, <1>3, <1>5, PageBounds
<1>7. v < e <=> v * d < x
  BY <1>1, <1>2, <1>3, <1>5, <1>6
<1> QED BY <1>1, <1>2, <1>4, <1>7

\* The pages from s to e.
Between(s, e) == {v \in UserVpns : s <= v /\ v < e}

\* The abstract address space counts pages as VMSpace does.
LEMMA CoveringIs ==
    ASSUME NEW addr \in Nat, NEW len \in Nat,
           NEW s, s = VpnFromVa(addr), NEW e, e = VpnFromVa(EndVa(addr, len))
    PROVE  /\ Abstract!Covering(addr, len) = Between(s, e)
           /\ len = 0 /\ addr % PAGE_SIZE_BYTES # 0 => Abstract!Covering(addr, 1) \subseteq Between(s, e)
<1>1. Abstract!Vpns = UserVpns
  BY UserRange DEF Abstract!Vpns, UserVpns, VpnFromVa
<1>2. \A v \in UserVpns : v \in Nat
  BY UserLow
<1>3. Abstract!Covering(addr, len) = Between(s, e)
  BY <1>1, <1>2, PagesOfRange DEF Abstract!Covering, Between
<1>4. ASSUME len = 0, addr % PAGE_SIZE_BYTES # 0, NEW v \in Abstract!Covering(addr, 1)
      PROVE  v \in Between(s, e)
  <2>1. PICK d \in Nat : d = PAGE_SIZE_BYTES /\ d # 0
    BY UserEnd
  <2>2. v \in UserVpns /\ v \in Nat /\ v * d < addr + 1 /\ addr < (v + 1) * d
    BY <2>1, <1>1, <1>2, <1>4 DEF Abstract!Covering
  <2>3. v * d # addr
    <3>1. ASSUME v * d = addr PROVE FALSE
      <4>1. (v * d) % d = 0
        BY <2>1, <2>2
      <4> QED BY <4>1, <3>1, <2>1, <1>4
    <3> QED BY <3>1
  <2>4. v * d < addr + len /\ v * d \in Int
    BY <2>1, <2>2, <2>3, <1>4
  <2>5. s <= v /\ v < e
    BY <2>1, <2>2, <2>4, PagesOfRange
  <2> QED BY <2>2, <2>5 DEF Between
<1> QED BY <1>3, <1>4

\* check_u_va_range accepts what lies in user space, but for the empty range at 0.
LEMMA RangeIs ==
    ASSUME NEW addr \in 0 .. USIZE - 1, NEW len \in 0 .. USIZE - 1
    PROVE  check_u_va_range(addr, len) <=> Abstract!InUserSpace(addr, len) /\ addr + len > 0
<1>1. PICK u \in Nat, n \in Nat : u = USIZE /\ n = USER_SPACE_END /\ n < u
  BY UserEnd, VMAssumption
<1>2. PICK x \in Nat : x = addr + len
  BY <1>1
<1>3. check_u_va_range(addr, len) <=> addr < n /\ x < u /\ (x - 1) % u < n
  BY <1>1, <1>2 DEF check_u_va_range, check_u_va
<1>4. Abstract!InUserSpace(addr, len) <=> addr < n /\ x <= n
  BY <1>1, <1>2 DEF Abstract!InUserSpace
<1>5. CASE x = 0
  <2>1. (0 - 1) % u = u - 1
    BY <1>1
  <2> QED BY <2>1, <1>1, <1>2, <1>3, <1>5
<1>6. CASE x # 0 /\ x < u
  <2>1. (x - 1) % u = x - 1
    BY <1>1, <1>6
  <2> QED BY <2>1, <1>1, <1>2, <1>3, <1>4, <1>6
<1>7. CASE x >= u
  BY <1>1, <1>2, <1>3, <1>4, <1>7
<1> QED BY <1>1, <1>2, <1>5, <1>6, <1>7

-----------------------------------------------------------------------------
(* What the operations do to grants and to resident pages.                 *)

\* The user pages that are backed.
Present(B) == {v \in UserVpns : \E b \in B : b.vpn = v}

\* An area with a page below the kernel half is one of user space.
LEMMA LowArea ==
    ASSUME NEW ar \in Seq(Area), InHalves(ar), NEW i \in 1 .. Len(ar), NEW v \in Nat,
           contain_vpn(ar[i], v), v <= USER_END_VPN
    PROVE  ar[i].map_type = "Anonymous" /\ v \in UserVpns
<1>1. PICK a \in Area : a = ar[i]
  OBVIOUS
<1>2. a.start_vpn \in Nat /\ a.end_vpn \in Nat /\ a.start_vpn <= v /\ v < a.end_vpn
  BY <1>1, AreaParts DEF contain_vpn
<1>3. IF a.map_type = "Anonymous" THEN a.end_vpn <= USER_END_VPN
      ELSE KERNEL_ROOT * ROOT_SPAN <= a.start_vpn
  BY <1>1 DEF InHalves, InHalf
<1>4. a.map_type = "Anonymous"
  BY <1>2, <1>3, UserLow
<1>5. v \in UserVpns
  BY <1>2, <1>3, <1>4, UserLow DEF UserVpns
<1> QED BY <1>1, <1>4, <1>5

\* A page below the kernel half that is backed is granted, too.
LEMMA BackedGrant ==
    ASSUME NEW ar \in Seq(Area), InHalves(ar), NEW b \in Backing(ar), b.vpn <= USER_END_VPN
    PROVE  b.vpn \in UserVpns /\ [vpn |-> b.vpn, flags |-> b.flags] \in Grants(ar)
<1>1. PICK i \in 1 .. Len(ar) : b \in PagesIn(ar[i])
  BY DEF Backing
<1>2. PICK a \in Area : a = ar[i]
  OBVIOUS
<1>3. a.start_vpn <= b.vpn /\ b.vpn < a.end_vpn /\ b.vpn \in Nat
  BY <1>1, <1>2, PagesInFacts
<1>4. b.flags = a.permissions
  BY <1>1, <1>2 DEF PagesIn
<1>5. contain_vpn(ar[i], b.vpn)
  BY <1>2, <1>3 DEF contain_vpn
<1>6. ar[i].map_type = "Anonymous" /\ b.vpn \in UserVpns
  BY <1>3, <1>5, LowArea
<1>7. [vpn |-> b.vpn, flags |-> ar[i].permissions] \in Grants(ar)
  BY <1>3, <1>5, <1>6, GrantOf
<1> QED BY <1>2, <1>4, <1>6, <1>7

\* The hardware finds the pages that are backed.
LEMMA ResidentIs ==
    ASSUME NONE \notin PTE, NEW ph, NEW sp, NEW t, Fits(ph, sp, t)
    PROVE  {v \in UserVpns : Translate(ph.mem, sp.root_pgt.ppn, v) # NONE} = Present(Backing(sp.areas))
<1>1. PICK al, m, rt, B : /\ al = ph.alloc /\ m = ph.mem /\ rt = sp.root_pgt
                          /\ B = Backing(sp.areas) /\ Held(al, m, rt, B, t)
  BY DEF Fits
<1>2. B \subseteq Backed
  BY <1>1 DEF Held, Owns
<1>3. ASSUME NEW v \in UserVpns PROVE Translate(m, rt.ppn, v) # NONE <=> \E b \in B : b.vpn = v
  <2>1. v \in Nat /\ v < KERNEL_ROOT * ROOT_SPAN
    BY UserLow
  <2>2. PICK e : e = Translate(m, rt.ppn, v)
    OBVIOUS
  <2>3. (\A c \in B : c.vpn = v => e = Entry(c)) /\ ((\A c \in B : c.vpn # v) => e = NONE)
    BY <1>1, <2>1, <2>2, EntryAt
  <2>4. \A c \in B : Entry(c) \in PTE
    BY <1>2, Layout DEF Entry, PTE, Backed, Flags
  <2> QED BY <2>2, <2>3, <2>4
<1> QED BY <1>1, <1>3 DEF Present

\* Areas that are the same but for their pages grant the same.
LEMMA SameGrants ==
    ASSUME NEW ar \in Seq(Area), NEW br \in Seq(Area), SameRanges(ar, br),
           \A i \in 1 .. Len(ar) : br[i].map_type = ar[i].map_type /\ br[i].permissions = ar[i].permissions
    PROVE  Grants(br) = Grants(ar)
<1>1. Len(ar) = Len(br) /\ \A i \in 1 .. Len(ar) : \A v : contain_vpn(ar[i], v) <=> contain_vpn(br[i], v)
  BY DEF SameRanges, contain_vpn
<1> QED BY <1>1 DEF Grants

\* One page more.
LEMMA PresentMore ==
    ASSUME NEW B, NEW b, b.vpn \in UserVpns
    PROVE  Present(B \cup {b}) = Present(B) \cup {b.vpn}
BY DEF Present

\* VMSpace::map changes no grant; it backs the page when its area permits the
\* access, and otherwise nothing.
LEMMA MapViews ==
    ASSUME NEW ph \in Phys, NEW sp \in Space, Apart(sp.areas), NEW t \in Tasks, Fits(ph, sp, t),
           NEW v \in UserVpns, NEW need, Missing(sp.areas, v, need),
           NEW out, out = map(ph, sp, v, need), NEW br, br = out.space.areas
    PROVE  /\ Grants(br) = Grants(sp.areas)
           /\ out.res = "Ok" => /\ \E g \in Grants(sp.areas) : g.vpn = v /\ need \subseteq g.flags
                                /\ Present(Backing(br)) = Present(Backing(sp.areas)) \cup {v}
           /\ out.res # "Ok" => Backing(br) = Backing(sp.areas)
<1>1. PICK ar \in Seq(Area) : ar = sp.areas /\ InHalves(ar) /\ Apart(ar) /\ Missing(ar, v, need)
  BY StateParts DEF Fits
<1>2. v \in Nat
  BY UserLow
<1>3. PICK i : i = FindArea(ar, v)
  OBVIOUS
<1>4. PICK z : z = alloc_zeroed_page(ph)
  OBVIOUS
<1>5. PICK m : m = map_create(DropPages(z.phys, Only(ar[i].pages, {v})), sp.root_pgt, v, z.page,
                              to_pte_flags(ar[i].permissions))
  OBVIOUS
<1>6. /\ i = 0 => out = VMResult(ph, sp, "NoAreaContainVpn")
      /\ i # 0 /\ ~(need \subseteq ar[i].permissions) => out = VMResult(ph, sp, "PermissionDenied")
      /\ i # 0 /\ need \subseteq ar[i].permissions /\ ar[i].map_type # "Anonymous" =>
            out = VMResult(ph, sp, "Panic")
      /\ i # 0 /\ need \subseteq ar[i].permissions /\ ar[i].map_type = "Anonymous" /\ z.page = NONE =>
            out = VMResult(ph, sp, "AcquirePageFailed")
      /\ i # 0 /\ need \subseteq ar[i].permissions /\ ar[i].map_type = "Anonymous" /\ z.page # NONE =>
            Tries(out, m, sp, i, v, z.page)
  BY <1>1, <1>3, <1>4, <1>5, Zenon DEF map, AnonymousFrame, Tries
<1>7. CASE \E res : out = VMResult(ph, sp, res) /\ res # "Ok"
  <2>1. out.res # "Ok" /\ br = ar
    BY <1>1, <1>7 DEF VMResult
  <2> QED BY <2>1, <1>1
<1>8. CASE /\ i # 0 /\ need \subseteq ar[i].permissions /\ ar[i].map_type = "Anonymous" /\ z.page # NONE
           /\ Tries(out, m, sp, i, v, z.page)
  <2>1. i \in 1 .. Len(ar) /\ contain_vpn(ar[i], v)
    BY <1>1, <1>2, <1>3, <1>8, FindAreaType
  <2>2. PICK a \in Area : a = ar[i]
    BY <2>1
  <2>3. v \notin DOMAIN a.pages
    <3>1. ASSUME v \in DOMAIN a.pages PROVE FALSE
      <4>1. PageOf(a, v) \in PagesIn(a)
        BY <3>1, PagesInFacts
      <4>2. PageOf(a, v) \in Backing(ar)
        BY <4>1, <2>1, <2>2 DEF Backing, PagesIn
      <4>3. PageOf(a, v).vpn = v /\ PageOf(a, v).flags = a.permissions
        BY DEF PageOf
      <4> QED BY <4>2, <4>3, <1>1, <1>8, <2>2 DEF Missing
    <3> QED BY <3>1
  <2>4. z.page \in PPN
    BY <1>4, <1>8, ZeroedType
  <2>5. CASE m.res = "Ok"
    <3>1. out = VMResult(m.phys, [root_pgt |-> m.root,
                                  areas |-> [sp.areas EXCEPT ![i].pages = Insert(@, v, z.page)]], "Ok")
      BY <1>8, <2>5 DEF Tries
    <3>2. out.res = "Ok" /\ Put(ar, br, i, v, z.page)
      BY <3>1, <1>1 DEF VMResult, Put
    <3>3. ar[i].start_vpn <= v /\ v < ar[i].end_vpn /\ v \notin DOMAIN ar[i].pages
      BY <2>1, <2>2, <2>3 DEF contain_vpn
    <3>4. PICK b : b = Page(v, z.page, ar[i].permissions)
      OBVIOUS
    <3>5. /\ br \in Seq(Area) /\ SameRanges(ar, br) /\ Inserted(ar, br, i, v, z.page)
          /\ br[i].map_type = ar[i].map_type /\ Backing(br) = Backing(ar) \cup {b}
      BY <3>2, <3>3, <3>4, <2>1, <2>4, <1>2, PageInserted
    <3>6. \A j \in 1 .. Len(ar) : br[j].map_type = ar[j].map_type /\ br[j].permissions = ar[j].permissions
      BY <3>5 DEF Inserted, SameBut
    <3>7. Grants(br) = Grants(ar)
      BY <3>5, <3>6, SameGrants
    <3>8. b.vpn = v
      BY <3>4 DEF Page
    <3>9. Present(Backing(br)) = Present(Backing(ar)) \cup {v}
      BY <3>5, <3>8, PresentMore
    <3>10. [vpn |-> v, flags |-> ar[i].permissions] \in Grants(ar)
      BY <2>1, <1>2, <1>8, GrantOf
    <3>11. \E g \in Grants(ar) : g.vpn = v /\ need \subseteq g.flags
      BY <3>10, <1>8
    <3> QED BY <3>2, <3>7, <3>9, <3>11, <1>1
  <2>6. CASE m.res # "Ok"
    <3>1. out = MapFailed(m, sp, i, v, z.page)
      BY <1>8, <2>6 DEF Tries
    <3>2. out.res = m.res /\ br = [ar EXCEPT ![i].pages = Only(@, DOMAIN @ \ {v})]
      BY <3>1, <1>1 DEF MapFailed, VMResult
    <3>3. br = ar
      BY <3>2, <2>1, <2>2, <2>3, NothingTaken
    <3> QED BY <3>2, <3>3, <2>6, <1>1
  <2> QED BY <2>5, <2>6
<1> QED BY <1>6, <1>7, <1>8

\* What is granted from s to e with the permissions f.
Granting(s, e, f) == {g \in Granted : s <= g.vpn /\ g.vpn < e /\ g.flags = f}

\* The area is added, and grants the range, when no page of it is granted.
AreaAdded(out, sp, s, e, f) ==
    /\ out.res = "Ok" <=> s < e /\ \A g \in Grants(sp.areas) : ~(s <= g.vpn /\ g.vpn < e)
    /\ out.res = "Ok" => /\ Grants(out.space.areas) = Grants(sp.areas) \cup Granting(s, e, f)
                         /\ Backing(out.space.areas) = Backing(sp.areas)
    /\ out.res # "Ok" => out.space = sp

\* add_new_area grants a range of which nothing is granted, or nothing.
LEMMA AddNewAreaViews ==
    ASSUME NEW ph, NEW sp \in Space, Apart(sp.areas), NEW t, Fits(ph, sp, t),
           NEW s \in Nat, NEW e \in Nat, e <= USER_END_VPN, NEW f \in Flags,
           NEW out, out = add_new_area(sp, s, e, "Anonymous", f)
    PROVE  AreaAdded(out, sp, s, e, f)
<1>g. PICK G : G = Grants(sp.areas)
  OBVIOUS
<1>1. PICK ar \in Seq(Area) : ar = sp.areas /\ InHalves(ar)
  BY StateParts DEF Fits
<1> DEFINE Free2 == \A i \in 1 .. Len(ar) : ~is_overlapping(ar[i], s, e)
<1>2. f \subseteq ALL_PERMISSION_FLAGS
  BY DEF Flags, ALL_PERMISSION_FLAGS
<1>3. /\ e <= s => out = [space |-> sp, res |-> "EmptyArea"]
      /\ ~(e <= s) /\ Free2 => out = [space |-> [sp EXCEPT !.areas = Append(@, VMArea(s, e, "Anonymous", f))],
                                  res |-> "Ok"]
      /\ ~(e <= s) /\ ~Free2 => out = [space |-> sp, res |-> "AreaOverlapping"]
  <2>1. DOMAIN sp.areas = 1 .. Len(ar)
    BY <1>1
  <2> QED BY <1>1, <1>2, <2>1, Zenon DEF add_new_area
<1>4. ASSUME s < e PROVE Free2 <=> \A g \in G : ~(s <= g.vpn /\ g.vpn < e)
  <2>1. ASSUME Free2, NEW g \in G, s <= g.vpn, g.vpn < e PROVE FALSE
    <3>1. PICK i \in 1 .. Len(ar) : contain_vpn(ar[i], g.vpn)
      BY <1>g, <1>1, <2>1 DEF Grants
    <3>2. g.vpn \in Nat
      BY <1>g, <2>1 DEF Grants, Granted
    <3>3. ar[i].start_vpn \in Nat /\ ar[i].end_vpn \in Nat
      BY <3>1, AreaParts
    <3> QED BY <2>1, <3>1, <3>2, <3>3 DEF contain_vpn, is_overlapping
  <2>2. ASSUME NEW i \in 1 .. Len(ar), is_overlapping(ar[i], s, e)
        PROVE  \E g \in G : s <= g.vpn /\ g.vpn < e
    <3>1. PICK a \in Area : a = ar[i] /\ a.start_vpn \in Nat /\ a.end_vpn \in Nat /\ a.start_vpn < a.end_vpn
      BY AreaParts
    <3>2. s < a.end_vpn /\ a.start_vpn < e
      BY <2>2, <3>1 DEF is_overlapping
    <3>3. PICK v \in Nat : s <= v /\ v < e /\ a.start_vpn <= v /\ v < a.end_vpn
      <4>1. CASE s <= a.start_vpn
        BY <4>1, <3>1, <3>2
      <4>2. CASE ~(s <= a.start_vpn)
        BY <4>2, <1>4, <3>1, <3>2
      <4> QED BY <4>1, <4>2
    <3>4. contain_vpn(ar[i], v) /\ v <= USER_END_VPN
      BY <3>1, <3>3, UserLow DEF contain_vpn
    <3>5. ar[i].map_type = "Anonymous"
      BY <3>4, <1>1, LowArea
    <3>6. [vpn |-> v, flags |-> ar[i].permissions] \in Grants(ar)
      BY <3>4, <3>5, GrantOf
    <3> QED BY <3>3, <3>6, <1>g, <1>1
  <2> QED BY <2>1, <2>2
<1>5. ASSUME s < e, Free2
      PROVE  /\ Grants(out.space.areas) = G \cup Granting(s, e, f)
             /\ Backing(out.space.areas) = Backing(sp.areas)
  <2>1. PICK x \in Area : /\ x = VMArea(s, e, "Anonymous", f) /\ x.start_vpn = s /\ x.end_vpn = e
                          /\ x.permissions = f /\ x.map_type = "Anonymous" /\ DOMAIN x.pages = {}
    BY <1>5, NewAreaType
  <2>2. PICK br : br = out.space.areas /\ br = Append(ar, x)
    <3>1. out = [space |-> [sp EXCEPT !.areas = Append(@, VMArea(s, e, "Anonymous", f))], res |-> "Ok"]
      BY <1>3, <1>5
    <3>2. sp = [root_pgt |-> sp.root_pgt, areas |-> sp.areas]
      BY StateParts
    <3> QED BY <3>1, <3>2, <2>1, <1>1
  <2>3. Backing(br) = Backing(ar)
    BY <2>1, <2>2, AreaFits
  <2>4. /\ br \in Seq(Area) /\ Len(br) = Len(ar) + 1 /\ br[Len(br)] = x
        /\ \A i \in 1 .. Len(ar) : br[i] = ar[i]
    BY <1>1, <2>1, <2>2, AddedArea
  <2>5. ASSUME NEW g \in Granted PROVE g \in Grants(br) <=> g \in Grants(ar) \/ g \in Granting(s, e, f)
    <3>1. contain_vpn(x, g.vpn) <=> s <= g.vpn /\ g.vpn < e
      BY <2>1 DEF contain_vpn
    <3>2. \A i : i \in 1 .. Len(br) <=> i \in 1 .. Len(ar) \/ i = Len(br)
      BY <2>4
    <3>3. g \in Granting(s, e, f) <=> contain_vpn(x, g.vpn) /\ g.flags = f
      BY <3>1 DEF Granting
    <3> QED BY <3>2, <3>3, <2>1, <2>4 DEF Grants
  <2>6. Grants(br) = Grants(ar) \cup Granting(s, e, f)
    BY <2>5 DEF Grants, Granting
  <2> QED BY <2>2, <2>3, <2>6, <1>g, <1>1
<1>6. /\ out.res = "Ok" <=> s < e /\ Free2
      /\ out.res # "Ok" => out.space = sp
  BY <1>3
<1> HIDE DEF Free2
<1>7. /\ out.res = "Ok" <=> s < e /\ \A g \in G : ~(s <= g.vpn /\ g.vpn < e)
      /\ out.res = "Ok" => /\ Grants(out.space.areas) = G \cup Granting(s, e, f)
                           /\ Backing(out.space.areas) = Backing(sp.areas)
      /\ out.res # "Ok" => out.space = sp
  BY <1>4, <1>5, <1>6
<1> QED BY <1>7, <1>g DEF AreaAdded

\* The pages of the stack, and of a segment.
LEMMA StackVpnsAre == StackVpns = Between(StackStart, USER_END_VPN)
<1>1. PICK d \in Nat, n \in Nat, k \in Nat, x \in Nat :
         /\ d = PAGE_SIZE_BYTES /\ d # 0 /\ n = USER_END_VPN /\ k = USER_STACK_MAX_SIZE_BYTES
         /\ USER_SPACE_END = n * d /\ k % d = 0 /\ k <= n * d /\ x = USER_SPACE_END - k
  BY UserEnd, VMAssumption
<1>2. PICK j \in Nat : k = j * d
  <2>1. k = (k \div d) * d + (k % d) /\ k \div d \in Nat
    BY <1>1, DivMod
  <2> QED BY <2>1, <1>1
<1>3. j <= n
  <2>1. ASSUME n < j PROVE FALSE
    <3>1. n * d + d <= j * d /\ n * d \in Int
      BY <2>1, <1>1, MulStep
    <3> QED BY <3>1, <1>1, <1>2
  <2> QED BY <2>1
<1>4. PICK s \in Nat : s = n - j
  BY <1>3
<1>5. x = s * d
  BY <1>1, <1>2, <1>4
<1>6. StackStart = s
  <2>1. x \div d = s
    BY <1>1, <1>5, PageDiv
  <2> QED BY <2>1, <1>1 DEF StackStart, VpnFromVa
<1>7. ASSUME NEW v \in UserVpns PROVE v * d >= x <=> s <= v /\ v < n
  <2>1. v \in Nat /\ v < n
    BY <1>1, UserLow
  <2>2. ASSUME v < s PROVE v * d < x
    <3>1. v * d + d <= s * d /\ v * d \in Int
      BY <2>1, <2>2, <1>1, MulStep
    <3> QED BY <3>1, <1>1, <1>5
  <2>3. ASSUME s < v PROVE v * d >= x
    <3>1. s * d + d <= v * d /\ v * d \in Int
      BY <2>1, <2>3, <1>1, MulStep
    <3> QED BY <3>1, <1>1, <1>5
  <2>4. CASE s = v
    BY <2>4, <2>1, <1>5
  <2>5. v * d \in Int
    BY <2>1
  <2> QED BY <2>1, <2>2, <2>3, <2>4, <2>5
<1> QED BY <1>1, <1>6, <1>7 DEF StackVpns, Between

\* The pages of a segment are those of its area.
LEMMA SegmentVpnsAre ==
    ASSUME NEW seg \in Segs, NEW x, x = SegmentArea(seg)
    PROVE  SegmentVpns(seg) = Between(x.start_vpn, x.end_vpn)
<1>1. seg.va \in Nat /\ seg.mem_size \in Nat
  BY DEF Segs
<1>2. x.start_vpn = VpnFromVa(seg.va) /\ x.end_vpn = VpnFromVa(EndVa(seg.va, seg.mem_size))
  BY DEF SegmentArea, VMArea, EndVa
<1>3. \A v \in UserVpns : v \in Nat
  BY UserLow
<1>4. ASSUME NEW v \in UserVpns
      PROVE  (x.start_vpn <= v /\ v < x.end_vpn) <=>
             (v * PAGE_SIZE_BYTES < seg.va + seg.mem_size /\ seg.va < (v + 1) * PAGE_SIZE_BYTES)
  BY <1>1, <1>2, <1>3, PagesOfRange
<1> QED BY <1>4 DEF SegmentVpns, Between

\* What is known of a segment of the program.
LEMMA SegmentOf ==
    ASSUME NEW i \in 1 .. Len(Elf), NEW x, x = SegmentArea(Elf[i])
    PROVE  /\ Elf[i] \in Segs /\ x \in Area /\ x.map_type = "Anonymous"
           /\ x.permissions = Elf[i].flags \cup {"U"}
           /\ x.end_vpn <= StackStart /\ SegmentVpns(Elf[i]) = Between(x.start_vpn, x.end_vpn)
           /\ \A v \in Nat : contain_vpn(x, v) <=> v \in SegmentVpns(Elf[i])
<1>1. Elf[i] \in Segs /\ i \in DOMAIN Elf
  <2>1. Elf \in Seq(Segs)
    BY ElfAssumption DEF Segs
  <2> QED BY <2>1
<1>2. Elf[i].va + Elf[i].mem_size <= USER_SPACE_END - USER_STACK_MAX_SIZE_BYTES
  BY <1>1, ElfAssumption
<1>3. PICK seg \in Segs : seg = Elf[i]
  BY <1>1
<1>4. /\ x \in Area /\ x.map_type = "Anonymous" /\ x.permissions = seg.flags \cup {"U"}
      /\ x.end_vpn <= StackStart
  BY <1>2, <1>3, SegmentFacts
<1>5. SegmentVpns(seg) = Between(x.start_vpn, x.end_vpn)
  BY <1>3, SegmentVpnsAre
<1>6. x.start_vpn \in Nat /\ x.end_vpn \in Nat
  BY <1>4, AreaParts
<1>7. \A v \in Nat : contain_vpn(x, v) <=> v \in Between(x.start_vpn, x.end_vpn)
  BY <1>4, <1>6, UserRange DEF contain_vpn, Between, UserVpns
<1> QED BY <1>3, <1>4, <1>5, <1>7

\* No page is in two segments, or in a segment and the stack.
LEMMA SegmentsApart ==
    ASSUME NEW i \in 1 .. Len(Elf), NEW v, v \in SegmentVpns(Elf[i])
    PROVE  /\ v \notin StackVpns
           /\ \A j \in 1 .. Len(Elf) : v \in SegmentVpns(Elf[j]) => j = i
<1>1. PICK x \in Area : x = SegmentArea(Elf[i]) /\ x.end_vpn <= StackStart
                        /\ SegmentVpns(Elf[i]) = Between(x.start_vpn, x.end_vpn)
  BY SegmentOf
<1>2. x.start_vpn \in Nat /\ x.end_vpn \in Nat
  BY <1>1, AreaParts
<1>3. v \in UserVpns /\ v \in Nat /\ x.start_vpn <= v /\ v < x.end_vpn
  BY <1>1, UserLow DEF Between
<1>4. v \notin StackVpns
  BY <1>1, <1>2, <1>3, StackVpnsAre, UserRange DEF Between
<1>5. ASSUME NEW j \in 1 .. Len(Elf), v \in SegmentVpns(Elf[j]), j # i PROVE FALSE
  <2>1. PICK y \in Area : y = SegmentArea(Elf[j]) /\ SegmentVpns(Elf[j]) = Between(y.start_vpn, y.end_vpn)
    BY SegmentOf
  <2>2. y.start_vpn \in Nat /\ y.end_vpn \in Nat
    BY <2>1, AreaParts
  <2>3. y.start_vpn <= v /\ v < y.end_vpn
    BY <2>1, <1>5 DEF Between
  <2>4. i \in DOMAIN Elf /\ j \in DOMAIN Elf
    BY ElfAssumption
  <2>5. x.end_vpn <= y.start_vpn \/ y.end_vpn <= x.start_vpn
    BY <1>1, <1>5, <2>1, <2>4, ElfAssumption
  <2> QED BY <1>2, <1>3, <2>2, <2>3, <2>5
<1> QED BY <1>4, <1>5

\* What a task starts with.
Image0 == [v \in ElfVpns \cup StackVpns |->
             IF v \in StackVpns THEN {"R", "W", "U"}
             ELSE (CHOOSE seg \in ToSet(Elf) : v \in SegmentVpns(seg)).flags \cup {"U"}]

\* The permissions of its pages.
LEMMA ImageAt ==
    /\ DOMAIN Image0 = ElfVpns \cup StackVpns /\ Image0 = [v \in DOMAIN Image0 |-> Image0[v]]
    /\ \A v \in StackVpns : Image0[v] = {"R", "W", "U"}
    /\ \A i \in 1 .. Len(Elf) : \A v \in SegmentVpns(Elf[i]) :
          v \in ElfVpns /\ Image0[v] = Elf[i].flags \cup {"U"}
    /\ \A v \in ElfVpns : \E i \in 1 .. Len(Elf) : v \in SegmentVpns(Elf[i])
<1>1. DOMAIN Elf = 1 .. Len(Elf) /\ ToSet(Elf) = {Elf[i] : i \in 1 .. Len(Elf)}
  BY ElfAssumption DEF ToSet
<1>2. DOMAIN Image0 = ElfVpns \cup StackVpns /\ Image0 = [v \in DOMAIN Image0 |-> Image0[v]]
  BY DEF Image0
<1>3. \A v \in StackVpns : Image0[v] = {"R", "W", "U"}
  BY DEF Image0
<1>4. ASSUME NEW v \in ElfVpns PROVE \E i \in 1 .. Len(Elf) : v \in SegmentVpns(Elf[i])
  BY <1>1 DEF ElfVpns
<1>5. ASSUME NEW i \in 1 .. Len(Elf), NEW v \in SegmentVpns(Elf[i])
      PROVE  v \in ElfVpns /\ Image0[v] = Elf[i].flags \cup {"U"}
  <2>1. v \in ElfVpns
    BY <1>1 DEF ElfVpns
  <2>2. v \notin StackVpns /\ \A j \in 1 .. Len(Elf) : v \in SegmentVpns(Elf[j]) => j = i
    BY SegmentsApart
  <2>3. PICK seg : seg = CHOOSE sg \in ToSet(Elf) : v \in SegmentVpns(sg)
    OBVIOUS
  <2>4. seg \in ToSet(Elf) /\ v \in SegmentVpns(seg)
    BY <2>3, <1>1, Zenon
  <2>5. seg = Elf[i]
    BY <2>2, <2>4, <1>1
  <2>6. Image0[v] = seg.flags \cup {"U"}
    BY <2>1, <2>2, <2>3 DEF Image0
  <2> QED BY <2>1, <2>5, <2>6
<1> QED BY <1>2, <1>3, <1>4, <1>5

\* The areas of a new space: one per segment, the stack, and one of the kernel.
NewAreas(ar) ==
    /\ ar \in Seq(Area) /\ Len(ar) = Len(Elf) + 2 /\ SegmentsIn(ar, Len(Elf))
    /\ Shaped(ar[Len(Elf) + 1], VMArea(StackStart, USER_END_VPN, "Anonymous", {"R", "W", "U"}),
              {USER_END_VPN - 1})
    /\ USER_END_VPN <= ar[Len(Elf) + 2].start_vpn /\ InHalves(ar)

\* What such areas contain.
LEMMA NewAreasAre ==
    ASSUME NEW ar, NewAreas(ar), NEW v \in Nat
    PROVE  /\ \A i \in 1 .. Len(Elf) :
                 /\ ar[i].map_type = "Anonymous" /\ ar[i].permissions = Elf[i].flags \cup {"U"}
                 /\ contain_vpn(ar[i], v) <=> v \in SegmentVpns(Elf[i])
                 /\ v \in DOMAIN ar[i].pages <=> v \in SegmentVpns(Elf[i])
           /\ ar[Len(Elf) + 1].map_type = "Anonymous" /\ ar[Len(Elf) + 1].permissions = {"R", "W", "U"}
           /\ contain_vpn(ar[Len(Elf) + 1], v) <=> v \in StackVpns
           /\ DOMAIN ar[Len(Elf) + 1].pages = {USER_END_VPN - 1}
           /\ ar[Len(Elf) + 2].map_type # "Anonymous"
           /\ \A b \in PagesIn(ar[Len(Elf) + 2]) : USER_END_VPN <= b.vpn
<1>n. PICK n \in Nat : n = Len(Elf)
  BY ElfAssumption
<1>1. ar \in Seq(Area) /\ Len(ar) = n + 2
  BY <1>n DEF NewAreas
<1>2. ASSUME NEW i \in 1 .. n
      PROVE  /\ ar[i].map_type = "Anonymous" /\ ar[i].permissions = Elf[i].flags \cup {"U"}
             /\ contain_vpn(ar[i], v) <=> v \in SegmentVpns(Elf[i])
             /\ v \in DOMAIN ar[i].pages <=> v \in SegmentVpns(Elf[i])
  <2>1. PICK x : x = SegmentArea(Elf[i])
    OBVIOUS
  <2>2. /\ x \in Area /\ x.map_type = "Anonymous" /\ x.permissions = Elf[i].flags \cup {"U"}
        /\ contain_vpn(x, v) <=> v \in SegmentVpns(Elf[i])
    BY <2>1, <1>n, SegmentOf
  <2>3. Shaped(ar[i], x, x.start_vpn .. x.end_vpn - 1)
    BY <2>1, <1>n DEF NewAreas, SegmentsIn
  <2>4. x.start_vpn \in Nat /\ x.end_vpn \in Nat
    BY <2>2, AreaParts
  <2>5. v \in x.start_vpn .. x.end_vpn - 1 <=> contain_vpn(x, v)
    BY <2>4 DEF contain_vpn
  <2>6. contain_vpn(ar[i], v) <=> contain_vpn(x, v)
    BY <2>3 DEF Shaped, contain_vpn
  <2> QED BY <2>2, <2>3, <2>5, <2>6 DEF Shaped
<1>3. /\ ar[n + 1].map_type = "Anonymous" /\ ar[n + 1].permissions = {"R", "W", "U"}
      /\ contain_vpn(ar[n + 1], v) <=> v \in StackVpns
      /\ DOMAIN ar[n + 1].pages = {USER_END_VPN - 1}
  <2>1. PICK x : /\ x = VMArea(StackStart, USER_END_VPN, "Anonymous", {"R", "W", "U"})
                 /\ x.start_vpn = StackStart /\ x.end_vpn = USER_END_VPN
                 /\ x.permissions = {"R", "W", "U"} /\ x.map_type = "Anonymous"
    <3>1. {"R", "W", "U"} \in Flags
      BY DEF Flags
    <3> QED BY <3>1, UserRange, NewAreaType
  <2>2. Shaped(ar[n + 1], x, {USER_END_VPN - 1})
    BY <2>1, <1>n DEF NewAreas
  <2>3. v \in StackVpns <=> StackStart <= v /\ v < USER_END_VPN
    BY StackVpnsAre, UserRange DEF Between, UserVpns
  <2> QED BY <2>1, <2>2, <2>3 DEF Shaped, contain_vpn
<1>4. PICK a \in Area : a = ar[n + 2] /\ USER_END_VPN <= a.start_vpn /\ InHalf(a)
  BY <1>n, <1>1 DEF NewAreas, InHalves
<1>5. a.start_vpn \in Nat /\ a.end_vpn \in Nat /\ a.start_vpn < a.end_vpn
  BY <1>4, AreaParts
<1>6. a.map_type # "Anonymous"
  BY <1>4, <1>5, UserLow DEF InHalf
<1>7. \A b \in PagesIn(a) : USER_END_VPN <= b.vpn
  BY <1>4, <1>5, PagesInFacts, UserLow
<1> QED BY <1>n, <1>2, <1>3, <1>4, <1>6, <1>7

\* A new space grants the image of the program and its stack, ...
LEMMA NewGrants ==
    ASSUME NEW ar, NewAreas(ar)
    PROVE  Shows(Image0, Grants(ar))
<1>n. PICK n \in Nat : n = Len(Elf) /\ ar \in Seq(Area) /\ Len(ar) = n + 2
  BY ElfAssumption DEF NewAreas
<1>1. ASSUME NEW g \in Grants(ar) PROVE g.vpn \in DOMAIN Image0 /\ Image0[g.vpn] = g.flags
  <2>1. PICK i \in 1 .. Len(ar) : /\ ar[i].map_type = "Anonymous" /\ contain_vpn(ar[i], g.vpn)
                                  /\ g.flags = ar[i].permissions
    BY DEF Grants
  <2>2. g.vpn \in Nat
    BY DEF Grants, Granted
  <2>3. CASE i \in 1 .. n
    <3>1. g.vpn \in SegmentVpns(Elf[i]) /\ g.flags = Elf[i].flags \cup {"U"}
      BY <2>1, <2>2, <2>3, <1>n, NewAreasAre
    <3> QED BY <3>1, <2>3, <1>n, ImageAt
  <2>4. CASE i = n + 1
    <3>1. g.vpn \in StackVpns /\ g.flags = {"R", "W", "U"}
      BY <2>1, <2>2, <2>4, <1>n, NewAreasAre
    <3> QED BY <3>1, ImageAt
  <2>5. CASE i = n + 2
    BY <2>1, <2>2, <2>5, <1>n, NewAreasAre
  <2> QED BY <2>3, <2>4, <2>5, <1>n
<1>2. ASSUME NEW v \in DOMAIN Image0 PROVE \E g \in Grants(ar) : g.vpn = v
  <2>1. CASE v \in StackVpns
    <3>1. v \in Nat /\ n + 1 \in 1 .. Len(ar)
      BY <2>1, <1>n, UserLow DEF StackVpns
    <3>2. ar[n + 1].map_type = "Anonymous" /\ contain_vpn(ar[n + 1], v)
      BY <3>1, <2>1, <1>n, NewAreasAre
    <3>3. [vpn |-> v, flags |-> ar[n + 1].permissions] \in Grants(ar)
      BY <3>1, <3>2, <1>n, GrantOf
    <3> QED BY <3>3
  <2>2. CASE v \in ElfVpns
    <3>1. PICK i \in 1 .. n : v \in SegmentVpns(Elf[i])
      BY <2>2, <1>n, ImageAt
    <3>2. v \in Nat /\ i \in 1 .. Len(ar)
      BY <3>1, <1>n, UserLow DEF SegmentVpns
    <3>3. ar[i].map_type = "Anonymous" /\ contain_vpn(ar[i], v)
      BY <3>1, <3>2, <1>n, NewAreasAre
    <3>4. [vpn |-> v, flags |-> ar[i].permissions] \in Grants(ar)
      BY <3>2, <3>3, <1>n, GrantOf
    <3> QED BY <3>4
  <2> QED BY <2>1, <2>2, ImageAt
<1> QED BY <1>1, <1>2, ImageAt DEF Shows

\* ... and backs the segments and the top page of the stack.
LEMMA NewPresent ==
    ASSUME NEW ar, NewAreas(ar)
    PROVE  Present(Backing(ar)) = ElfVpns \cup {USER_END_VPN - 1}
<1>n. PICK n \in Nat : n = Len(Elf) /\ ar \in Seq(Area) /\ Len(ar) = n + 2
  BY ElfAssumption DEF NewAreas
<1>1. ASSUME NEW v \in Present(Backing(ar)) PROVE v \in ElfVpns \cup {USER_END_VPN - 1}
  <2>1. PICK b \in Backing(ar) : b.vpn = v
    BY DEF Present
  <2>2. PICK i \in 1 .. Len(ar) : b \in PagesIn(ar[i])
    BY <2>1 DEF Backing
  <2>3. v \in UserVpns /\ v \in Nat /\ v < USER_END_VPN /\ USER_END_VPN \in Nat
    BY UserLow DEF Present
  <2>4. v \in DOMAIN ar[i].pages
    BY <2>1, <2>2, <1>n, PagesInFacts
  <2>5. CASE i \in 1 .. n
    <3>1. v \in SegmentVpns(Elf[i])
      BY <2>3, <2>4, <2>5, <1>n, NewAreasAre
    <3> QED BY <3>1, <2>5, <1>n, ImageAt
  <2>6. CASE i = n + 1
    BY <2>3, <2>4, <2>6, <1>n, NewAreasAre
  <2>7. CASE i = n + 2
    BY <2>1, <2>2, <2>3, <2>7, <1>n, NewAreasAre
  <2> QED BY <2>5, <2>6, <2>7, <1>n
<1>2. ASSUME NEW i \in 1 .. Len(ar), NEW v \in UserVpns, v \in DOMAIN ar[i].pages
      PROVE  v \in Present(Backing(ar))
  <2>1. PICK a \in Area : a = ar[i]
    BY <1>n
  <2>2. PageOf(a, v) \in PagesIn(a)
    BY <1>2, <2>1, PagesInFacts
  <2>3. PageOf(a, v) \in Backing(ar) /\ PageOf(a, v).vpn = v
    BY <2>1, <2>2 DEF Backing, PagesIn, PageOf
  <2> QED BY <2>3 DEF Present
<1>3. ASSUME NEW v \in ElfVpns PROVE v \in Present(Backing(ar))
  <2>1. PICK i \in 1 .. n : v \in SegmentVpns(Elf[i])
    BY <1>n, ImageAt
  <2>2. v \in UserVpns /\ v \in Nat
    BY <2>1, UserLow DEF SegmentVpns
  <2>3. i \in 1 .. Len(ar) /\ v \in DOMAIN ar[i].pages
    BY <2>1, <2>2, <1>n, NewAreasAre
  <2> QED BY <2>2, <2>3, <1>2
<1>4. USER_END_VPN - 1 \in Present(Backing(ar))
  <2>1. PICK v \in Nat : v = USER_END_VPN - 1 /\ v \in UserVpns
    BY UserRange DEF UserVpns
  <2>2. n + 1 \in 1 .. Len(ar) /\ v \in DOMAIN ar[n + 1].pages
    BY <2>1, <1>n, NewAreasAre
  <2> QED BY <2>1, <2>2, <1>2
<1> QED BY <1>1, <1>3, <1>4

\* The space new_user creates is the one a task is to start with.
LEMMA NewUserViews ==
    ASSUME NEW ph \in Phys, AllocOk(ph.alloc), KernelMem(ph.mem), NEW t \in Tasks,
           NEW out, out = new_user(ph, F, Elf, Word(t)), out.res = "Ok"
    PROVE  /\ Shows(Image0, Grants(out.space.areas))
           /\ Present(Backing(out.space.areas)) = ElfVpns \cup {USER_END_VPN - 1}
<1>1. Created(out, ph.alloc, ph.mem, t)
  BY NewUserBuilt DEF ElfFails
<1>2. PICK ar : ar = out.space.areas /\ InHalves(ar)
  BY <1>1 DEF Created, Fits
<1>3. F \in PPN /\ Word(t) \in Words
  BY WordTypes, Layout
<1>4. NewAreas(ar)
  BY <1>2, <1>3, NewUserShape DEF NewAreas
<1> QED BY <1>2, <1>4, NewGrants, NewPresent

-----------------------------------------------------------------------------
(* The view of AddressSpace.                                               *)

\* The abstract state: what stands for reserved and resident.
Rv(sps) == [t \in Tasks |-> IF sps[t] = NONE THEN NONE ELSE ReservedOf(sps[t])]
Rs(ph, sps) ==
    [t \in Tasks |-> IF sps[t] = NONE THEN {}
                     ELSE {v \in UserVpns : Translate(ph.mem, sps[t].root_pgt.ppn, v) # NONE}]

\* None is not a map of pages to permissions.
NoneNoMap == \A S \in SUBSET UserVpns : NONE \notin [S -> Flags]

\* The steps of AddressSpace, in terms of the abstract state.
LEMMA HaltIs ==
    ASSUME op'.name = "halt", Rv(spaces') = Rv(spaces), Rs(phys', spaces') = Rs(phys, spaces)
    PROVE  Abstract!SpaceNext
<1>1. Abstract!Halt
  BY DEF Abstract!Halt, Rv, Rs, Pte
<1> QED BY <1>1 DEF Abstract!SpaceNext

\* A step whose view is that of an exit is one.
LEMMA ExitIs ==
    ASSUME op'.name = "exit", op'.task \in Tasks, Rv(spaces)[op'.task] # NONE,
           Rv(spaces') = [Rv(spaces) EXCEPT ![op'.task] = NONE],
           Rs(phys', spaces') = [Rs(phys, spaces) EXCEPT ![op'.task] = {}]
    PROVE  Abstract!SpaceNext
<1>1. Abstract!Exit
  BY Zenon DEF Abstract!Exit, Abstract!Call, Abstract!End, Rv, Rs, Pte
<1> QED BY <1>1 DEF Abstract!SpaceNext

\* A step whose view is that of a new task is one.
LEMMA BeginIs ==
    ASSUME op'.name = "begin", op'.task \in Tasks, Rv(spaces)[op'.task] = NONE,
           Rv(spaces') = [Rv(spaces) EXCEPT ![op'.task] = Image0],
           Rs(phys', spaces') = [Rs(phys, spaces) EXCEPT ![op'.task] = ElfVpns \cup {USER_END_VPN - 1}]
    PROVE  Abstract!SpaceNext
<1>1. Abstract!Begin
  BY Zenon DEF Abstract!Begin, Rv, Rs, Pte, Image0
<1> QED BY <1>1 DEF Abstract!SpaceNext

\* A request that asks for the pages of a range.
MmapStep(rv, rv2, o) ==
    LET pages == Abstract!Covering(o.addr, o.len) \cup
                 (IF o.len = 0 /\ o.addr % PAGE_SIZE_BYTES # 0
                  THEN Abstract!Covering(o.addr, 1) ELSE {})
        fine  == /\ Abstract!InUserSpace(o.addr, o.len) /\ o.addr + o.len > 0
                 /\ o.prot \subseteq {"R", "W", "X"}
                 /\ pages # {} /\ pages \cap DOMAIN rv[o.task] = {}
    IN  /\ o.ans = IF fine THEN 0 ELSE -1
        /\ rv2 = IF fine
                 THEN [rv EXCEPT ![o.task] = [v \in DOMAIN @ \cup pages |->
                                                IF v \in pages THEN o.prot \cup {"U"} ELSE @[v]]]
                 ELSE rv

\* A step whose view is that of mmap is one.
LEMMA MmapIs ==
    ASSUME op'.name = "mmap", op'.task \in Tasks, Rv(spaces)[op'.task] # NONE,
           MmapStep(Rv(spaces), Rv(spaces'), op'), Rs(phys', spaces') = Rs(phys, spaces)
    PROVE  Abstract!SpaceNext
<1>1. Abstract!Mmap
  BY Zenon DEF Abstract!Mmap, Abstract!Call, Rv, Rs, Pte, MmapStep
<1> QED BY <1>1 DEF Abstract!SpaceNext

\* One that gives them back.
MunmapStep(rv, rs, rv2, rs2, o) ==
    LET fine == Abstract!InUserSpace(o.addr, o.len) /\ o.addr + o.len > 0
        gone == IF fine /\ o.len > 0 THEN Abstract!Covering(o.addr, o.len) ELSE {}
    IN  /\ o.ans = IF fine THEN 0 ELSE -1
        /\ rv2 = [rv EXCEPT ![o.task] = [v \in DOMAIN @ \ gone |-> @[v]]]
        /\ rs2 = [rs EXCEPT ![o.task] = @ \ gone]

\* A step whose view is that of munmap is one.
LEMMA MunmapIs ==
    ASSUME op'.name = "munmap", op'.task \in Tasks, Rv(spaces)[op'.task] # NONE,
           MunmapStep(Rv(spaces), Rs(phys, spaces), Rv(spaces'), Rs(phys', spaces'), op')
    PROVE  Abstract!SpaceNext
<1>1. Abstract!Munmap
  BY Zenon DEF Abstract!Munmap, Abstract!Call, Rv, Rs, Pte, MunmapStep
<1> QED BY <1>1 DEF Abstract!SpaceNext

\* An access, and why it may fail.
Touched(rv, o) ==
    LET v == o.va \div PAGE_SIZE_BYTES IN
    v \in DOMAIN rv[o.task] /\ o.need \subseteq rv[o.task][v]

Untouched(rv, rs, o) == ~Touched(rv, o) \/ o.va \div PAGE_SIZE_BYTES \notin rs[o.task]

\* A step whose view is that of an access that goes through is one.
LEMMA TouchIs ==
    ASSUME op'.name = "access", op'.ans = "done", op'.task \in Tasks, Rv(spaces)[op'.task] # NONE,
           Touched(Rv(spaces), op'), Rv(spaces') = Rv(spaces),
           Rs(phys', spaces') = [Rs(phys, spaces) EXCEPT ![op'.task] = @ \cup {op'.va \div PAGE_SIZE_BYTES}]
    PROVE  Abstract!SpaceNext
<1>1. Abstract!Touch
  BY Zenon DEF Abstract!Touch, Abstract!Call, Rv, Rs, Pte, Touched
<1> QED BY <1>1 DEF Abstract!SpaceNext

\* A step whose view is that of an access that fails is one.
LEMMA FailIs ==
    ASSUME op'.name = "access", op'.task \in Tasks, Rv(spaces)[op'.task] # NONE,
           Untouched(Rv(spaces), Rs(phys, spaces), op'),
           \/ /\ op'.ans = "failed" /\ op'.mode = "kernel"
              /\ Rv(spaces') = Rv(spaces) /\ Rs(phys', spaces') = Rs(phys, spaces)
           \/ /\ op'.ans = "killed" /\ op'.mode = "user"
              /\ Rv(spaces') = [Rv(spaces) EXCEPT ![op'.task] = NONE]
              /\ Rs(phys', spaces') = [Rs(phys, spaces) EXCEPT ![op'.task] = {}]
    PROVE  Abstract!SpaceNext
<1>1. Abstract!CannotTouch(op'.task, op'.va \div PAGE_SIZE_BYTES, op'.need)
  BY Zenon DEF Abstract!CannotTouch, Abstract!Barred, Untouched, Touched, Rv, Rs, Pte
<1>2. Abstract!Call("access")
  BY Zenon DEF Abstract!Call, Rv
<1>3. CASE /\ op'.ans = "failed" /\ op'.mode = "kernel"
           /\ Rv(spaces') = Rv(spaces) /\ Rs(phys', spaces') = Rs(phys, spaces)
  <2>1. Abstract!Fail
    BY <1>1, <1>2, <1>3, Zenon DEF Abstract!Fail, Rv, Rs, Pte
  <2> QED BY <2>1 DEF Abstract!SpaceNext
<1>4. CASE /\ op'.ans = "killed" /\ op'.mode = "user"
           /\ Rv(spaces') = [Rv(spaces) EXCEPT ![op'.task] = NONE]
           /\ Rs(phys', spaces') = [Rs(phys, spaces) EXCEPT ![op'.task] = {}]
  <2>1. Abstract!Die
    BY <1>1, <1>2, <1>4, Zenon DEF Abstract!Die, Abstract!End, Rv, Rs, Pte
  <2> QED BY <2>1 DEF Abstract!SpaceNext
<1> QED BY <1>3, <1>4

\* The abstract state of one task: what its space shows.
RvAt(sp) == IF sp = NONE THEN NONE ELSE ReservedOf(sp)
RsAt(sp) == IF sp = NONE THEN {} ELSE Present(Backing(sp.areas))

\* The abstract state of all is made of these.
LEMMA ViewIs ==
    ASSUME NONE \notin PTE, NEW ph, NEW sps, MemInv(ph, sps)
    PROVE  /\ DOMAIN Rv(sps) = Tasks /\ Rv(sps) = [u \in DOMAIN Rv(sps) |-> Rv(sps)[u]]
           /\ DOMAIN Rs(ph, sps) = Tasks /\ Rs(ph, sps) = [u \in DOMAIN Rs(ph, sps) |-> Rs(ph, sps)[u]]
           /\ \A t \in Tasks : Rv(sps)[t] = RvAt(sps[t]) /\ Rs(ph, sps)[t] = RsAt(sps[t])
<1>1. \A t \in Tasks : Rv(sps)[t] = RvAt(sps[t])
  BY DEF Rv, RvAt
<1>2. ASSUME NEW t \in Tasks PROVE Rs(ph, sps)[t] = RsAt(sps[t])
  <2>1. CASE sps[t] = NONE
    BY <2>1 DEF Rs, RsAt
  <2>2. CASE sps[t] # NONE
    <3>1. Fits(ph, sps[t], t)
      BY <2>2 DEF MemInv
    <3>2. {v \in UserVpns : Translate(ph.mem, sps[t].root_pgt.ppn, v) # NONE} = Present(Backing(sps[t].areas))
      BY <3>1, ResidentIs
    <3> QED BY <2>2, <3>2 DEF Rs, RsAt
  <2> QED BY <2>1, <2>2
<1>3. DOMAIN Rs(ph, sps) = Tasks /\ Rs(ph, sps) = [u \in DOMAIN Rs(ph, sps) |-> Rs(ph, sps)[u]]
  BY DEF Rs
<1>4. DOMAIN Rv(sps) = Tasks /\ Rv(sps) = [u \in DOMAIN Rv(sps) |-> Rv(sps)[u]]
  BY DEF Rv
<1> QED BY <1>1, <1>2, <1>3, <1>4

\* A step that gives task t another space changes the abstract state of t only.
LEMMA ViewStep ==
    ASSUME NONE \notin PTE, NEW ph, NEW sps, MemInv(ph, sps), NEW t \in Tasks, NEW sp,
           NEW ph2, NEW sps2, MemInv(ph2, sps2), sps2[t] = sp, \A u \in Tasks : u # t => sps2[u] = sps[u]
    PROVE  /\ Rv(sps)[t] = RvAt(sps[t]) /\ Rs(ph, sps)[t] = RsAt(sps[t])
           /\ Rv(sps2) = [Rv(sps) EXCEPT ![t] = RvAt(sp)]
           /\ Rs(ph2, sps2) = [Rs(ph, sps) EXCEPT ![t] = RsAt(sp)]
<1>1. PICK rv, rs : rv = Rv(sps) /\ rs = Rs(ph, sps)
  OBVIOUS
<1>2. PICK rv2, rs2 : rv2 = Rv(sps2) /\ rs2 = Rs(ph2, sps2)
  OBVIOUS
<1>3. /\ DOMAIN rv = Tasks /\ rv = [u \in DOMAIN rv |-> rv[u]]
      /\ DOMAIN rs = Tasks /\ rs = [u \in DOMAIN rs |-> rs[u]]
      /\ \A u \in Tasks : rv[u] = RvAt(sps[u]) /\ rs[u] = RsAt(sps[u])
  BY <1>1, ViewIs
<1>4. /\ DOMAIN rv2 = Tasks /\ rv2 = [u \in DOMAIN rv2 |-> rv2[u]]
      /\ DOMAIN rs2 = Tasks /\ rs2 = [u \in DOMAIN rs2 |-> rs2[u]]
      /\ \A u \in Tasks : rv2[u] = RvAt(sps2[u]) /\ rs2[u] = RsAt(sps2[u])
  BY <1>2, ViewIs
<1>6. rv2 = [rv EXCEPT ![t] = RvAt(sp)]
  BY <1>3, <1>4
<1>7. rs2 = [rs EXCEPT ![t] = RsAt(sp)]
  BY <1>3, <1>4
<1> QED BY <1>1, <1>2, <1>3, <1>6, <1>7

\* What a live task has reserved is a map.
LEMMA RvMap ==
    ASSUME NoneNoMap, NEW sp \in Space, Apart(sp.areas), NEW ph, NEW t, Fits(ph, sp, t)
    PROVE  /\ ReservedOf(sp) # NONE /\ Shows(ReservedOf(sp), Grants(sp.areas))
           /\ DOMAIN ReservedOf(sp) \subseteq UserVpns
<1>1. PICK f : f = ReservedOf(sp)
  OBVIOUS
<1>2. /\ Shows(f, Grants(sp.areas)) /\ DOMAIN f \subseteq UserVpns
      /\ \A v \in DOMAIN f : f[v] \in Flags
  BY <1>1, ReservedShows DEF Fits
<1>3. f = [v \in DOMAIN f |-> f[v]]
  BY <1>2 DEF Shows
<1>4. f \in [DOMAIN f -> Flags]
  BY <1>2, <1>3
<1>5. f # NONE
  BY <1>2, <1>4 DEF NoneNoMap
<1> QED BY <1>1, <1>2, <1>5

\* How to see that a map says the same as a set of grants.
LEMMA ShowsBy ==
    ASSUME NEW h, NEW H, h = [v \in DOMAIN h |-> h[v]],
           \A g \in H : g.vpn \in DOMAIN h /\ h[g.vpn] = g.flags,
           \A v \in DOMAIN h : \E g \in H : g.vpn = v
    PROVE  Shows(h, H)
BY DEF Shows

\* A map with a range more, and with a range less.
With(f, S, p) == [v \in DOMAIN f \cup S |-> IF v \in S THEN p ELSE f[v]]
Without(f, S) == [v \in DOMAIN f \ S |-> f[v]]

\* The map with a new range shows the grants with that range.
LEMMA ShowsMore ==
    ASSUME NEW f, NEW G, G \subseteq Granted, Shows(f, G), NEW s \in Nat, NEW e \in Nat, e <= USER_END_VPN,
           NEW p \in Flags, \A g \in G : ~(s <= g.vpn /\ g.vpn < e), NEW S, S = Between(s, e),
           NEW h, h = With(f, S, p)
    PROVE  Shows(h, G \cup Granting(s, e, p))
<1>1. \A v : v \in S <=> v \in Nat /\ s <= v /\ v < e
  BY UserRange DEF Between, UserVpns
<1>2. /\ DOMAIN h = DOMAIN f \cup S /\ h = [v \in DOMAIN h |-> h[v]]
      /\ \A v \in DOMAIN h : h[v] = IF v \in S THEN p ELSE f[v]
  BY DEF With
<1>3. \A g \in Granting(s, e, p) : g.vpn \in S /\ g.flags = p
  BY <1>1 DEF Granting, Granted
<1>4. ASSUME NEW v \in S PROVE \E g \in Granting(s, e, p) : g.vpn = v
  <2>1. [vpn |-> v, flags |-> p] \in Granting(s, e, p)
    BY <1>1 DEF Granting, Granted
  <2> QED BY <2>1
<1>5. \A g \in G : g.vpn \notin S /\ g.vpn \in DOMAIN f /\ f[g.vpn] = g.flags
  BY <1>1 DEF Shows
<1>6. \A v \in DOMAIN f : \E g \in G : g.vpn = v
  BY DEF Shows
<1>7. \A g \in G \cup Granting(s, e, p) : g.vpn \in DOMAIN h /\ h[g.vpn] = g.flags
  BY <1>2, <1>3, <1>5
<1>8. \A v \in DOMAIN h : \E g \in G \cup Granting(s, e, p) : g.vpn = v
  BY <1>2, <1>4, <1>6
<1>9. PICK H : H = G \cup Granting(s, e, p)
  OBVIOUS
<1>10. /\ \A g \in H : g.vpn \in DOMAIN h /\ h[g.vpn] = g.flags
       /\ \A v \in DOMAIN h : \E g \in H : g.vpn = v
  BY <1>7, <1>8, <1>9, Zenon
<1>11. Shows(h, H)
  BY <1>2, <1>10, ShowsBy
<1> QED BY <1>9, <1>11

\* The map without a range shows the grants outside it.
LEMMA ShowsLess ==
    ASSUME NEW f, NEW G, Shows(f, G), DOMAIN f \subseteq UserVpns, NEW s, NEW e,
           NEW S, S = Between(s, e), NEW h, h = Without(f, S)
    PROVE  Shows(h, Rest(G, s, e))
<1>1. DOMAIN h = DOMAIN f \ S /\ h = [v \in DOMAIN h |-> h[v]] /\ \A v \in DOMAIN h : h[v] = f[v]
  BY DEF Without
<1>2. \A g \in G : g.vpn \in DOMAIN f /\ f[g.vpn] = g.flags /\ g.vpn \in UserVpns
  BY DEF Shows
<1>3. \A g \in G : g \in Rest(G, s, e) <=> g.vpn \notin S
  BY <1>2 DEF Rest, Between
<1>4. \A g \in Rest(G, s, e) : g.vpn \in DOMAIN h /\ h[g.vpn] = g.flags
  BY <1>1, <1>2, <1>3 DEF Rest
<1>5. ASSUME NEW v \in DOMAIN h PROVE \E g \in Rest(G, s, e) : g.vpn = v
  <2>1. PICK g \in G : g.vpn = v
    BY <1>1 DEF Shows
  <2> QED BY <2>1, <1>1, <1>3
<1> QED BY <1>1, <1>4, <1>5, ShowsBy

\* Backing outside a range is presence outside it.
LEMMA PresentLess ==
    ASSUME NEW B, NEW s, NEW e
    PROVE  Present(Rest(B, s, e)) = Present(B) \ Between(s, e)
BY DEF Present, Rest, Between

\* A step of UserMemory, and the abstract state before and after it.
Viewed(t, sp) ==
    /\ Rv(spaces)[t] = RvAt(spaces[t]) /\ Rs(phys, spaces)[t] = RsAt(spaces[t])
    /\ Rv(spaces') = [Rv(spaces) EXCEPT ![t] = RvAt(sp)]
    /\ Rs(phys', spaces') = [Rs(phys, spaces) EXCEPT ![t] = RsAt(sp)]
    /\ DOMAIN Rv(spaces) = Tasks /\ Rv(spaces) = [u \in DOMAIN Rv(spaces) |-> Rv(spaces)[u]]
    /\ DOMAIN Rs(phys, spaces) = Tasks
    /\ Rs(phys, spaces) = [u \in DOMAIN Rs(phys, spaces) |-> Rs(phys, spaces)[u]]

\* A step that sets the space of one task changes the view of this task only.
LEMMA StepViewed ==
    ASSUME NoneApart, UInv, DInv, DInv', NEW t \in Tasks, NEW sp,
           spaces' = [spaces EXCEPT ![t] = sp]
    PROVE  Viewed(t, sp)
<1>1. NONE \notin PTE /\ MemInv(phys, spaces) /\ MemInv(phys', spaces')
  BY DEF NoneApart, DInv
<1>2. spaces'[t] = sp /\ \A u \in Tasks : u # t => spaces'[u] = spaces[u]
  BY DEF UInv
<1>3. PICK sps2, ph2 : sps2 = spaces' /\ ph2 = phys'
  OBVIOUS
<1>4. MemInv(ph2, sps2) /\ sps2[t] = sp /\ \A u \in Tasks : u # t => sps2[u] = spaces[u]
  BY <1>1, <1>2, <1>3
<1>5. /\ Rv(spaces)[t] = RvAt(spaces[t]) /\ Rs(phys, spaces)[t] = RsAt(spaces[t])
      /\ Rv(sps2) = [Rv(spaces) EXCEPT ![t] = RvAt(sp)]
      /\ Rs(ph2, sps2) = [Rs(phys, spaces) EXCEPT ![t] = RsAt(sp)]
  BY <1>1, <1>4, ViewStep
<1>6. /\ DOMAIN Rv(spaces) = Tasks /\ Rv(spaces) = [u \in DOMAIN Rv(spaces) |-> Rv(spaces)[u]]
      /\ DOMAIN Rs(phys, spaces) = Tasks
      /\ Rs(phys, spaces) = [u \in DOMAIN Rs(phys, spaces) |-> Rs(phys, spaces)[u]]
  BY <1>1, ViewIs
<1> QED BY <1>3, <1>5, <1>6 DEF Viewed

\* The space of a task that makes a request.
LEMMA LiveView ==
    ASSUME NoneApart, NoneNoMap, UInv, DInv, NEW t \in Tasks, spaces[t] # NONE
    PROVE  /\ spaces[t] \in Space /\ Apart(spaces[t].areas) /\ Fits(phys, spaces[t], t) /\ phys \in Phys
           /\ RvAt(spaces[t]) = ReservedOf(spaces[t]) /\ RvAt(spaces[t]) # NONE
           /\ RsAt(spaces[t]) = Present(Backing(spaces[t].areas))
           /\ Shows(ReservedOf(spaces[t]), Grants(spaces[t].areas))
           /\ DOMAIN ReservedOf(spaces[t]) \subseteq UserVpns
<1>1. PICK sp \in Space : sp = spaces[t] /\ Fits(phys, sp, t) /\ Apart(sp.areas) /\ phys \in Phys
  BY SpaceParts
<1>2. /\ ReservedOf(sp) # NONE /\ Shows(ReservedOf(sp), Grants(sp.areas))
      /\ DOMAIN ReservedOf(sp) \subseteq UserVpns
  BY <1>1, RvMap
<1>3. RvAt(sp) = ReservedOf(sp) /\ RsAt(sp) = Present(Backing(sp.areas))
  BY <1>1 DEF RvAt, RsAt
<1> QED BY <1>1, <1>2, <1>3

\* A space that shows what h and S say.
LEMMA RvShows ==
    ASSUME NEW ph, NEW t, NEW sp \in Space, sp # NONE, Apart(sp.areas), Fits(ph, sp, t),
           NEW h, Shows(h, Grants(sp.areas))
    PROVE  RvAt(sp) = h /\ RsAt(sp) = Present(Backing(sp.areas))
<1>1. PICK f : f = ReservedOf(sp) /\ Shows(f, Grants(sp.areas))
  BY ReservedShows DEF Fits
<1>2. f = h
  BY <1>1, ShowsOne
<1> QED BY <1>1, <1>2 DEF RvAt, RsAt

\* A step that leaves memory and the spaces alone.
LEMMA QuietView ==
    ASSUME UNCHANGED <<phys, spaces>>
    PROVE  Rv(spaces') = Rv(spaces) /\ Rs(phys', spaces') = Rs(phys, spaces)
OBVIOUS

\* add_task begins the life of a task.
LEMMA AddTaskRefines ==
    ASSUME NoneApart, NoneNoMap, UInv, UInv', DInv, DInv', AddTask
    PROVE  Abstract!SpaceNext
<1>1. PICK t \in Tasks, r \in {new_user(phys, kernel_satp, Elf, Word(started + 1))} :
         t = started + 1 /\ r = new_user(phys, kernel_satp, Elf, Word(t))
  BY DEF AddTask
<1>2. phys \in Phys /\ started \in Nat /\ kernel_satp = F /\ AllocOk(phys.alloc) /\ KernelMem(phys.mem)
  BY DEF UInv, DInv, MemInv
<1>3. spaces[t] = NONE
  <2>1. started < t
    BY <1>1, <1>2
  <2> QED BY <2>1 DEF DInv
<1>4. CASE r.res = "Ok"
  <2>1. spaces' = [spaces EXCEPT ![t] = r.space] /\ op' = [name |-> "begin", task |-> t]
    BY <1>1, <1>4 DEF AddTask
  <2>2. PICK sp : sp = r.space
    OBVIOUS
  <2>3. Viewed(t, sp)
    BY <2>1, <2>2, StepViewed
  <2>4. /\ Shows(Image0, Grants(sp.areas))
        /\ Present(Backing(sp.areas)) = ElfVpns \cup {USER_END_VPN - 1}
    BY <1>1, <1>2, <1>4, <2>2, NewUserViews
  <2>5. sp \in Space /\ Apart(sp.areas) /\ sp # NONE /\ Fits(phys', sp, t)
    <3>1. Word(t) \in Words /\ F \in PPN
      BY WordTypes, Layout
    <3>2. sp \in Space /\ Apart(sp.areas)
      BY <1>1, <1>2, <1>4, <2>2, <3>1, NewUserType
    <3>3. sp # NONE
      BY <3>2 DEF NoneApart
    <3>4. spaces'[t] = sp
      BY <2>1, <2>2 DEF UInv
    <3> QED BY <3>2, <3>3, <3>4 DEF DInv, MemInv
  <2>6. RvAt(sp) = Image0 /\ RsAt(sp) = ElfVpns \cup {USER_END_VPN - 1}
    BY <2>4, <2>5, RvShows
  <2>7. op'.name = "begin" /\ op'.task = t
    BY <2>1
  <2>8. Rv(spaces)[t] = NONE
    BY <2>3, <1>3 DEF Viewed, RvAt
  <2> QED BY <2>3, <2>6, <2>7, <2>8, BeginIs DEF Viewed
<1>5. CASE r.res # "Ok"
  <2>1. Halt("Panic")
    BY <1>1, <1>5 DEF AddTask
  <2>2. op'.name = "halt" /\ UNCHANGED <<phys, spaces>>
    BY <2>1 DEF Halt
  <2> QED BY <2>2, QuietView, HaltIs
<1> QED BY <1>4, <1>5

\* The end of a task.
LEMMA ExitRefines ==
    ASSUME NoneApart, NoneNoMap, UInv, UInv', DInv, DInv', NEW t \in Tasks, Exit(t)
    PROVE  Abstract!SpaceNext
<1>1. spaces[t] # NONE /\ spaces' = [spaces EXCEPT ![t] = NONE] /\ op' = [name |-> "exit", task |-> t]
  BY DEF Exit, Runs, Finish
<1>2. Viewed(t, NONE)
  BY <1>1, StepViewed
<1>3. RvAt(spaces[t]) # NONE
  BY <1>1, LiveView
<1>4. op'.name = "exit" /\ op'.task = t
  BY <1>1
<1>5. RvAt(NONE) = NONE /\ RsAt(NONE) = {}
  BY DEF RvAt, RsAt
<1> QED BY <1>2, <1>3, <1>4, <1>5, ExitIs DEF Viewed

-----------------------------------------------------------------------------
(* The actions implement AddressSpace.                                     *)

\* A request of mmap that is granted: S are the pages VMSpace computes.
MmapFine(o, S, rv) ==
    /\ check_u_va_range(o.addr, o.len) /\ o.prot \subseteq {"R", "W", "X"}
    /\ S # {} /\ S \cap DOMAIN rv[o.task] = {}

\* What mmap does, over the range VMSpace computes, is what AddressSpace asks.
LEMMA MmapStepBy ==
    ASSUME NEW o, o.addr \in 0 .. USIZE - 1, o.len \in 0 .. USIZE - 1, NEW rv, NEW rv2,
           NEW S, S = Between(VpnFromVa(o.addr), VpnFromVa(EndVa(o.addr, o.len))),
           o.ans = IF MmapFine(o, S, rv) THEN 0 ELSE -1,
           rv2 = IF MmapFine(o, S, rv)
                 THEN [rv EXCEPT ![o.task] = [v \in DOMAIN @ \cup S |->
                                                IF v \in S THEN o.prot \cup {"U"} ELSE @[v]]]
                 ELSE rv
    PROVE  MmapStep(rv, rv2, o)
<1>1. o.addr \in Nat /\ o.len \in Nat
  BY VMAssumption
<1>2. /\ Abstract!Covering(o.addr, o.len) = S
      /\ o.len = 0 /\ o.addr % PAGE_SIZE_BYTES # 0 => Abstract!Covering(o.addr, 1) \subseteq S
  BY <1>1, CoveringIs
<1>3. S = Abstract!Covering(o.addr, o.len) \cup
          (IF o.len = 0 /\ o.addr % PAGE_SIZE_BYTES # 0 THEN Abstract!Covering(o.addr, 1) ELSE {})
  BY <1>2
<1>4. check_u_va_range(o.addr, o.len) <=> Abstract!InUserSpace(o.addr, o.len) /\ o.addr + o.len > 0
  BY RangeIs
<1>5. MmapFine(o, S, rv) <=> /\ Abstract!InUserSpace(o.addr, o.len) /\ o.addr + o.len > 0
                             /\ o.prot \subseteq {"R", "W", "X"}
                             /\ S # {} /\ S \cap DOMAIN rv[o.task] = {}
  BY <1>4 DEF MmapFine
<1>6. CASE MmapFine(o, S, rv)
  BY <1>3, <1>5, <1>6, Zenon DEF MmapStep
<1>7. CASE ~MmapFine(o, S, rv)
  BY <1>3, <1>5, <1>7, Zenon DEF MmapStep
<1> QED BY <1>6, <1>7

\* A range is reserved whole, and only if no page of it is.
LEMMA ReservedMore ==
    ASSUME NoneApart, NEW ph, NEW t, NEW sp \in Space, Apart(sp.areas), Fits(ph, sp, t),
           NEW f, f = ReservedOf(sp), Shows(f, Grants(sp.areas)), DOMAIN f \subseteq UserVpns,
           NEW s \in Nat, NEW e \in Nat, e <= USER_END_VPN, NEW p \in Flags,
           NEW r, r = add_new_area(sp, s, e, "Anonymous", p), NEW S, S = Between(s, e),
           r.space # NONE
    PROVE  /\ r.res = "Ok" <=> S # {} /\ S \cap DOMAIN f = {}
           /\ r.res = "Ok" => RvAt(r.space) = With(f, S, p) /\ RsAt(r.space) = Present(Backing(sp.areas))
           /\ r.res # "Ok" => r.space = sp
<1>1. PICK G : G = Grants(sp.areas) /\ G \subseteq Granted /\ Shows(f, G)
  BY DEF Grants
<1>2. /\ r.res = "Ok" <=> s < e /\ \A g \in G : ~(s <= g.vpn /\ g.vpn < e)
      /\ r.res = "Ok" => /\ Grants(r.space.areas) = G \cup Granting(s, e, p)
                         /\ Backing(r.space.areas) = Backing(sp.areas)
      /\ r.res # "Ok" => r.space = sp
  <2>1. AreaAdded(r, sp, s, e, p)
    BY AddNewAreaViews
  <2> QED BY <1>1, <2>1 DEF AreaAdded
<1>3. S # {} <=> s < e
  <2>1. ASSUME s < e PROVE s \in S
    BY <2>1, UserRange DEF Between, UserVpns
  <2>2. ASSUME NEW v \in S PROVE s < e
    BY UserLow DEF Between
  <2> QED BY <2>1, <2>2
<1>4. S \cap DOMAIN f = {} <=> \A g \in G : ~(s <= g.vpn /\ g.vpn < e)
  <2>1. \A v : v \in DOMAIN f <=> \E g \in G : g.vpn = v
    BY <1>1 DEF Shows
  <2>2. \A v \in DOMAIN f : v \in S <=> s <= v /\ v < e
    BY DEF Between
  <2> QED BY <2>1, <2>2
<1>5. ASSUME r.res = "Ok"
      PROVE  RvAt(r.space) = With(f, S, p) /\ RsAt(r.space) = Present(Backing(sp.areas))
  <2>1. PICK h : h = With(f, S, p)
    OBVIOUS
  <2>2. \A g \in G : ~(s <= g.vpn /\ g.vpn < e)
    BY <1>2, <1>5
  <2>3. Shows(h, G \cup Granting(s, e, p))
    BY <1>1, <2>1, <2>2, ShowsMore
  <2>4. r.space \in Space /\ Apart(r.space.areas)
    BY AddNewAreaType
  <2>5. Fits(ph, r.space, t)
    BY AddNewAreaFits DEF Changes
  <2>6. RvAt(r.space) = h /\ RsAt(r.space) = Present(Backing(r.space.areas))
    BY <1>2, <1>5, <2>3, <2>4, <2>5, RvShows
  <2> QED BY <1>2, <1>5, <2>1, <2>6
<1> QED BY <1>2, <1>3, <1>4, <1>5

\* mmap.
LEMMA MmapRefines ==
    ASSUME NoneApart, NoneNoMap, UInv, UInv', DInv, DInv', NEW t \in Tasks, NEW c \in MmapCalls,
           Mmap(t, c[1], c[2], c[3])
    PROVE  Abstract!SpaceNext
<1>c. PICK addr \in 0 .. USIZE - 1, len \in 0 .. USIZE - 1, prot \in {c[3]} :
         addr = c[1] /\ len = c[2] /\ prot = c[3]
  BY RequestAssumption
<1>m. Mmap(t, addr, len, prot)
  BY <1>c
<1>1. PICK r : r = add_new_area(spaces[t], VpnFromVa(addr), VpnFromVa(EndVa(addr, len)),
                                "Anonymous", prot \cup {"U"})
  OBVIOUS
<1>2. PICK S : S = Between(VpnFromVa(addr), VpnFromVa(EndVa(addr, len)))
  OBVIOUS
<1> DEFINE Rec(a) == [name |-> "mmap", task |-> t, addr |-> addr, len |-> len, prot |-> prot, ans |-> a]
<1>3. /\ Runs(t)
      /\ \/ /\ ~(check_u_va_range(addr, len) /\ prot \subseteq {"R", "W", "X"})
            /\ op' = Rec(-1) /\ UNCHANGED <<phys, spaces>>
         \/ /\ check_u_va_range(addr, len) /\ prot \subseteq {"R", "W", "X"}
            /\ spaces' = [spaces EXCEPT ![t] = r.space] /\ UNCHANGED phys
            /\ op' = Rec(IF r.res = "Ok" THEN 0 ELSE -1)
         \/ check_u_va_range(addr, len) /\ ~is_valid_va(EndVa(addr, len))
  BY <1>m, <1>1, Zenon DEF Mmap
<1>4. spaces[t] # NONE
  BY <1>3 DEF Runs
<1>5. PICK sp \in Space : /\ sp = spaces[t] /\ Apart(sp.areas) /\ Fits(phys, sp, t) /\ phys \in Phys
                          /\ RvAt(sp) = ReservedOf(sp) /\ RvAt(sp) # NONE
                          /\ RsAt(sp) = Present(Backing(sp.areas))
                          /\ Shows(ReservedOf(sp), Grants(sp.areas))
                          /\ DOMAIN ReservedOf(sp) \subseteq UserVpns
  BY <1>4, LiveView
<1>6. PICK rv, rv2 : rv = Rv(spaces) /\ rv2 = Rv(spaces')
  OBVIOUS
<1>7. CASE /\ ~(check_u_va_range(addr, len) /\ prot \subseteq {"R", "W", "X"})
           /\ op' = Rec(-1) /\ UNCHANGED <<phys, spaces>>
  <2>1. PICK o : o = op' /\ o = Rec(-1)
    BY <1>7
  <2>2. /\ o.name = "mmap" /\ o.task = t /\ o.addr = addr /\ o.len = len /\ o.prot = prot /\ o.ans = -1
    BY <2>1
  <2>3. ~MmapFine(o, S, rv)
    BY <2>2, <1>7 DEF MmapFine
  <2>4. rv2 = rv
    BY <1>6, <1>7
  <2>5. MmapStep(rv, rv2, o)
    BY <2>2, <2>3, <2>4, <1>2, MmapStepBy
  <2>6. spaces' = [spaces EXCEPT ![t] = sp]
    BY <1>5, <1>7 DEF UInv
  <2>7. Rv(spaces)[t] # NONE
    BY <2>6, <1>5, StepViewed DEF Viewed
  <2>8. Rs(phys', spaces') = Rs(phys, spaces)
    BY <1>7, QuietView
  <2> QED BY <2>1, <2>2, <2>5, <2>7, <2>8, <1>6, MmapIs
<1>8. CASE /\ check_u_va_range(addr, len) /\ prot \subseteq {"R", "W", "X"}
           /\ spaces' = [spaces EXCEPT ![t] = r.space] /\ UNCHANGED phys
           /\ op' = Rec(IF r.res = "Ok" THEN 0 ELSE -1)
  <2>1. PICK o : o = op' /\ o = Rec(IF r.res = "Ok" THEN 0 ELSE -1)
    BY <1>8
  <2>2. /\ o.name = "mmap" /\ o.task = t /\ o.addr = addr /\ o.len = len /\ o.prot = prot
        /\ o.ans = IF r.res = "Ok" THEN 0 ELSE -1
    BY <2>1
  <2>3. PICK p \in Flags : p = prot \cup {"U"}
    BY <1>8 DEF Flags
  <2>4. PICK sv \in Nat, ev \in Nat : sv = VpnFromVa(addr) /\ ev = VpnFromVa(EndVa(addr, len))
    BY RequestPages
  <2>5. ev <= USER_END_VPN
    BY <1>8, <2>4, RangeFacts
  <2>6. r = add_new_area(sp, sv, ev, "Anonymous", p) /\ S = Between(sv, ev)
    BY <1>1, <1>2, <1>5, <2>3, <2>4
  <2>7. r.space # NONE
    BY <2>5, <2>6, <1>5, AddNewAreaType DEF NoneApart
  <2>8. PICK f : f = ReservedOf(sp)
    OBVIOUS
  <2>9. /\ r.res = "Ok" <=> S # {} /\ S \cap DOMAIN f = {}
        /\ r.res = "Ok" => RvAt(r.space) = With(f, S, p) /\ RsAt(r.space) = RsAt(sp)
        /\ r.res # "Ok" => r.space = sp
    BY <1>5, <2>5, <2>6, <2>7, <2>8, ReservedMore
  <2>10. Viewed(t, r.space)
    BY <1>8, StepViewed
  <2>11. rv[t] = f /\ rv2 = [rv EXCEPT ![t] = RvAt(r.space)] /\ DOMAIN rv = Tasks
         /\ rv = [u \in DOMAIN rv |-> rv[u]]
    BY <2>8, <2>10, <1>5, <1>6 DEF Viewed
  <2>12. MmapFine(o, S, rv) <=> r.res = "Ok"
    BY <2>2, <2>9, <2>11, <1>8 DEF MmapFine
  <2>13. rv2 = IF MmapFine(o, S, rv)
               THEN [rv EXCEPT ![o.task] = [v \in DOMAIN @ \cup S |->
                                              IF v \in S THEN o.prot \cup {"U"} ELSE @[v]]]
               ELSE rv
    <3>1. CASE r.res = "Ok"
      <4>1. rv2 = [rv EXCEPT ![t] = [v \in DOMAIN rv[t] \cup S |-> IF v \in S THEN p ELSE rv[t][v]]]
        BY <3>1, <2>9, <2>11 DEF With
      <4> QED BY <4>1, <3>1, <2>2, <2>3, <2>12, Zenon
    <3>2. CASE r.res # "Ok"
      <4>1. rv2 = [rv EXCEPT ![t] = rv[t]]
        BY <3>2, <2>8, <2>9, <2>11, <1>5
      <4>2. rv2 = rv
        BY <4>1, <2>11
      <4> QED BY <4>2, <3>2, <2>12
    <3> QED BY <3>1, <3>2
  <2>14. MmapStep(rv, rv2, o)
    BY <2>2, <2>12, <2>13, <1>2, MmapStepBy
  <2>15. Rs(phys', spaces') = Rs(phys, spaces)
    <3>1. PICK rs, rs2 : rs = Rs(phys, spaces) /\ rs2 = Rs(phys', spaces')
      OBVIOUS
    <3>2. rs[t] = RsAt(sp) /\ rs2 = [rs EXCEPT ![t] = RsAt(r.space)] /\ DOMAIN rs = Tasks
          /\ rs = [u \in DOMAIN rs |-> rs[u]]
      BY <3>1, <2>10, <1>5 DEF Viewed
    <3>3. RsAt(r.space) = RsAt(sp)
      BY <2>9
    <3>4. rs2 = rs
      BY <3>2, <3>3
    <3> QED BY <3>1, <3>4
  <2>16. Rv(spaces)[t] # NONE
    BY <2>11, <2>8, <1>5, <1>6
  <2> QED BY <2>1, <2>2, <2>14, <2>15, <2>16, <1>6, MmapIs
<1>9. CASE check_u_va_range(addr, len) /\ ~is_valid_va(EndVa(addr, len))
  BY <1>9, RangeFacts
<1> QED BY <1>3, <1>7, <1>8, <1>9

\* The pages munmap takes away.
Gone(o) == IF check_u_va_range(o.addr, o.len) /\ o.len > 0
           THEN Between(VpnFromVa(o.addr), VpnFromVa(EndVa(o.addr, o.len))) ELSE {}

\* What munmap does, over the range VMSpace computes, is what AddressSpace asks.
LEMMA MunmapStepBy ==
    ASSUME NEW o, o.addr \in 0 .. USIZE - 1, o.len \in 0 .. USIZE - 1,
           NEW rv, NEW rs, NEW rv2, NEW rs2, NEW S, S = Gone(o),
           o.ans = IF check_u_va_range(o.addr, o.len) THEN 0 ELSE -1,
           rv2 = [rv EXCEPT ![o.task] = Without(rv[o.task], S)],
           rs2 = [rs EXCEPT ![o.task] = rs[o.task] \ S]
    PROVE  MunmapStep(rv, rs, rv2, rs2, o)
<1>1. o.addr \in Nat /\ o.len \in Nat
  BY VMAssumption
<1>2. Abstract!Covering(o.addr, o.len) = Between(VpnFromVa(o.addr), VpnFromVa(EndVa(o.addr, o.len)))
  BY <1>1, CoveringIs
<1>3. check_u_va_range(o.addr, o.len) <=> Abstract!InUserSpace(o.addr, o.len) /\ o.addr + o.len > 0
  BY RangeIs
<1>4. S = IF (Abstract!InUserSpace(o.addr, o.len) /\ o.addr + o.len > 0) /\ o.len > 0
          THEN Abstract!Covering(o.addr, o.len) ELSE {}
  BY <1>2, <1>3 DEF Gone
<1>5. o.ans = IF Abstract!InUserSpace(o.addr, o.len) /\ o.addr + o.len > 0 THEN 0 ELSE -1
  BY <1>3
<1>6. rv2 = [rv EXCEPT ![o.task] = [v \in DOMAIN rv[o.task] \ S |-> rv[o.task][v]]]
  BY DEF Without
<1> QED BY <1>4, <1>5, <1>6, Zenon DEF MunmapStep

\* Nothing taken away.
LEMMA WithoutNone ==
    ASSUME NEW f, f = [v \in DOMAIN f |-> f[v]]
    PROVE  Without(f, {}) = f
BY DEF Without

\* munmap.
LEMMA MunmapRefines ==
    ASSUME NoneApart, NoneNoMap, UInv, UInv', DInv, DInv', NEW t \in Tasks, NEW c \in MunmapCalls,
           Munmap(t, c[1], c[2])
    PROVE  Abstract!SpaceNext
<1>c. PICK addr \in 0 .. USIZE - 1, len \in 0 .. USIZE - 1 : addr = c[1] /\ len = c[2]
  BY RequestAssumption
<1>m. Munmap(t, addr, len)
  BY <1>c
<1>1. PICK r : r = unmap_range(phys, spaces[t], VpnFromVa(addr), VpnFromVa(EndVa(addr, len)))
  OBVIOUS
<1> DEFINE Rec(a) == [name |-> "munmap", task |-> t, addr |-> addr, len |-> len, ans |-> a]
<1>3. /\ Runs(t)
      /\ \/ ~check_u_va_range(addr, len) /\ op' = Rec(-1) /\ UNCHANGED <<phys, spaces>>
         \/ check_u_va_range(addr, len) /\ len = 0 /\ op' = Rec(0) /\ UNCHANGED <<phys, spaces>>
         \/ /\ check_u_va_range(addr, len) /\ len > 0
            /\ \/ spaces' = [spaces EXCEPT ![t] = r.space] /\ op' = Rec(IF r.res = "Ok" THEN 0 ELSE -1)
               \/ ~(is_valid_va(EndVa(addr, len)) /\ r.res # "Panic")
  BY <1>m, <1>1, Zenon DEF Munmap
<1>4. spaces[t] # NONE
  BY <1>3 DEF Runs
<1>5. PICK sp \in Space : /\ sp = spaces[t] /\ Apart(sp.areas) /\ Fits(phys, sp, t) /\ phys \in Phys
                          /\ RvAt(sp) = ReservedOf(sp) /\ RvAt(sp) # NONE
                          /\ RsAt(sp) = Present(Backing(sp.areas))
                          /\ Shows(ReservedOf(sp), Grants(sp.areas))
                          /\ DOMAIN ReservedOf(sp) \subseteq UserVpns
  BY <1>4, LiveView
<1>6. PICK rv, rv2 : rv = Rv(spaces) /\ rv2 = Rv(spaces')
  OBVIOUS
<1>7. PICK rs, rs2 : rs = Rs(phys, spaces) /\ rs2 = Rs(phys', spaces')
  OBVIOUS
<1>8. PICK f : f = RvAt(sp) /\ f = [v \in DOMAIN f |-> f[v]] /\ Shows(f, Grants(sp.areas))
               /\ DOMAIN f \subseteq UserVpns
  BY <1>5 DEF Shows
\* What is to be shown of the answer and of the space after the request.
<1>9. ASSUME NEW a, op' = Rec(a), a = IF check_u_va_range(addr, len) THEN 0 ELSE -1,
             NEW sp2, spaces' = [spaces EXCEPT ![t] = sp2],
             RvAt(sp2) = Without(f, Gone(Rec(a))), RsAt(sp2) = RsAt(sp) \ Gone(Rec(a))
      PROVE  Abstract!SpaceNext
  <2>1. PICK o : o = op' /\ o = Rec(a)
    BY <1>9
  <2>2. o.name = "munmap" /\ o.task = t /\ o.addr = addr /\ o.len = len /\ o.ans = a
    BY <2>1
  <2>3. Viewed(t, sp2)
    BY <1>9, StepViewed
  <2>4. /\ rv[t] = f /\ rs[t] = RsAt(sp) /\ rv2 = [rv EXCEPT ![t] = RvAt(sp2)]
        /\ rs2 = [rs EXCEPT ![t] = RsAt(sp2)]
    BY <2>3, <1>5, <1>6, <1>7, <1>8 DEF Viewed
  <2>5. PICK S : S = Gone(o)
    OBVIOUS
  <2>6. RvAt(sp2) = Without(rv[o.task], S) /\ RsAt(sp2) = rs[o.task] \ S
    BY <1>9, <2>1, <2>2, <2>4, <2>5
  <2>7. o.ans = IF check_u_va_range(o.addr, o.len) THEN 0 ELSE -1
    BY <1>9, <2>2
  <2>8. MunmapStep(rv, rs, rv2, rs2, o)
    BY <2>2, <2>4, <2>5, <2>6, <2>7, MunmapStepBy
  <2>9. Rv(spaces)[t] # NONE
    BY <2>4, <1>5, <1>6, <1>8
  <2> QED BY <2>1, <2>2, <2>8, <2>9, <1>6, <1>7, MunmapIs
<1>10. ASSUME NEW a PROVE Gone(Rec(a)) = IF check_u_va_range(addr, len) /\ len > 0
                                         THEN Between(VpnFromVa(addr), VpnFromVa(EndVa(addr, len))) ELSE {}
  <2>1. Rec(a).addr = addr /\ Rec(a).len = len
    OBVIOUS
  <2> QED BY <2>1, Zenon DEF Gone
<1> HIDE DEF Rec
<1>11. CASE /\ UNCHANGED <<phys, spaces>> /\ ~(check_u_va_range(addr, len) /\ len > 0)
            /\ \E a : op' = Rec(a) /\ a = IF check_u_va_range(addr, len) THEN 0 ELSE -1
  <2>1. PICK a : op' = Rec(a) /\ a = IF check_u_va_range(addr, len) THEN 0 ELSE -1
    BY <1>11
  <2>2. Gone(Rec(a)) = {}
    BY <1>10, <1>11
  <2>3. spaces' = [spaces EXCEPT ![t] = sp]
    BY <1>5, <1>11 DEF UInv
  <2>4. RvAt(sp) = Without(f, {})
    BY <1>8, WithoutNone
  <2> QED BY <1>9, <2>1, <2>2, <2>3, <2>4
<1>12. CASE /\ check_u_va_range(addr, len) /\ len > 0
            /\ \/ spaces' = [spaces EXCEPT ![t] = r.space] /\ op' = Rec(IF r.res = "Ok" THEN 0 ELSE -1)
               \/ ~(is_valid_va(EndVa(addr, len)) /\ r.res # "Panic")
  <2>1. PICK sv \in Nat, ev \in Nat : sv = VpnFromVa(addr) /\ ev = VpnFromVa(EndVa(addr, len)) /\ sv < ev
    BY <1>12, RequestPages
  <2>2. ev <= USER_END_VPN /\ is_valid_va(EndVa(addr, len))
    BY <1>12, <2>1, RangeFacts
  <2>3. r.res = "Ok" /\ Changes(phys, sp, r.phys, r.space, t)
    BY <1>1, <1>5, <2>1, <2>2, UnmapFits
  <2>4. r \in State /\ Apart(r.space.areas)
    BY <1>1, <1>5, <2>1, UnmapRangeType
  <2>5. r.space \in Space /\ r.space # NONE
    BY <2>4, StateParts DEF NoneApart
  <2>6. /\ Grants(r.space.areas) = Rest(Grants(sp.areas), sv, ev)
        /\ Backing(r.space.areas) = Rest(Backing(sp.areas), sv, ev)
    BY <1>1, <1>5, <2>1, <2>2, UnmapViews
  <2>7. PICK S : S = Between(sv, ev)
    OBVIOUS
  <2>8. Shows(Without(f, S), Grants(r.space.areas))
    BY <1>8, <2>6, <2>7, ShowsLess
  <2>9. Fits(r.phys, r.space, t)
    BY <2>3 DEF Changes
  <2>10. RvAt(r.space) = Without(f, S) /\ RsAt(r.space) = Present(Backing(r.space.areas))
    BY <2>4, <2>5, <2>8, <2>9, RvShows
  <2>11. RsAt(r.space) = RsAt(sp) \ S
    BY <2>6, <2>7, <2>10, <1>5, PresentLess
  <2>12. \A a : Gone(Rec(a)) = S
    BY <1>10, <1>12, <2>1, <2>7
  <2>13. op' = Rec(0) /\ spaces' = [spaces EXCEPT ![t] = r.space]
    BY <1>12, <2>2, <2>3
  <2> QED BY <1>9, <1>12, <2>10, <2>11, <2>12, <2>13
<1> QED BY <1>3, <1>11, <1>12

\* A load or store that goes through is one that is granted, to a user page that
\* is backed.
LEMMA HitGranted ==
    ASSUME NEW ph, NEW sp \in Space, NEW t, Fits(ph, sp, t), NEW va \in 0 .. USIZE - 1, is_valid_va(va),
           NEW need, need \in SUBSET {"U", "R", "W"}, "U" \in need, NEW v, v = VpnFromVa(va),
           NEW e, e = Translate(ph.mem, sp.root_pgt.ppn, v), e # NONE, need \subseteq e.flags
    PROVE  /\ v \in Present(Backing(sp.areas))
           /\ \E g \in Grants(sp.areas) : g.vpn = v /\ need \subseteq g.flags
<1>1. PICK al, m, rt, B : /\ al = ph.alloc /\ m = ph.mem /\ rt = sp.root_pgt
                          /\ B = Backing(sp.areas) /\ Held(al, m, rt, B, t)
  BY DEF Fits
<1>2. "U" \in e.flags /\ e = Translate(m, rt.ppn, VpnFromVa(va))
  BY <1>1
<1>3. PICK b \in B : e = Entry(b) /\ b.vpn = v
  BY <1>1, <1>2, HitBacked
<1>4. need \subseteq b.flags
  BY <1>3 DEF Entry
<1>5. va \in Nat
  BY VMAssumption
<1>6. va < SV39_HALF
  <2>1. CASE USIZE - SV39_HALF <= va
    <3>1. /\ parse_vpn(v)[2] \in KernelIndex
          /\ parse_vpn(v)[1] \in Index /\ parse_vpn(v)[0] \in Index
      BY <2>1, HighAddress
    <3>2. "U" \notin e.flags
      BY <3>1, <1>1, <1>2, KernelEntry
    <3> QED BY <3>2, <1>2
  <2> QED BY <2>1 DEF is_valid_va
<1>7. v \in Nat /\ v <= USER_END_VPN
  <2>1. PICK n \in Nat : n = USER_END_VPN + 1 /\ va < n * PAGE_SIZE_BYTES
    BY <1>6, UserEnd
  <2>2. v \in Nat /\ v < n
    BY <2>1, <1>5, LowAddress
  <2> QED BY <2>1, <2>2, UserEnd
<1>8. sp.areas \in Seq(Area) /\ InHalves(sp.areas)
  BY StateParts DEF Fits
<1>9. b.vpn \in UserVpns /\ [vpn |-> b.vpn, flags |-> b.flags] \in Grants(sp.areas)
  BY <1>1, <1>3, <1>7, <1>8, BackedGrant
<1>10. v \in Present(Backing(sp.areas))
  BY <1>1, <1>3, <1>9 DEF Present
<1> QED BY <1>3, <1>4, <1>9, <1>10

\* A grant is seen in what is reserved.
LEMMA GrantShown ==
    ASSUME NEW f, NEW G, Shows(f, G), NEW g \in G, NEW v, g.vpn = v, NEW need, need \subseteq g.flags
    PROVE  v \in DOMAIN f /\ need \subseteq f[v]
BY DEF Shows

\* A page that is missing, though it is resident, is one that is not permitted.
LEMMA MissingBarred ==
    ASSUME NEW sp \in Space, InHalves(sp.areas), NEW f, Shows(f, Grants(sp.areas)), NEW need,
           NEW v \in UserVpns, Missing(sp.areas, v, need), v \in Present(Backing(sp.areas))
    PROVE  ~(v \in DOMAIN f /\ need \subseteq f[v])
<1>1. PICK b \in Backing(sp.areas) : b.vpn = v
  BY DEF Present
<1>2. sp.areas \in Seq(Area) /\ v <= USER_END_VPN
  BY StateParts, UserLow
<1>3. [vpn |-> b.vpn, flags |-> b.flags] \in Grants(sp.areas)
  BY <1>1, <1>2, BackedGrant
<1>4. f[v] = b.flags
  BY <1>1, <1>3 DEF Shows
<1> QED BY <1>1, <1>4 DEF Missing

\* The page tables and the space when VMSpace::map has run.
LEMMA MapKeepsView ==
    ASSUME NoneApart, NEW ph \in Phys, NEW sp \in Space, sp # NONE, Apart(sp.areas),
           NEW t \in Tasks, Fits(ph, sp, t),
           NEW v \in UserVpns, NEW need, Missing(sp.areas, v, need), NEW r, r = map(ph, sp, v, need)
    PROVE  /\ r.space # NONE /\ RvAt(r.space) = RvAt(sp)
           /\ r.res = "Ok" => /\ RsAt(r.space) = RsAt(sp) \cup {v}
                              /\ \E g \in Grants(sp.areas) : g.vpn = v /\ need \subseteq g.flags
           /\ r.res # "Ok" => RsAt(r.space) = RsAt(sp)
<1>1. Fits(r.phys, r.space, t)
  BY MapFits DEF Changes
<1>2. v \in Nat
  BY UserLow
<1>3. r.space \in Space /\ SameRanges(sp.areas, r.space.areas)
  BY <1>2, MapType
<1>4. Apart(r.space.areas) /\ r.space # NONE
  BY <1>3, SameApart DEF NoneApart
<1>5. PICK br : br = r.space.areas
  OBVIOUS
<1>6. /\ Grants(br) = Grants(sp.areas)
      /\ r.res = "Ok" => /\ \E g \in Grants(sp.areas) : g.vpn = v /\ need \subseteq g.flags
                         /\ Present(Backing(br)) = Present(Backing(sp.areas)) \cup {v}
      /\ r.res # "Ok" => Backing(br) = Backing(sp.areas)
  BY <1>5, MapViews
<1>7. Shows(ReservedOf(sp), Grants(sp.areas))
  BY ReservedShows DEF Fits
<1>8. RvAt(sp) = ReservedOf(sp) /\ RsAt(sp) = Present(Backing(sp.areas))
  BY DEF RvAt, RsAt
<1>9. RvAt(r.space) = ReservedOf(sp) /\ RsAt(r.space) = Present(Backing(br))
  BY <1>1, <1>3, <1>4, <1>5, <1>6, <1>7, RvShows
<1> QED BY <1>4, <1>6, <1>8, <1>9

\* An access, or the fault it takes.
LEMMA AccessRefines ==
    ASSUME ~SpuriousFaults, NoneApart, NoneNoMap, UInv, UInv', DInv, DInv', NEW t \in Tasks,
           NEW c \in Accesses, NEW mode \in {"user", "kernel"}, Access(t, c[1], c[2], mode)
    PROVE  Abstract!SpaceNext
<1>c. PICK va \in 0 .. USIZE - 1, kind \in {c[2]} : va = c[1] /\ kind = c[2]
  BY AccessAssumption
<1>a. Access(t, va, kind, mode)
  BY <1>c
<1>n. va \in Nat
  BY VMAssumption
<1>1. PICK vpn, need, e : /\ vpn = VpnFromVa(va) /\ need = Need(kind)
                          /\ e = Translate(phys.mem, spaces[t].root_pgt.ppn, vpn)
  OBVIOUS
<1>r. PICK r : r = map(phys, spaces[t], vpn, need)
  OBVIOUS
<1> DEFINE Hit == is_valid_va(va) /\ e # NONE /\ need \subseteq e.flags
           Rec(a) == [name |-> "access", task |-> t, va |-> va, need |-> need, mode |-> mode, ans |-> a]
<1>2. /\ Runs(t) /\ (mode = "kernel" => check_u_va(va))
      /\ \/ Hit /\ UNCHANGED spaces /\ op' = Rec("done")
         \/ op'.name = "halt" /\ UNCHANGED <<phys, spaces>>
         \/ /\ ~Hit /\ (check_u_va(va) \/ mode = "kernel")
            /\ \/ r.res = "Ok" /\ spaces' = [spaces EXCEPT ![t] = r.space] /\ op' = Rec("done")
               \/ /\ r.res # "Ok" /\ spaces' = [spaces EXCEPT ![t] = r.space]
                  /\ mode = "kernel" /\ op' = Rec("failed")
               \/ /\ r.res # "Ok" /\ spaces' = [spaces EXCEPT ![t] = NONE]
                  /\ mode = "user" /\ op' = Rec("killed")
  <2>1. Need(kind) = need
    BY <1>1
  <2>2. ASSUME NEW why, Halt(why) PROVE op'.name = "halt" /\ UNCHANGED <<phys, spaces>>
    BY <2>2 DEF Halt
  <2>3. "Ok" \in {"Ok", "Panic"}
    OBVIOUS
  <2> QED BY <1>a, <1>1, <1>r, <2>1, <2>2, <2>3, Zenon DEF Access
<1>4. spaces[t] # NONE
  BY <1>2 DEF Runs
<1>5. PICK sp \in Space : /\ sp = spaces[t] /\ sp # NONE /\ Apart(sp.areas)
                          /\ Fits(phys, sp, t) /\ phys \in Phys
                          /\ RvAt(sp) = ReservedOf(sp) /\ RvAt(sp) # NONE
                          /\ RsAt(sp) = Present(Backing(sp.areas))
                          /\ Shows(ReservedOf(sp), Grants(sp.areas))
  BY <1>4, LiveView
<1>u. need \in SUBSET {"U", "R", "W"} /\ "U" \in need
  BY <1>1 DEF Need
<1>6. PICK f : f = RvAt(sp) /\ Shows(f, Grants(sp.areas))
  BY <1>5
<1>v. vpn = va \div PAGE_SIZE_BYTES
  BY <1>1 DEF VpnFromVa
\* An access that is granted and makes its page resident.
<1>7. ASSUME op' = Rec("done"), NEW sp2, spaces' = [spaces EXCEPT ![t] = sp2], RvAt(sp2) = RvAt(sp),
             RsAt(sp2) = RsAt(sp) \cup {vpn},
             \E g \in Grants(sp.areas) : g.vpn = vpn /\ need \subseteq g.flags
      PROVE  Abstract!SpaceNext
  <2>1. PICK rv, rs : rv = Rv(spaces) /\ rs = Rs(phys, spaces)
    OBVIOUS
  <2>2. PICK rv2, rs2 : rv2 = Rv(spaces') /\ rs2 = Rs(phys', spaces')
    OBVIOUS
  <2>3. Viewed(t, sp2)
    BY <1>7, StepViewed
  <2>4. /\ rv[t] = f /\ rs[t] = RsAt(sp) /\ rv2 = [rv EXCEPT ![t] = RvAt(sp2)]
        /\ rs2 = [rs EXCEPT ![t] = RsAt(sp2)] /\ DOMAIN rv = Tasks /\ rv = [u \in DOMAIN rv |-> rv[u]]
    BY <2>1, <2>2, <2>3, <1>5, <1>6 DEF Viewed
  <2>5. rv2 = rv /\ rs2 = [rs EXCEPT ![t] = rs[t] \cup {vpn}]
    BY <2>4, <1>6, <1>7
  <2>6. vpn \in DOMAIN f /\ need \subseteq f[vpn]
    BY <1>6, <1>7, GrantShown
  <2>7. PICK o : /\ o = op' /\ o.name = "access" /\ o.task = t /\ o.va = va /\ o.need = need /\ o.ans = "done"
    BY <1>7
  <2>8. Touched(rv, o)
    BY <2>4, <2>6, <2>7, <1>v DEF Touched
  <2>9. rs2 = [rs EXCEPT ![o.task] = @ \cup {o.va \div PAGE_SIZE_BYTES}] /\ rv[o.task] # NONE
    BY <2>4, <2>5, <2>7, <1>5, <1>6, <1>v
  <2> QED BY <2>1, <2>2, <2>5, <2>7, <2>8, <2>9, TouchIs
<1> HIDE DEF Rec
<1>8. CASE Hit /\ UNCHANGED spaces /\ op' = Rec("done")
  <2>1. /\ vpn \in Present(Backing(sp.areas))
        /\ \E g \in Grants(sp.areas) : g.vpn = vpn /\ need \subseteq g.flags
    BY <1>1, <1>5, <1>8, <1>u, HitGranted
  <2>2. spaces' = [spaces EXCEPT ![t] = sp]
    BY <1>5, <1>8 DEF UInv
  <2>3. RsAt(sp) = RsAt(sp) \cup {vpn}
    BY <2>1, <1>5
  <2> QED BY <1>7, <1>8, <2>1, <2>2, <2>3
<1>9. CASE op'.name = "halt" /\ UNCHANGED <<phys, spaces>>
  BY <1>9, QuietView, HaltIs
<1>10. CASE /\ ~Hit /\ (check_u_va(va) \/ mode = "kernel")
            /\ \/ r.res = "Ok" /\ spaces' = [spaces EXCEPT ![t] = r.space] /\ op' = Rec("done")
               \/ /\ r.res # "Ok" /\ spaces' = [spaces EXCEPT ![t] = r.space]
                  /\ mode = "kernel" /\ op' = Rec("failed")
               \/ /\ r.res # "Ok" /\ spaces' = [spaces EXCEPT ![t] = NONE]
                  /\ mode = "user" /\ op' = Rec("killed")
  <2>1. check_u_va(va)
    BY <1>2, <1>10
  <2>2. vpn \in UserVpns
    BY <2>1, <1>n, <1>1, UserAddress
  <2>3. is_valid_va(va)
    BY <2>1, <1>n, UserEnd DEF check_u_va, is_valid_va
  <2>4. ~(e # NONE /\ need \subseteq e.flags)
    BY <2>3, <1>10
  <2>5. Missing(sp.areas, vpn, need)
    BY <2>2, <2>4, <1>1, <1>5, FaultMissing DEF NoneApart
  <2>6. /\ r.space # NONE /\ RvAt(r.space) = RvAt(sp)
        /\ r.res = "Ok" => /\ RsAt(r.space) = RsAt(sp) \cup {vpn}
                           /\ \E g \in Grants(sp.areas) : g.vpn = vpn /\ need \subseteq g.flags
        /\ r.res # "Ok" => RsAt(r.space) = RsAt(sp)
    BY <2>2, <2>5, <1>5, <1>r, MapKeepsView
  <2>7. CASE r.res = "Ok" /\ spaces' = [spaces EXCEPT ![t] = r.space] /\ op' = Rec("done")
    BY <2>6, <2>7, <1>7
  <2>8. ASSUME NEW a, op' = Rec(a), r.res # "Ok", NEW sp2, spaces' = [spaces EXCEPT ![t] = sp2],
               \/ a = "failed" /\ mode = "kernel" /\ RvAt(sp2) = RvAt(sp) /\ RsAt(sp2) = RsAt(sp)
               \/ a = "killed" /\ mode = "user" /\ RvAt(sp2) = NONE /\ RsAt(sp2) = {}
        PROVE  Abstract!SpaceNext
    <3>1. PICK rv, rs : rv = Rv(spaces) /\ rs = Rs(phys, spaces)
      OBVIOUS
    <3>2. PICK rv2, rs2 : rv2 = Rv(spaces') /\ rs2 = Rs(phys', spaces')
      OBVIOUS
    <3>3. Viewed(t, sp2)
      BY <2>8, StepViewed
    <3>4. /\ rv[t] = f /\ rs[t] = RsAt(sp) /\ rv2 = [rv EXCEPT ![t] = RvAt(sp2)]
          /\ rs2 = [rs EXCEPT ![t] = RsAt(sp2)] /\ DOMAIN rv = Tasks /\ rv = [u \in DOMAIN rv |-> rv[u]]
          /\ DOMAIN rs = Tasks /\ rs = [u \in DOMAIN rs |-> rs[u]]
      BY <3>1, <3>2, <3>3, <1>5, <1>6 DEF Viewed
    <3>5. PICK o : /\ o = op' /\ o.name = "access" /\ o.task = t /\ o.va = va /\ o.need = need
                   /\ o.mode = mode /\ o.ans = a
      BY <2>8 DEF Rec
    <3>6. ~(vpn \in DOMAIN f /\ need \subseteq f[vpn]) \/ vpn \notin rs[t]
      <4>1. InHalves(sp.areas)
        BY <1>5 DEF Fits
      <4>2. rs[t] = Present(Backing(sp.areas))
        BY <3>4, <1>5
      <4>3. ASSUME vpn \in Present(Backing(sp.areas))
            PROVE  ~(vpn \in DOMAIN f /\ need \subseteq f[vpn])
        BY <4>1, <4>3, <2>2, <2>5, <1>5, <1>6, MissingBarred
      <4> QED BY <4>2, <4>3
    <3>7. Untouched(rv, rs, o)
      BY <3>4, <3>5, <3>6, <1>v DEF Untouched, Touched
    <3>8. CASE a = "failed" /\ mode = "kernel" /\ RvAt(sp2) = RvAt(sp) /\ RsAt(sp2) = RsAt(sp)
      <4>1. rv2 = rv /\ rs2 = rs
        BY <3>4, <3>8, <1>6
      <4> QED BY <4>1, <3>1, <3>2, <3>4, <3>5, <3>7, <3>8, <1>5, <1>6, FailIs
    <3>9. CASE a = "killed" /\ mode = "user" /\ RvAt(sp2) = NONE /\ RsAt(sp2) = {}
      <4>1. rv2 = [rv EXCEPT ![o.task] = NONE] /\ rs2 = [rs EXCEPT ![o.task] = {}]
        BY <3>4, <3>5, <3>9
      <4> QED BY <4>1, <3>1, <3>2, <3>4, <3>5, <3>7, <3>9, <1>5, <1>6, FailIs
    <3> QED BY <2>8, <3>8, <3>9
  <2>9. RvAt(NONE) = NONE /\ RsAt(NONE) = {}
    BY DEF RvAt, RsAt
  <2>10. CASE r.res # "Ok" /\ spaces' = [spaces EXCEPT ![t] = r.space] /\ mode = "kernel" /\ op' = Rec("failed")
    BY <2>6, <2>8, <2>10
  <2>11. CASE r.res # "Ok" /\ spaces' = [spaces EXCEPT ![t] = NONE] /\ mode = "user" /\ op' = Rec("killed")
    BY <2>8, <2>9, <2>11
  <2> QED BY <1>10, <2>7, <2>10, <2>11
<1> HIDE DEF Hit
<1> QED BY <1>2, <1>8, <1>9, <1>10

\* UserMemory: the areas, page tables and frames of the tasks implement the
\* address space the kernel promises them, page by page.
THEOREM SpacesImplement ==
    ASSUME ~SpuriousFaults, NoneApart, NoneNoMap
    PROVE  Spec => ImplementsAddressSpace
<1>1. Init => Abstract!SpaceInit
  <2>1. SUFFICES ASSUME Init PROVE Abstract!SpaceInit
    OBVIOUS
  <2>2. op = NONE /\ \A t \in Tasks : spaces[t] = NONE
    BY <2>1, Zenon DEF Init
  <2> QED BY <2>2 DEF Abstract!SpaceInit
<1>2. UInv /\ DInv /\ UInv' /\ DInv' /\ [Next]_vars => [Abstract!SpaceNext]_Abstract!svars
  <2>1. SUFFICES ASSUME UInv, DInv, UInv', DInv', [Next]_vars PROVE [Abstract!SpaceNext]_Abstract!svars
    OBVIOUS
  <2>2. CASE AddTask
    BY <2>1, <2>2, AddTaskRefines
  <2>3. ASSUME NEW t \in Tasks, NEW c \in MmapCalls, Mmap(t, c[1], c[2], c[3])
        PROVE  Abstract!SpaceNext
    BY <2>1, <2>3, MmapRefines
  <2>4. ASSUME NEW t \in Tasks, NEW c \in MunmapCalls, Munmap(t, c[1], c[2])
        PROVE  Abstract!SpaceNext
    BY <2>1, <2>4, MunmapRefines
  <2>5. ASSUME NEW t \in Tasks, NEW c \in Accesses, NEW mode \in {"user", "kernel"},
               Access(t, c[1], c[2], mode)
        PROVE  Abstract!SpaceNext
    BY <2>1, <2>5, AccessRefines
  <2>6. ASSUME NEW t \in Tasks, Exit(t) PROVE Abstract!SpaceNext
    BY <2>1, <2>6, ExitRefines
  <2>7. CASE UNCHANGED vars
    BY <2>7 DEF vars, Abstract!svars, Pte
  <2>8. Off => UNCHANGED vars
    BY DEF Off
  <2> QED BY <2>1, <2>2, <2>3, <2>4, <2>5, <2>6, <2>7, <2>8, Zenon DEF Next
<1> QED BY <1>1, <1>2, SpacesInvariance, PTL DEF Spec, ImplementsAddressSpace, Abstract!SpaceSpec
=============================================================================
