----------------------------- MODULE Sv39Proofs -----------------------------
(***************************************************************************)
(* Lemmas about the page tables, the page allocator and the boot that the  *)
(* proofs about Sv39Table and UserMemory share.  Memory holds words of any *)
(* set W that includes the entries.  The order of the module: arithmetic   *)
(* of page numbers, loops, the tree of user tables, the allocator,         *)
(* map_create, unmap, init_kernel_satp and new_copy.                       *)
(***************************************************************************)
EXTENDS KernelHalf, FiniteSetTheorems, WellFoundedInduction, TLAPS
-----------------------------------------------------------------------------
(* Arithmetic of virtual page numbers.                                     *)

\* What the assumptions say of the shape of the tables.
LEMMA Shape ==
    /\ PTES_PER_TABLE \in Nat /\ 2 <= PTES_PER_TABLE
    /\ KERNEL_ROOT \in Nat /\ 1 <= KERNEL_ROOT /\ KERNEL_ROOT < PTES_PER_TABLE
    /\ ROOT_SPAN \in Nat /\ PTES_PER_TABLE <= ROOT_SPAN
    /\ ROOT_SPAN = PTES_PER_TABLE * PTES_PER_TABLE
<1>1. /\ PTES_PER_TABLE \in Nat /\ 2 <= PTES_PER_TABLE
      /\ KERNEL_ROOT \in Nat /\ 1 <= KERNEL_ROOT /\ KERNEL_ROOT < PTES_PER_TABLE
  BY Sv39Assumption
<1>2. PTES_PER_TABLE * PTES_PER_TABLE \in Nat /\ PTES_PER_TABLE <= PTES_PER_TABLE * PTES_PER_TABLE
  BY <1>1
<1> QED BY <1>1, <1>2 DEF ROOT_SPAN

\* A multiple of a positive number grows by at least that number.
LEMMA MulStep ==
    ASSUME NEW a \in Int, NEW b \in Int, a < b, NEW d \in Nat
    PROVE  a * d + d <= b * d /\ a * d \in Int /\ b * d \in Int
OBVIOUS

\* The page numbers of three indices are ordered as the indices are, the one of
\* the root first.
LEMMA VpnOrder ==
    ASSUME NEW i \in Int, NEW j \in Index, NEW m \in Index,
           NEW a \in Int, NEW b \in Index, NEW c \in Index
    PROVE  /\ VpnOf(i, j, m) \in Int
           /\ i < a => VpnOf(i, j, m) < VpnOf(a, b, c)
           /\ i = a /\ j < b => VpnOf(i, j, m) < VpnOf(a, b, c)
           /\ i = a /\ j = b => (VpnOf(i, j, m) < VpnOf(a, b, c) <=> m < c)
<1> DEFINE N == PTES_PER_TABLE
<1>n. N \in Nat /\ 2 <= N
  BY Shape
<1>t. j \in Int /\ 0 <= j /\ j < N /\ m \in Int /\ 0 <= m /\ m < N
      /\ b \in Int /\ 0 <= b /\ b < N /\ c \in Int /\ 0 <= c /\ c < N
  BY <1>n DEF Index
<1> HIDE DEF N
<1> PICK q : q = N * N
  OBVIOUS
<1>v. VpnOf(i, j, m) = i * q + j * N + m /\ VpnOf(a, b, c) = a * q + b * N + c
  BY DEF VpnOf, ROOT_SPAN, N
<1>q. q \in Nat
  BY <1>n
<1>1. j * N \in Int /\ b * N \in Int /\ 0 <= j * N /\ 0 <= b * N /\ i * q \in Int /\ a * q \in Int
  BY <1>n, <1>t, <1>q
<1>2. j * N + N <= q
  <2>1. j * N + N <= N * N
    BY <1>n, <1>t, MulStep
  <2> QED BY <2>1
<1>3. i < a => i * q + q <= a * q
  BY <1>q, MulStep
<1>4. j < b => j * N + N <= b * N
  BY <1>n, <1>t, MulStep
<1> HIDE DEF N
<1>5. i < a => VpnOf(i, j, m) < VpnOf(a, b, c)
  BY <1>v, <1>1, <1>2, <1>3, <1>t, <1>n, <1>q
<1>6. i = a /\ j < b => VpnOf(i, j, m) < VpnOf(a, b, c)
  BY <1>v, <1>1, <1>4, <1>t, <1>n, <1>q
<1>7. i = a /\ j = b => (VpnOf(i, j, m) < VpnOf(a, b, c) <=> m < c)
  BY <1>v, <1>1, <1>t, <1>n, <1>q
<1> QED BY <1>5, <1>6, <1>7, <1>v, <1>1, <1>t

\* No page has two triples of indices.
LEMMA VpnUnique ==
    ASSUME NEW i \in Index, NEW j \in Index, NEW m \in Index,
           NEW a \in Index, NEW b \in Index, NEW c \in Index,
           VpnOf(i, j, m) = VpnOf(a, b, c)
    PROVE  i = a /\ j = b /\ m = c
<1>t. i \in Int /\ j \in Int /\ m \in Int /\ a \in Int /\ b \in Int /\ c \in Int
  BY Shape DEF Index
<1>1. VpnOf(i, j, m) \in Int /\ VpnOf(a, b, c) \in Int
  BY <1>t, VpnOrder
<1>2. ~(VpnOf(i, j, m) < VpnOf(a, b, c)) /\ ~(VpnOf(a, b, c) < VpnOf(i, j, m))
  BY <1>1
<1>3. ~(i < a) /\ ~(a < i)
  <2>1. i < a => VpnOf(i, j, m) < VpnOf(a, b, c)
    BY <1>t, VpnOrder
  <2>2. a < i => VpnOf(a, b, c) < VpnOf(i, j, m)
    BY <1>t, VpnOrder
  <2> QED BY <1>2, <2>1, <2>2
<1>4. i = a
  BY <1>3, <1>t
<1>5. ~(j < b) /\ ~(b < j)
  <2>1. j < b => VpnOf(i, j, m) < VpnOf(a, b, c)
    BY <1>t, <1>4, VpnOrder
  <2>2. b < j => VpnOf(a, b, c) < VpnOf(i, j, m)
    BY <1>t, <1>4, VpnOrder
  <2> QED BY <1>2, <2>1, <2>2
<1>6. j = b
  BY <1>5, <1>t
<1>7. ~(m < c) /\ ~(c < m)
  <2>1. m < c => VpnOf(i, j, m) < VpnOf(a, b, c)
    BY <1>t, <1>4, <1>6, VpnOrder
  <2>2. c < m => VpnOf(a, b, c) < VpnOf(i, j, m)
    BY <1>t, <1>4, <1>6, VpnOrder
  <2> QED BY <1>2, <2>1, <2>2
<1> QED BY <1>4, <1>6, <1>7, <1>t

\* Division with remainder.
LEMMA DivMod ==
    ASSUME NEW v \in Nat, NEW d \in Nat, d # 0
    PROVE  /\ v \div d \in Nat /\ v % d \in Nat /\ v % d < d
           /\ v = (v \div d) * d + (v % d)
OBVIOUS

\* and its uniqueness.
LEMMA DivUnique ==
    ASSUME NEW v \in Nat, NEW d \in Nat, d # 0, NEW q \in Nat, NEW r \in Nat, r < d,
           v = q * d + r
    PROVE  v \div d = q
OBVIOUS

\* parse_vpn takes a page number apart into the indices VpnOf puts together; a
\* page of user space has a root index below the kernel half.
LEMMA ParseVpn ==
    ASSUME NEW v \in Nat, NEW B \in Nat, B <= PTES_PER_TABLE, v < B * ROOT_SPAN
    PROVE  /\ parse_vpn(v) \in [0 .. 2 -> Index]
           /\ parse_vpn(v)[2] < B
           /\ v = VpnOf(parse_vpn(v)[2], parse_vpn(v)[1], parse_vpn(v)[0])
<1> DEFINE N == PTES_PER_TABLE
           w == v \div N
           s == ROOT_SPAN
<1>n. N \in Nat /\ N # 0 /\ 2 <= N /\ s \in Nat /\ s = N * N /\ s # 0
  BY Shape
<1>1. w \in Nat /\ v % N \in Nat /\ v % N < N /\ v = w * N + (v % N)
  BY <1>n, DivMod
<1>2. w \div N \in Nat /\ w % N \in Nat /\ w % N < N /\ w = (w \div N) * N + (w % N)
  <2> HIDE DEF w
  <2> QED BY <1>n, <1>1, DivMod
<1>3. PICK x \in Nat, y \in Nat, z \in Nat :
          x = w \div N /\ y = w % N /\ z = v % N /\ y < N /\ z < N
  BY <1>1, <1>2
<1>4. v = x * s + (y * N + z)
  <2>1. w = x * N + y /\ v = w * N + z
    BY <1>1, <1>2, <1>3
  <2> HIDE DEF w, N, s
  <2>2. v = (x * N + y) * N + z
    BY <2>1
  <2>3. (x * N + y) * N = x * (N * N) + y * N
    BY <1>n
  <2> QED BY <2>2, <2>3, <1>n
<1>5. y * N + z \in Nat /\ y * N + z < s
  <2>1. y * N + N <= N * N /\ y * N \in Int
    BY <1>n, <1>3, MulStep
  <2>2. 0 <= y * N
    BY <1>n, <1>3
  <2> QED BY <2>1, <2>2, <1>n, <1>3
<1>6. v \div s = x
  <2> HIDE DEF s
  <2> QED BY <1>4, <1>5, <1>n, DivUnique
<1>7. x < B
  <2>1. SUFFICES ASSUME B <= x PROVE FALSE
    OBVIOUS
  <2>2. B * s <= x * s
    <3>1. CASE B = x
      BY <3>1, <1>n
    <3>2. CASE B < x
      BY <3>2, <1>n, MulStep
    <3> QED BY <3>1, <3>2, <2>1
  <2>3. x * s \in Int /\ B * s \in Int
    BY <1>n
  <2> QED BY <2>2, <2>3, <1>4, <1>5 DEF s
<1>8. x % N = x
  BY <1>7, <1>n
<1>9. parse_vpn(v) = [level \in 0 .. 2 |->
                         CASE level = 0 -> z [] level = 1 -> y [] level = 2 -> x]
  <2>1. (v \div ROOT_SPAN) % PTES_PER_TABLE = x
    BY <1>6, <1>8 DEF s, N
  <2>2. (v \div PTES_PER_TABLE) % PTES_PER_TABLE = y /\ v % PTES_PER_TABLE = z
    BY <1>3
  <2> QED BY <2>1, <2>2 DEF parse_vpn
<1>10. parse_vpn(v)[0] = z /\ parse_vpn(v)[1] = y /\ parse_vpn(v)[2] = x
  BY <1>9
<1>11. x \in Index /\ y \in Index /\ z \in Index
  BY <1>3, <1>7, <1>n DEF Index
<1>12. parse_vpn(v) \in [0 .. 2 -> Index]
  BY <1>9, <1>11
<1>13. v = VpnOf(x, y, z)
  <2>1. x * s \in Int /\ y * N \in Int
    BY <1>n
  <2> QED BY <1>4, <2>1, <1>3 DEF VpnOf, s, N
<1> HIDE DEF N, w, s
<1> QED BY <1>7, <1>10, <1>12, <1>13

\* The other way round: the indices of the page they make up.
LEMMA ParseOf ==
    ASSUME NEW B \in Nat, B <= PTES_PER_TABLE, NEW i \in Nat, i < B,
           NEW j \in Index, NEW m \in Index
    PROVE  /\ VpnOf(i, j, m) \in Nat /\ VpnOf(i, j, m) < B * ROOT_SPAN
           /\ parse_vpn(VpnOf(i, j, m))[2] = i
           /\ parse_vpn(VpnOf(i, j, m))[1] = j
           /\ parse_vpn(VpnOf(i, j, m))[0] = m
<1> PICK v : v = VpnOf(i, j, m)
  OBVIOUS
<1>n. PTES_PER_TABLE \in Nat /\ 2 <= PTES_PER_TABLE /\ ROOT_SPAN \in Nat
      /\ ROOT_SPAN = PTES_PER_TABLE * PTES_PER_TABLE
  BY Shape
<1>t. j \in Nat /\ m \in Nat /\ j < PTES_PER_TABLE /\ m < PTES_PER_TABLE /\ 0 \in Index
  BY <1>n DEF Index
<1>1. v \in Nat
  <2>1. i * ROOT_SPAN \in Nat /\ j * PTES_PER_TABLE \in Nat
    BY <1>n, <1>t
  <2> QED BY <2>1, <1>t DEF VpnOf
<1>2. v < B * ROOT_SPAN
  <2>1. v < VpnOf(B, 0, 0)
    BY <1>t, VpnOrder, i \in Int, B \in Int
  <2>2. VpnOf(B, 0, 0) = B * ROOT_SPAN
    <3>1. B * ROOT_SPAN \in Int /\ 0 * PTES_PER_TABLE = 0
      BY <1>n
    <3> QED BY <3>1 DEF VpnOf
  <2> QED BY <2>1, <2>2
<1>3. PICK p : p = parse_vpn(v)
  OBVIOUS
<1>4. p[2] \in Index /\ p[1] \in Index /\ p[0] \in Index /\ v = VpnOf(p[2], p[1], p[0])
  <2>1. parse_vpn(v) \in [0 .. 2 -> Index]
        /\ v = VpnOf(parse_vpn(v)[2], parse_vpn(v)[1], parse_vpn(v)[0])
    BY <1>1, <1>2, ParseVpn
  <2> QED BY <2>1, <1>3
<1>6. p[2] = i /\ p[1] = j /\ p[0] = m
  <2>1. i \in Index
    BY <1>n DEF Index
  <2>2. PICK x \in Index, y \in Index, z \in Index : x = p[2] /\ y = p[1] /\ z = p[0]
    BY <1>4
  <2>3. VpnOf(i, j, m) = VpnOf(x, y, z)
    BY <1>4, <2>2
  <2>4. i = x /\ j = y /\ m = z
    BY <2>1, <2>3, VpnUnique
  <2> QED BY <2>2, <2>4
<1> QED BY <1>1, <1>2, <1>3, <1>6
-----------------------------------------------------------------------------
(* Loops.  A recursive function over a loop index is a CHOOSE, so that one *)
(* exists has to be shown.                                                 *)

\* What holds before the first turn, and after a turn when it does before, holds
\* after the last.
LEMMA LoopInduction ==
    ASSUME NEW N \in Nat, NEW A, 0 \in A, \A n \in 0 .. N - 1 : n \in A => n + 1 \in A
    PROVE  \A n \in 0 .. N : n \in A
<1> DEFINE S == {n \in 0 .. N : n \notin A}
<1>1. SUFFICES ASSUME S # {} PROVE FALSE
  OBVIOUS
<1>2. S \in SUBSET Nat
  OBVIOUS
<1>3. PICK m \in S : \A y \in S : ~(<<y, m>> \in OpToRel(<, Nat))
  BY <1>1, <1>2, WFMin, NatLessThanWellFounded
<1>4. \A y \in S : ~(y < m)
  BY <1>2, <1>3 DEF OpToRel
<1>5. m \in Nat /\ m # 0 /\ m <= N /\ m \notin A
  BY <1>2
<1>6. m - 1 \in 0 .. N - 1 /\ m - 1 \notin S
  BY <1>4, <1>5
<1>7. m - 1 \in A
  BY <1>6
<1>8. (m - 1) + 1 \in A
  BY <1>6, <1>7
<1> QED BY <1>5, <1>8

\* Every loop has a run: S gives its N turns, the n-th from the states E[n] to
\* E[n + 1], and u is where it starts.
Turns(S, N, E) == \A n \in 0 .. N - 1 : S[n] \in [E[n] -> E[n + 1]]

Run(f, S, N, E, u) ==
    /\ f = [n \in 0 .. N |-> IF n = 0 THEN u ELSE S[n - 1][f[n - 1]]]
    /\ \A n \in 0 .. N : f[n] \in E[n]

LEMMA LoopRuns ==
    ASSUME NEW N \in Nat, NEW E, NEW u \in E[0], NEW S, Turns(S, N, E)
    PROVE  \E f : Run(f, S, N, E, u)
<1> DEFINE Upto(n, f) == /\ DOMAIN f = 0 .. n /\ f[0] = u
                         /\ \A k \in 0 .. n : f[k] \in E[k]
                         /\ \A k \in 0 .. n - 1 : f[k + 1] = S[k][f[k]]
           A == {n \in 0 .. N : \E f : Upto(n, f)}
<1>1. 0 \in A
  <2>1. PICK f : f = [k \in 0 .. 0 |-> u]
    OBVIOUS
  <2>2. Upto(0, f)
    BY <2>1
  <2> QED BY <2>2
<1>2. ASSUME NEW n \in 0 .. N - 1, n \in A PROVE n + 1 \in A
  <2>1. PICK f : Upto(n, f)
    BY <1>2
  <2>2. S[n][f[n]] \in E[n + 1]
    <3>1. f[n] \in E[n]
      BY <2>1
    <3> QED BY <3>1 DEF Turns
  <2>3. PICK g : g = [k \in 0 .. n + 1 |-> IF k = n + 1 THEN S[n][f[n]] ELSE f[k]]
    OBVIOUS
  <2>4. DOMAIN g = 0 .. n + 1 /\ g[0] = u
    BY <2>1, <2>3
  <2>6. ASSUME NEW k \in 0 .. n + 1 PROVE g[k] \in E[k]
    BY <2>1, <2>2, <2>3
  <2>5. ASSUME NEW k \in 0 .. n PROVE g[k + 1] = S[k][g[k]]
    <3>1. CASE k = n
      BY <3>1, <2>3
    <3>2. CASE k # n
      <4>1. k \in 0 .. n - 1 /\ k + 1 \in 0 .. n
        BY <3>2
      <4>2. g[k + 1] = f[k + 1] /\ g[k] = f[k]
        BY <2>3, <4>1
      <4> QED BY <2>1, <4>1, <4>2
    <3> QED BY <3>1, <3>2
  <2>7. Upto(n + 1, g)
    BY <2>4, <2>5, <2>6
  <2> QED BY <2>7
<1> HIDE DEF A
<1>3. \A n \in 0 .. N - 1 : n \in A => n + 1 \in A
  BY <1>2
<1>4. \A n \in 0 .. N : n \in A
  BY <1>1, <1>3, LoopInduction
<1>5. N \in A
  BY <1>4
<1>6. PICK f : Upto(N, f)
  BY <1>5 DEF A
<1>7. PICK g : g = [n \in 0 .. N |-> f[n]]
  OBVIOUS
<1>8. \A n \in 0 .. N : g[n] = IF n = 0 THEN u ELSE S[n - 1][g[n - 1]]
  <2> TAKE n \in 0 .. N
  <2>1. CASE n = 0
    BY <2>1, <1>6, <1>7
  <2>2. CASE n # 0
    <3>1. n - 1 \in 0 .. N - 1 /\ (n - 1) + 1 = n /\ n - 1 \in 0 .. N
      BY <2>2
    <3> QED BY <2>2, <3>1, <1>6, <1>7
  <2> QED BY <2>1, <2>2
<1>9. g = [n \in 0 .. N |-> IF n = 0 THEN u ELSE S[n - 1][g[n - 1]]]
  BY <1>7, <1>8
<1>10. \A n \in 0 .. N : g[n] \in E[n]
  BY <1>6, <1>7
<1> QED BY <1>9, <1>10 DEF Run

\* A loop stays in the states its turns lead to.
LEMMA LoopStays ==
    ASSUME NEW N \in Nat, NEW E, NEW g, g[0] \in E[0],
           \A n \in 0 .. N - 1 : g[n] \in E[n] => g[n + 1] \in E[n + 1]
    PROVE  \A n \in 0 .. N : g[n] \in E[n]
<1> DEFINE A == {n \in 0 .. N : g[n] \in E[n]}
<1>1. 0 \in A
  OBVIOUS
<1>2. \A n \in 0 .. N - 1 : n \in A => n + 1 \in A
  OBVIOUS
<1> HIDE DEF A
<1>3. \A n \in 0 .. N : n \in A
  BY <1>1, <1>2, LoopInduction
<1> QED BY <1>3 DEF A
-----------------------------------------------------------------------------
(* The loops of unmap, over memory whose words are in W.                   *)

Memory(W) == [PPN -> [Index -> W]]

LoopStates(W) == [mem : Memory(W), vpn : [0 .. 2 -> Int], res : {"Go", "Ok", "Panic"}]

\* The innermost loop changes one table and starts the next at slot 0.
LEMMA Table0Type ==
    ASSUME NEW W, Pte0 \in W, NEW u \in LoopStates(W), NEW t, NEW first \in Int, NEW e \in Int
    PROVE  UnmapTable0(u, t, first, e) \in LoopStates(W)
<1> DEFINE out == [i \in Index |-> IF u.vpn[0] <= i /\ first + i < e THEN Pte0 ELSE u.mem[t][i]]
           m == [u.mem EXCEPT ![t] = out]
           v == [u.vpn EXCEPT ![0] = 0]
           r == IF e <= first + PTES_PER_TABLE - 1 THEN "Ok" ELSE "Go"
<1>t. u.mem \in Memory(W) /\ u.vpn \in [0 .. 2 -> Int]
  BY DEF LoopStates
<1>1. m \in Memory(W)
  <2>1. CASE t \in PPN
    <3>1. u.mem[t] \in [Index -> W]
      BY <2>1, <1>t DEF Memory
    <3>2. out \in [Index -> W]
      BY <3>1
    <3> HIDE DEF out
    <3> QED BY <1>t, <3>2 DEF Memory
  <2>2. CASE t \notin PPN
    BY <2>2, <1>t DEF Memory
  <2> QED BY <2>1, <2>2
<1>2. v \in [0 .. 2 -> Int]
  BY <1>t
<1>3. r \in {"Go", "Ok", "Panic"}
  OBVIOUS
<1>4. UnmapTable0(u, t, first, e) = [mem |-> m, vpn |-> v, res |-> r]
  BY DEF UnmapTable0
<1> HIDE DEF m, v, r
<1> QED BY <1>1, <1>2, <1>3, <1>4 DEF LoopStates

\* A start index of the loops is reset.
LEMMA ResetType ==
    ASSUME NEW W, NEW u \in LoopStates(W), NEW level \in 0 .. 2,
           NEW out, out = [u EXCEPT !.vpn[level] = 0]
    PROVE  out \in LoopStates(W)
BY DEF LoopStates

\* One turn of the loop over a level-1 table.
LEMMA Step1Type ==
    ASSUME NEW W, Pte0 \in W, NEW u \in LoopStates(W), NEW t, NEW vpn2 \in Int,
           NEW vpn1 \in Int, NEW e \in Int
    PROVE  UnmapStep1(u, t, vpn2, vpn1, e) \in LoopStates(W)
<1>1. [u EXCEPT !.vpn[0] = 0] \in LoopStates(W)
  BY DEF LoopStates
<1>2. [u EXCEPT !.res = "Panic"] \in LoopStates(W)
  BY DEF LoopStates
<1>3. VpnOf(vpn2, vpn1, 0) \in Int
  <2>1. vpn2 * ROOT_SPAN \in Int /\ vpn1 * PTES_PER_TABLE \in Int
    BY Shape
  <2> QED BY <2>1 DEF VpnOf
<1>4. UnmapTable0(u, u.mem[t][vpn1].ppn, VpnOf(vpn2, vpn1, 0), e) \in LoopStates(W)
  BY <1>3, Table0Type
<1> QED BY <1>1, <1>2, <1>4, Zenon DEF UnmapStep1

\* f are the states the loop over a level-1 table goes through.
Run1(W, f, u, t, vpn2, e) ==
    /\ f \in [0 .. PTES_PER_TABLE -> LoopStates(W)]
    /\ f[0] = u
    /\ \A n \in 0 .. PTES_PER_TABLE - 1 : f[n + 1] = UnmapStep1(f[n], t, vpn2, n, e)
    /\ UnmapTable1(u, t, vpn2, e) = [f[PTES_PER_TABLE] EXCEPT !.vpn[1] = 0]

\* The loop over a level-1 table does what its turns do, one after the other.
LEMMA Loop1 ==
    ASSUME NEW W, Pte0 \in W, NEW u \in LoopStates(W), NEW t, NEW vpn2 \in Int, NEW e \in Int
    PROVE  \E f : Run1(W, f, u, t, vpn2, e)
<1> DEFINE N == PTES_PER_TABLE
           D == LoopStates(W)
           Step(n, x) == UnmapStep1(x, t, vpn2, n, e)
           loop[n \in 0 .. N] == IF n = 0 THEN u ELSE Step(n - 1, loop[n - 1])
<1>n. N \in Nat
  BY Shape
<1>1. UnmapTable1(u, t, vpn2, e) = [loop[N] EXCEPT !.vpn[1] = 0]
  BY DEF UnmapTable1
<1>2. \A n \in 0 .. N - 1, x \in D : Step(n, x) \in D
  BY <1>n, Step1Type
<1> HIDE DEF Step, N, D
<1>3. PICK f : /\ f = [n \in 0 .. N |-> IF n = 0 THEN u ELSE Step(n - 1, f[n - 1])]
               /\ \A n \in 0 .. N : f[n] \in D
  <2>1. PICK E : E = [n \in 0 .. N |-> D]
    OBVIOUS
  <2>2. PICK S : S = [n \in 0 .. N - 1 |-> [x \in D |-> Step(n, x)]]
    OBVIOUS
  <2>3. u \in E[0] /\ Turns(S, N, E)
    BY <2>1, <2>2, <1>2, <1>n DEF D, Turns
  <2>4. PICK f : Run(f, S, N, E, u)
    BY <2>3, <1>n, LoopRuns
  <2>5. \A n \in 0 .. N : f[n] \in D
    BY <2>4, <2>1 DEF Run
  <2>6. ASSUME NEW n \in 0 .. N, n # 0 PROVE S[n - 1][f[n - 1]] = Step(n - 1, f[n - 1])
    BY <2>2, <2>5, <2>6, <1>n
  <2>7. f = [n \in 0 .. N |-> IF n = 0 THEN u ELSE Step(n - 1, f[n - 1])]
    BY <2>4, <2>6 DEF Run
  <2> QED BY <2>5, <2>7
<1>4. loop = [n \in 0 .. N |-> IF n = 0 THEN u ELSE Step(n - 1, loop[n - 1])]
  BY <1>3
<1>5. PICK g : g = loop /\ g = [n \in 0 .. N |-> IF n = 0 THEN u ELSE Step(n - 1, g[n - 1])]
  BY <1>4
<1> HIDE DEF loop
<1>6. g[0] = u /\ DOMAIN g = 0 .. N /\ g = [n \in 0 .. N |-> g[n]]
  BY <1>5, <1>n
<1>7. ASSUME NEW n \in 0 .. N - 1 PROVE g[n + 1] = Step(n, g[n])
  <2>1. n + 1 \in 0 .. N /\ n + 1 # 0 /\ (n + 1) - 1 = n
    BY <1>n
  <2> QED BY <1>5, <2>1
<1>8. \A n \in 0 .. N : g[n] \in D
  <2>1. PICK E : E = [n \in 0 .. N |-> D]
    OBVIOUS
  <2>2. g[0] \in E[0]
    BY <2>1, <1>6, <1>n DEF D
  <2>3. ASSUME NEW n \in 0 .. N - 1, g[n] \in E[n] PROVE g[n + 1] \in E[n + 1]
    <3>1. E[n] = D /\ E[n + 1] = D
      BY <2>1, <1>n
    <3> QED BY <3>1, <2>3, <1>2, <1>7
  <2>4. \A n \in 0 .. N : g[n] \in E[n]
    BY <2>2, <2>3, <1>n, LoopStays
  <2> QED BY <2>1, <2>4
<1>9. g \in [0 .. N -> D]
  BY <1>6, <1>8
<1>10. Run1(W, g, u, t, vpn2, e)
  BY <1>1, <1>5, <1>6, <1>7, <1>9 DEF Step, N, D, Run1
<1> QED BY <1>10

\* One turn of the outermost loop.
LEMMA Step2Type ==
    ASSUME NEW W, Pte0 \in W, NEW u \in LoopStates(W), NEW t, NEW vpn2 \in Int, NEW e \in Int
    PROVE  UnmapStep2(u, t, vpn2, e) \in LoopStates(W)
<1>n. PTES_PER_TABLE \in Nat
  BY Shape
<1>1. [u EXCEPT !.vpn[1] = 0, !.vpn[0] = 0] \in LoopStates(W)
  <2>1. PICK w : w = [u EXCEPT !.vpn[1] = 0]
    OBVIOUS
  <2>2. PICK y : y = [w EXCEPT !.vpn[0] = 0]
    OBVIOUS
  <2>3. w \in LoopStates(W)
    BY <2>1, ResetType
  <2>4. y \in LoopStates(W)
    BY <2>2, <2>3, ResetType
  <2> QED BY <2>1, <2>2, <2>4
<1>2. [u EXCEPT !.res = "Panic"] \in LoopStates(W)
  BY DEF LoopStates
<1>3. UnmapTable1(u, u.mem[t][vpn2].ppn, vpn2, e) \in LoopStates(W)
  <2>0. PICK table1 : table1 = u.mem[t][vpn2].ppn
    OBVIOUS
  <2>1. PICK f : Run1(W, f, u, table1, vpn2, e)
    BY Loop1
  <2>2. PICK w \in LoopStates(W) : w = f[PTES_PER_TABLE]
    BY <1>n, <2>1 DEF Run1
  <2>3. [w EXCEPT !.vpn[1] = 0] \in LoopStates(W)
    BY DEF LoopStates
  <2> QED BY <2>0, <2>1, <2>2, <2>3 DEF Run1
<1> QED BY <1>1, <1>2, <1>3, Zenon DEF UnmapStep2

\* f are the states the outermost loop goes through, and unmap returns what the
\* last of them says.
Run2(W, f, u, ph, rt, s, e) ==
    /\ f \in [0 .. PTES_PER_TABLE -> LoopStates(W)]
    /\ f[0] = u
    /\ \A n \in 0 .. PTES_PER_TABLE - 1 : f[n + 1] = UnmapStep2(f[n], rt.ppn, n, e)
    /\ unmap(ph, rt, s, e)
          = Result([ph EXCEPT !.mem = f[PTES_PER_TABLE].mem], rt,
                   IF f[PTES_PER_TABLE].res = "Ok" THEN "Ok" ELSE "Panic")

\* unmap does what the turns of its outermost loop do, one after the other.
LEMMA Loop2 ==
    ASSUME NEW W, Pte0 \in W, NEW ph, NEW rt, NEW s \in Int, NEW e \in Int, s < e,
           NEW u \in LoopStates(W), u = [mem |-> ph.mem, vpn |-> parse_vpn(s), res |-> "Go"]
    PROVE  \E f : Run2(W, f, u, ph, rt, s, e)
<1> DEFINE N == PTES_PER_TABLE
           D == LoopStates(W)
           Step(n, x) == UnmapStep2(x, rt.ppn, n, e)
           loop[n \in 0 .. N] ==
               IF n = 0 THEN [mem |-> ph.mem, vpn |-> parse_vpn(s), res |-> "Go"]
               ELSE Step(n - 1, loop[n - 1])
<1>n. N \in Nat
  BY Shape
<1>1. unmap(ph, rt, s, e) = Result([ph EXCEPT !.mem = loop[N].mem], rt,
                                   IF loop[N].res = "Ok" THEN "Ok" ELSE "Panic")
  <2>1. ~(e <= s)
    OBVIOUS
  <2> QED BY <2>1 DEF unmap
<1>2. \A n \in 0 .. N - 1, x \in D : Step(n, x) \in D
  BY <1>n, Step2Type
<1> HIDE DEF Step, N, D
<1>3. PICK f : /\ f = [n \in 0 .. N |-> IF n = 0 THEN u ELSE Step(n - 1, f[n - 1])]
               /\ \A n \in 0 .. N : f[n] \in D
  <2>1. PICK E : E = [n \in 0 .. N |-> D]
    OBVIOUS
  <2>2. PICK S : S = [n \in 0 .. N - 1 |-> [x \in D |-> Step(n, x)]]
    OBVIOUS
  <2>3. u \in E[0] /\ Turns(S, N, E)
    BY <2>1, <2>2, <1>2, <1>n DEF D, Turns
  <2>4. PICK f : Run(f, S, N, E, u)
    BY <2>3, <1>n, LoopRuns
  <2>5. \A n \in 0 .. N : f[n] \in D
    BY <2>4, <2>1 DEF Run
  <2>6. ASSUME NEW n \in 0 .. N, n # 0 PROVE S[n - 1][f[n - 1]] = Step(n - 1, f[n - 1])
    BY <2>2, <2>5, <2>6, <1>n
  <2>7. f = [n \in 0 .. N |-> IF n = 0 THEN u ELSE Step(n - 1, f[n - 1])]
    BY <2>4, <2>6 DEF Run
  <2> QED BY <2>5, <2>7
<1>4. loop = [n \in 0 .. N |-> IF n = 0 THEN [mem |-> ph.mem, vpn |-> parse_vpn(s), res |-> "Go"]
                               ELSE Step(n - 1, loop[n - 1])]
  BY <1>3
<1>5. PICK g : g = loop /\ g = [n \in 0 .. N |-> IF n = 0 THEN u ELSE Step(n - 1, g[n - 1])]
  BY <1>4
<1> HIDE DEF loop
<1>6. g[0] = u /\ DOMAIN g = 0 .. N /\ g = [n \in 0 .. N |-> g[n]]
  BY <1>5, <1>n
<1>7. ASSUME NEW n \in 0 .. N - 1 PROVE g[n + 1] = Step(n, g[n])
  <2>1. n + 1 \in 0 .. N /\ n + 1 # 0 /\ (n + 1) - 1 = n
    BY <1>n
  <2> QED BY <1>5, <2>1
<1>8. \A n \in 0 .. N : g[n] \in D
  <2>1. PICK E : E = [n \in 0 .. N |-> D]
    OBVIOUS
  <2>2. g[0] \in E[0]
    BY <2>1, <1>6, <1>n DEF D
  <2>3. ASSUME NEW n \in 0 .. N - 1, g[n] \in E[n] PROVE g[n + 1] \in E[n + 1]
    <3>1. E[n] = D /\ E[n + 1] = D
      BY <2>1, <1>n
    <3> QED BY <3>1, <2>3, <1>2, <1>7
  <2>4. \A n \in 0 .. N : g[n] \in E[n]
    BY <2>2, <2>3, <1>n, LoopStays
  <2> QED BY <2>1, <2>4
<1>9. g \in [0 .. N -> D]
  BY <1>6, <1>8
<1>10. unmap(ph, rt, s, e) = Result([ph EXCEPT !.mem = g[N].mem], rt,
                                    IF g[N].res = "Ok" THEN "Ok" ELSE "Panic")
  BY <1>1, <1>5
<1>11. Run2(W, g, u, ph, rt, s, e)
  BY <1>6, <1>7, <1>9, <1>10 DEF Step, N, D, Run2
<1> QED BY <1>11

\* What unmap does to memory, whatever the tables hold.
LEMMA UnmapType ==
    ASSUME NEW W, Pte0 \in W, NEW ph, ph.mem \in Memory(W), NEW rt, NEW s \in Int, NEW e \in Int
    PROVE  \/ unmap(ph, rt, s, e) = Result(ph, rt, "Ok")
           \/ \E m \in Memory(W), res \in {"Ok", "Panic"} :
                 unmap(ph, rt, s, e) = Result([ph EXCEPT !.mem = m], rt, res)
<1>1. CASE e <= s
  BY <1>1 DEF unmap
<1>2. CASE s < e
  <2>n. PTES_PER_TABLE \in Nat \ {0} /\ ROOT_SPAN \in Nat \ {0}
    BY Shape
  <2>1. parse_vpn(s) \in [0 .. 2 -> Int]
    <3>1. s % PTES_PER_TABLE \in Int /\ s \div PTES_PER_TABLE \in Int /\ s \div ROOT_SPAN \in Int
      BY <2>n
    <3>2. (s \div PTES_PER_TABLE) % PTES_PER_TABLE \in Int /\ (s \div ROOT_SPAN) % PTES_PER_TABLE \in Int
      BY <2>n, <3>1
    <3> QED BY <3>1, <3>2 DEF parse_vpn
  <2>2. PICK u \in LoopStates(W) : u = [mem |-> ph.mem, vpn |-> parse_vpn(s), res |-> "Go"]
    BY <2>1 DEF LoopStates
  <2>3. PICK f : Run2(W, f, u, ph, rt, s, e)
    BY <1>2, <2>2, Loop2
  <2>4. PICK v \in LoopStates(W) : v = f[PTES_PER_TABLE]
    BY <2>3, <2>n DEF Run2
  <2>5. v.mem \in Memory(W)
    BY DEF LoopStates
  <2>6. unmap(ph, rt, s, e) = Result([ph EXCEPT !.mem = v.mem], rt,
                                     IF v.res = "Ok" THEN "Ok" ELSE "Panic")
    BY <2>3, <2>4 DEF Run2
  <2> QED BY <2>5, <2>6
<1> QED BY <1>1, <1>2
-----------------------------------------------------------------------------
(* The tree of user tables below the root page r, T being the pages of its *)
(* level-1 and level-0 tables.                                             *)

\* The cleared entry is one.
LEMMA Pte0Type == Pte0 \in PTE /\ ~is_valid(Pte0) /\ ~is_leaf(Pte0)
BY DEF Pte0, PTE, is_valid, is_leaf

\* The level-1 table below the root's entry i, and the level-0 table below its
\* entry j.
Has1(mem, r, i) == is_valid(mem[r][i])
T1At(mem, r, i) == mem[r][i].ppn
Has0(mem, r, i, j) == Has1(mem, r, i) /\ is_valid(mem[T1At(mem, r, i)][j])
T0At(mem, r, i, j) == mem[T1At(mem, r, i)][j].ppn

\* The entries of user tables point to user tables, ...
Points(mem, r, T) ==
    /\ \A i \in UserIndex : Has1(mem, r, i) =>
          mem[r][i].flags = {"V"} /\ T1At(mem, r, i) \in T
    /\ \A i \in UserIndex, j \in Index : Has0(mem, r, i, j) =>
          mem[T1At(mem, r, i)][j].flags = {"V"} /\ T0At(mem, r, i, j) \in T

\* ... no table is below two entries, ...
Unshared(mem, r) ==
    /\ \A i, a \in UserIndex :
          Has1(mem, r, i) /\ Has1(mem, r, a) /\ T1At(mem, r, i) = T1At(mem, r, a) => i = a
    /\ \A i, a \in UserIndex, j, b \in Index :
          Has0(mem, r, i, j) /\ Has0(mem, r, a, b) /\ T0At(mem, r, i, j) = T0At(mem, r, a, b)
              => i = a /\ j = b
    /\ \A i, a \in UserIndex, b \in Index :
          Has1(mem, r, i) /\ Has0(mem, r, a, b) => T1At(mem, r, i) # T0At(mem, r, a, b)

\* ... and each is below one.
Reached(mem, r, T) ==
    \A p \in T :
       \/ \E i \in UserIndex : Has1(mem, r, i) /\ T1At(mem, r, i) = p
       \/ \E i \in UserIndex, j \in Index : Has0(mem, r, i, j) /\ T0At(mem, r, i, j) = p

Tree(mem, r, T) == Points(mem, r, T) /\ Unshared(mem, r) /\ Reached(mem, r, T)

\* What the hardware finds below three indices: one entry, or none.
Look(mem, r, i, j, m) ==
    IF Has0(mem, r, i, j) /\ is_valid(mem[T0At(mem, r, i, j)][m])
    THEN {mem[T0At(mem, r, i, j)][m]} ELSE {}

Translates(mem, r, v, i, j, m) ==
    /\ Look(mem, r, i, j, m) = {} => Translate(mem, r, v) = NONE
    /\ \A e : Look(mem, r, i, j, m) = {e} => Translate(mem, r, v) = e

\* Translate walks the tree: no entry above the last level is a leaf,
\* below the kernel half ...
LEMMA TranslateBelow ==
    ASSUME NEW mem, NEW r, NEW T, Points(mem, r, T),
           NEW v \in Nat, v < KERNEL_ROOT * ROOT_SPAN
    PROVE  /\ parse_vpn(v)[2] \in UserIndex /\ parse_vpn(v)[1] \in Index
           /\ parse_vpn(v)[0] \in Index
           /\ v = VpnOf(parse_vpn(v)[2], parse_vpn(v)[1], parse_vpn(v)[0])
           /\ Translates(mem, r, v, parse_vpn(v)[2], parse_vpn(v)[1], parse_vpn(v)[0])
<1>n. PTES_PER_TABLE \in Nat /\ KERNEL_ROOT \in Nat /\ KERNEL_ROOT <= PTES_PER_TABLE
      /\ ROOT_SPAN \in Nat
  BY Shape
<1>2. /\ parse_vpn(v) \in [0 .. 2 -> Index] /\ parse_vpn(v)[2] < KERNEL_ROOT
      /\ v = VpnOf(parse_vpn(v)[2], parse_vpn(v)[1], parse_vpn(v)[0])
  BY <1>n, ParseVpn
<1>3. PICK idx : idx = parse_vpn(v)
  OBVIOUS
<1>4. idx[2] \in UserIndex /\ idx[1] \in Index /\ idx[0] \in Index
  BY <1>2, <1>3, <1>n DEF Index, UserIndex
<1>5. Translate(mem, r, v) =
        LET Leaf(p) == p.flags \cap {"R", "W", "X"} # {}
            pte2 == mem[r][idx[2]]
            pte1 == mem[pte2.ppn][idx[1]]
            pte0 == mem[pte1.ppn][idx[0]]
        IN  IF ~is_valid(pte2) THEN NONE
            ELSE IF Leaf(pte2) THEN pte2
            ELSE IF ~is_valid(pte1) THEN NONE
            ELSE IF Leaf(pte1) THEN pte1
            ELSE IF is_valid(pte0) THEN pte0 ELSE NONE
  BY <1>3 DEF Translate
<1>6. Has1(mem, r, idx[2]) => mem[r][idx[2]].flags \cap {"R", "W", "X"} = {}
  BY <1>4 DEF Points
<1>7. Has0(mem, r, idx[2], idx[1]) =>
         mem[T1At(mem, r, idx[2])][idx[1]].flags \cap {"R", "W", "X"} = {}
  BY <1>4 DEF Points
<1>8. Translates(mem, r, v, idx[2], idx[1], idx[0])
  BY <1>5, <1>6, <1>7 DEF Translates, Look, Has0, Has1, T1At, T0At
<1> QED BY <1>2, <1>3, <1>4, <1>8

\* ... and so in user space.
LEMMA TranslateLooks ==
    ASSUME NEW mem, NEW r, NEW T, Points(mem, r, T), NEW v \in UserVpns
    PROVE  /\ parse_vpn(v)[2] \in UserIndex /\ parse_vpn(v)[1] \in Index
           /\ parse_vpn(v)[0] \in Index
           /\ v = VpnOf(parse_vpn(v)[2], parse_vpn(v)[1], parse_vpn(v)[0])
           /\ Translates(mem, r, v, parse_vpn(v)[2], parse_vpn(v)[1], parse_vpn(v)[0])
<1>n. KERNEL_ROOT \in Nat /\ ROOT_SPAN \in Nat
  BY Shape
<1>1. v \in Nat /\ v < KERNEL_ROOT * ROOT_SPAN
  <2>1. KERNEL_ROOT * ROOT_SPAN \in Nat
    BY <1>n
  <2> QED BY <2>1 DEF UserVpns, USER_END_VPN
<1> QED BY <1>1, TranslateBelow

\* A write below the last level leaves the tree as it is.
LEMMA SameTree ==
    ASSUME NEW mem, NEW r, NEW T, NEW out,
           out[r] = mem[r],
           \A i \in UserIndex : Has1(mem, r, i) => out[T1At(mem, r, i)] = mem[T1At(mem, r, i)]
    PROVE  /\ \A i \in UserIndex : Has1(out, r, i) = Has1(mem, r, i) /\ T1At(out, r, i) = T1At(mem, r, i)
           /\ \A i \in UserIndex, j \in Index : Has0(out, r, i, j) = Has0(mem, r, i, j)
           /\ \A i \in UserIndex, j \in Index :
                 Has0(mem, r, i, j) => T0At(out, r, i, j) = T0At(mem, r, i, j)
           /\ Tree(mem, r, T) => Tree(out, r, T)
<1>1. \A i \in UserIndex : Has1(out, r, i) = Has1(mem, r, i) /\ T1At(out, r, i) = T1At(mem, r, i)
  BY DEF Has1, T1At
<1>2. \A i \in UserIndex, j \in Index : Has1(mem, r, i) => out[T1At(out, r, i)][j] = mem[T1At(mem, r, i)][j]
  BY <1>1
<1>3. \A i \in UserIndex, j \in Index : Has0(out, r, i, j) = Has0(mem, r, i, j)
  BY <1>1, <1>2 DEF Has0
<1>4. \A i \in UserIndex, j \in Index : Has0(mem, r, i, j) => T0At(out, r, i, j) = T0At(mem, r, i, j)
  BY <1>2 DEF Has0, T0At
<1>5. ASSUME Tree(mem, r, T) PROVE Tree(out, r, T)
  <2>0. \A i \in UserIndex : out[r][i] = mem[r][i]
    OBVIOUS
  <2>1. Points(out, r, T)
    <3>1. \A i \in UserIndex : Has1(out, r, i) =>
             out[r][i].flags = {"V"} /\ T1At(out, r, i) \in T
      BY <1>1, <1>5, <2>0 DEF Tree, Points
    <3>2. \A i \in UserIndex, j \in Index : Has0(out, r, i, j) =>
             out[T1At(out, r, i)][j].flags = {"V"} /\ T0At(out, r, i, j) \in T
      <4> TAKE i \in UserIndex, j \in Index
      <4> HAVE Has0(out, r, i, j)
      <4>1. Has0(mem, r, i, j) /\ Has1(mem, r, i) /\ T0At(out, r, i, j) = T0At(mem, r, i, j)
        BY <1>3, <1>4 DEF Has0
      <4>2. out[T1At(out, r, i)][j] = mem[T1At(mem, r, i)][j]
        BY <4>1, <1>2
      <4> QED BY <4>1, <4>2, <1>5 DEF Tree, Points
    <3> QED BY <3>1, <3>2 DEF Points
  <2>2. Unshared(out, r)
    BY <1>1, <1>3, <1>4, <1>5 DEF Tree, Unshared
  <2>3. Reached(out, r, T)
    BY <1>1, <1>3, <1>4, <1>5 DEF Tree, Reached
  <2> QED BY <2>1, <2>2, <2>3 DEF Tree
<1> QED BY <1>1, <1>3, <1>4, <1>5

\* map_create enters a new level-1 table in the root: the tree gains the table
\* and no translation changes.
LEMMA AddTable1 ==
    ASSUME NEW mem, NEW r, NEW T, NEW n, n \notin T, Tree(mem, r, T),
           NEW a \in UserIndex, ~Has1(mem, r, a), NEW out,
           out[n] = ZeroPage,
           out[r][a] = [ppn |-> n, flags |-> {"V"}],
           \A i \in UserIndex : i # a => out[r][i] = mem[r][i],
           \A p \in T : out[p] = mem[p]
    PROVE  /\ Tree(out, r, T \cup {n})
           /\ Has1(out, r, a) /\ T1At(out, r, a) = n
           /\ \A i \in UserIndex, j \in Index, m \in Index : Look(out, r, i, j, m) = Look(mem, r, i, j, m)
<1>u. \A p : p \in (T \cup {n}) <=> p \in T \/ p = n
  OBVIOUS
<1>w. n \notin T
  OBVIOUS
<1>1. Has1(out, r, a) /\ T1At(out, r, a) = n /\ out[r][a].flags = {"V"}
  BY DEF Has1, T1At, is_valid
<1>2. \A i \in UserIndex : i # a => Has1(out, r, i) = Has1(mem, r, i) /\ T1At(out, r, i) = T1At(mem, r, i)
  BY DEF Has1, T1At
<1>3. \A j \in Index : ~Has0(out, r, a, j)
  <2> TAKE j \in Index
  <2>1. out[T1At(out, r, a)][j] = Pte0
    BY <1>1 DEF ZeroPage
  <2> QED BY <2>1, Pte0Type DEF Has0
<1>4. \A i \in UserIndex, j \in Index : i # a /\ Has1(mem, r, i) =>
         out[T1At(out, r, i)][j] = mem[T1At(mem, r, i)][j]
  BY <1>2 DEF Tree, Points
<1>5. \A i \in UserIndex, j \in Index : i # a => Has0(out, r, i, j) = Has0(mem, r, i, j)
  BY <1>2, <1>4 DEF Has0
<1>6. \A i \in UserIndex, j \in Index : i # a /\ Has0(mem, r, i, j) =>
         T0At(out, r, i, j) = T0At(mem, r, i, j)
  BY <1>4 DEF Has0, T0At
<1>7. \A j \in Index : ~Has0(mem, r, a, j)
  BY DEF Has0
<1>8. \A i \in UserIndex, j \in Index : Has0(out, r, i, j) <=> Has0(mem, r, i, j)
  BY <1>3, <1>5, <1>7
<1>9. \A i \in UserIndex, j \in Index : Has0(mem, r, i, j) => i # a
  BY <1>7
<1>10. Points(out, r, T \cup {n})
  <2>1. \A i \in UserIndex : Has1(out, r, i) =>
           out[r][i].flags = {"V"} /\ T1At(out, r, i) \in (T \cup {n})
    BY <1>1, <1>2, <1>u DEF Tree, Points
  <2>2. \A i \in UserIndex, j \in Index : Has0(out, r, i, j) =>
           out[T1At(out, r, i)][j].flags = {"V"} /\ T0At(out, r, i, j) \in (T \cup {n})
    <3> TAKE i \in UserIndex, j \in Index
    <3> HAVE Has0(out, r, i, j)
    <3>1. Has0(mem, r, i, j) /\ i # a /\ Has1(mem, r, i) /\ T0At(out, r, i, j) = T0At(mem, r, i, j)
      BY <1>8, <1>9, <1>6 DEF Has0
    <3>2. out[T1At(out, r, i)][j] = mem[T1At(mem, r, i)][j]
      BY <3>1, <1>4
    <3> QED BY <3>1, <3>2, <1>u DEF Tree, Points
  <2> QED BY <2>1, <2>2 DEF Points
<1>11. Unshared(out, r)
  <2>1. \A i \in UserIndex : i # a /\ Has1(out, r, i) => T1At(out, r, i) # n
    BY <1>2, <1>w DEF Tree, Points
  <2>2. \A i \in UserIndex, j \in Index : Has0(out, r, i, j) => T0At(out, r, i, j) # n
    BY <1>6, <1>8, <1>9, <1>w DEF Tree, Points
  <2>3. \A i, b \in UserIndex :
          Has1(out, r, i) /\ Has1(out, r, b) /\ T1At(out, r, i) = T1At(out, r, b) => i = b
    BY <1>1, <1>2, <2>1 DEF Tree, Unshared
  <2>4. \A i, b \in UserIndex, j, c \in Index :
          Has0(out, r, i, j) /\ Has0(out, r, b, c) /\ T0At(out, r, i, j) = T0At(out, r, b, c)
              => i = b /\ j = c
    BY <1>6, <1>8, <1>9 DEF Tree, Unshared
  <2>5. \A i, b \in UserIndex, c \in Index :
          Has1(out, r, i) /\ Has0(out, r, b, c) => T1At(out, r, i) # T0At(out, r, b, c)
    BY <1>1, <1>2, <1>6, <1>8, <1>9, <2>2 DEF Tree, Unshared
  <2> QED BY <2>3, <2>4, <2>5 DEF Unshared
<1>12. Reached(out, r, T \cup {n})
  <2>1. ASSUME NEW p \in (T \cup {n})
        PROVE  \/ \E i \in UserIndex : Has1(out, r, i) /\ T1At(out, r, i) = p
               \/ \E i \in UserIndex, j \in Index : Has0(out, r, i, j) /\ T0At(out, r, i, j) = p
    <3>1. CASE p = n
      BY <3>1, <1>1
    <3>2. CASE p # n
      <4>1. p \in T
        BY <3>2, <1>u
      <4>2. CASE \E i \in UserIndex : Has1(mem, r, i) /\ T1At(mem, r, i) = p
        BY <4>2, <1>2
      <4>3. CASE \E i \in UserIndex, j \in Index : Has0(mem, r, i, j) /\ T0At(mem, r, i, j) = p
        BY <4>3, <1>6, <1>8, <1>9
      <4> QED BY <4>1, <4>2, <4>3 DEF Tree, Reached
    <3> QED BY <3>1, <3>2
  <2> QED BY <2>1 DEF Reached
<1>13. \A i \in UserIndex, j \in Index, m \in Index : Look(out, r, i, j, m) = Look(mem, r, i, j, m)
  <2> TAKE i \in UserIndex, j \in Index, m \in Index
  <2>1. CASE ~Has0(mem, r, i, j)
    BY <2>1, <1>8 DEF Look
  <2>2. CASE Has0(mem, r, i, j)
    <3>1. Has0(out, r, i, j) /\ T0At(out, r, i, j) = T0At(mem, r, i, j)
      BY <2>2, <1>6, <1>8, <1>9
    <3>2. out[T0At(mem, r, i, j)] = mem[T0At(mem, r, i, j)]
      BY <2>2 DEF Tree, Points
    <3> QED BY <2>2, <3>1, <3>2 DEF Look
  <2> QED BY <2>1, <2>2
<1> QED BY <1>1, <1>10, <1>11, <1>12, <1>13 DEF Tree

\* map_create enters a new level-0 table in a level-1 table, likewise.
LEMMA AddTable0 ==
    ASSUME NEW mem, NEW r, NEW T, NEW n, n \notin T, Tree(mem, r, T),
           NEW a \in UserIndex, Has1(mem, r, a), NEW b \in Index, ~Has0(mem, r, a, b), NEW out,
           out[n] = ZeroPage, out[r] = mem[r],
           out[T1At(mem, r, a)][b] = [ppn |-> n, flags |-> {"V"}],
           \A j \in Index : j # b => out[T1At(mem, r, a)][j] = mem[T1At(mem, r, a)][j],
           \A p \in T : p # T1At(mem, r, a) => out[p] = mem[p]
    PROVE  /\ Tree(out, r, T \cup {n})
           /\ Has1(out, r, a) /\ T1At(out, r, a) = T1At(mem, r, a)
           /\ Has0(out, r, a, b) /\ T0At(out, r, a, b) = n
           /\ \A i \in UserIndex, j \in Index, m \in Index : Look(out, r, i, j, m) = Look(mem, r, i, j, m)
<1>u. \A p : p \in (T \cup {n}) <=> p \in T \/ p = n
  OBVIOUS
<1>w. n \notin T
  OBVIOUS
<1>0. \A i \in UserIndex : out[r][i] = mem[r][i]
  OBVIOUS
<1>1. \A i \in UserIndex : Has1(out, r, i) = Has1(mem, r, i) /\ T1At(out, r, i) = T1At(mem, r, i)
  BY DEF Has1, T1At
<1>2. Has0(out, r, a, b) /\ T0At(out, r, a, b) = n /\ out[T1At(out, r, a)][b].flags = {"V"}
  BY <1>1 DEF Has0, T0At, is_valid
<1>3. \A i \in UserIndex, j \in Index : Has1(mem, r, i) /\ ~(i = a /\ j = b) =>
         out[T1At(out, r, i)][j] = mem[T1At(mem, r, i)][j]
  <2> TAKE i \in UserIndex, j \in Index
  <2> HAVE Has1(mem, r, i) /\ ~(i = a /\ j = b)
  <2>1. CASE i = a
    BY <2>1, <1>1
  <2>2. CASE i # a
    <3>1. T1At(mem, r, i) # T1At(mem, r, a) /\ T1At(mem, r, i) \in T
      BY <2>2 DEF Tree, Points, Unshared
    <3> QED BY <3>1, <1>1
  <2> QED BY <2>1, <2>2
<1>4. \A i \in UserIndex, j \in Index : ~(i = a /\ j = b) => Has0(out, r, i, j) = Has0(mem, r, i, j)
  BY <1>1, <1>3 DEF Has0
<1>5. \A i \in UserIndex, j \in Index : Has0(mem, r, i, j) => ~(i = a /\ j = b)
  OBVIOUS
<1>6. \A i \in UserIndex, j \in Index : Has0(mem, r, i, j) =>
         Has0(out, r, i, j) /\ T0At(out, r, i, j) = T0At(mem, r, i, j)
  BY <1>3, <1>4, <1>5 DEF Has0, T0At
<1>7. \A i \in UserIndex, j \in Index :
         Has0(out, r, i, j) => Has0(mem, r, i, j) \/ (i = a /\ j = b)
  BY <1>4
<1>8. Points(out, r, T \cup {n})
  <2>1. \A i \in UserIndex : Has1(out, r, i) =>
           out[r][i].flags = {"V"} /\ T1At(out, r, i) \in (T \cup {n})
    BY <1>0, <1>1, <1>u DEF Tree, Points
  <2>2. \A i \in UserIndex, j \in Index : Has0(out, r, i, j) =>
           out[T1At(out, r, i)][j].flags = {"V"} /\ T0At(out, r, i, j) \in (T \cup {n})
    <3> TAKE i \in UserIndex, j \in Index
    <3> HAVE Has0(out, r, i, j)
    <3>1. CASE i = a /\ j = b
      BY <3>1, <1>2, <1>u
    <3>2. CASE ~(i = a /\ j = b)
      <4>1. Has0(mem, r, i, j) /\ Has1(mem, r, i) /\ T0At(out, r, i, j) = T0At(mem, r, i, j)
        BY <3>2, <1>6, <1>7 DEF Has0
      <4>2. out[T1At(out, r, i)][j] = mem[T1At(mem, r, i)][j]
        BY <4>1, <3>2, <1>3
      <4> QED BY <4>1, <4>2, <1>u DEF Tree, Points
    <3> QED BY <3>1, <3>2
  <2> QED BY <2>1, <2>2 DEF Points
<1>9. Unshared(out, r)
  <2>1. \A i \in UserIndex : Has1(mem, r, i) => T1At(mem, r, i) # n
    BY <1>w DEF Tree, Points
  <2>2. \A i \in UserIndex, j \in Index : Has0(mem, r, i, j) => T0At(mem, r, i, j) # n
    BY <1>w DEF Tree, Points
  <2>3. \A i, c \in UserIndex :
          Has1(out, r, i) /\ Has1(out, r, c) /\ T1At(out, r, i) = T1At(out, r, c) => i = c
    BY <1>1 DEF Tree, Unshared
  <2>4. \A i, c \in UserIndex, j, d \in Index :
          Has0(out, r, i, j) /\ Has0(out, r, c, d) /\ T0At(out, r, i, j) = T0At(out, r, c, d)
              => i = c /\ j = d
    <3> TAKE i, c \in UserIndex, j, d \in Index
    <3> HAVE Has0(out, r, i, j) /\ Has0(out, r, c, d) /\ T0At(out, r, i, j) = T0At(out, r, c, d)
    <3>1. CASE Has0(mem, r, i, j) /\ Has0(mem, r, c, d)
      BY <3>1, <1>6 DEF Tree, Unshared
    <3>2. CASE ~Has0(mem, r, i, j)
      <4>1. i = a /\ j = b
        BY <3>2, <1>7
      <4>2. T0At(out, r, c, d) = n
        BY <4>1, <1>2
      <4>3. ~Has0(mem, r, c, d)
        BY <4>2, <1>6, <2>2
      <4> QED BY <4>1, <4>3, <1>7
    <3>3. CASE ~Has0(mem, r, c, d)
      <4>1. c = a /\ d = b
        BY <3>3, <1>7
      <4>2. T0At(out, r, i, j) = n
        BY <4>1, <1>2
      <4>3. ~Has0(mem, r, i, j)
        BY <4>2, <1>6, <2>2
      <4> QED BY <4>1, <4>3, <1>7
    <3> QED BY <3>1, <3>2, <3>3
  <2>5. \A i, c \in UserIndex, d \in Index :
          Has1(out, r, i) /\ Has0(out, r, c, d) => T1At(out, r, i) # T0At(out, r, c, d)
    <3> TAKE i, c \in UserIndex, d \in Index
    <3> HAVE Has1(out, r, i) /\ Has0(out, r, c, d)
    <3>1. CASE c = a /\ d = b
      BY <3>1, <1>1, <1>2, <2>1
    <3>2. CASE ~(c = a /\ d = b)
      <4>1. Has0(mem, r, c, d) /\ T0At(out, r, c, d) = T0At(mem, r, c, d)
        BY <3>2, <1>6, <1>7
      <4> QED BY <4>1, <1>1 DEF Tree, Unshared
    <3> QED BY <3>1, <3>2
  <2> QED BY <2>3, <2>4, <2>5 DEF Unshared
<1>10. Reached(out, r, T \cup {n})
  <2>1. ASSUME NEW p \in (T \cup {n})
        PROVE  \/ \E i \in UserIndex : Has1(out, r, i) /\ T1At(out, r, i) = p
               \/ \E i \in UserIndex, j \in Index : Has0(out, r, i, j) /\ T0At(out, r, i, j) = p
    <3>1. CASE p = n
      BY <3>1, <1>2
    <3>2. CASE p # n
      <4>1. p \in T
        BY <3>2, <1>u
      <4>2. CASE \E i \in UserIndex : Has1(mem, r, i) /\ T1At(mem, r, i) = p
        BY <4>2, <1>1
      <4>3. CASE \E i \in UserIndex, j \in Index : Has0(mem, r, i, j) /\ T0At(mem, r, i, j) = p
        BY <4>3, <1>6
      <4> QED BY <4>1, <4>2, <4>3 DEF Tree, Reached
    <3> QED BY <3>1, <3>2
  <2> QED BY <2>1 DEF Reached
<1>11. \A i \in UserIndex, j \in Index, m \in Index : Look(out, r, i, j, m) = Look(mem, r, i, j, m)
  <2> TAKE i \in UserIndex, j \in Index, m \in Index
  <2>1. CASE i = a /\ j = b
    <3>1. out[T0At(out, r, a, b)][m] = Pte0
      BY <1>2 DEF ZeroPage
    <3> QED BY <2>1, <3>1, Pte0Type DEF Look
  <2>2. CASE ~(i = a /\ j = b) /\ ~Has0(mem, r, i, j)
    BY <2>2, <1>7 DEF Look
  <2>3. CASE Has0(mem, r, i, j)
    <3>1. Has0(out, r, i, j) /\ T0At(out, r, i, j) = T0At(mem, r, i, j)
      BY <2>3, <1>6
    <3>2. T0At(mem, r, i, j) \in T /\ T0At(mem, r, i, j) # T1At(mem, r, a)
      BY <2>3 DEF Tree, Points, Unshared
    <3>3. out[T0At(mem, r, i, j)] = mem[T0At(mem, r, i, j)]
      BY <3>2
    <3> QED BY <2>3, <3>1, <3>3 DEF Look
  <2> QED BY <2>1, <2>2, <2>3
<1> QED BY <1>1, <1>2, <1>8, <1>9, <1>10, <1>11 DEF Tree
-----------------------------------------------------------------------------
(* The pages behind the kernel image.  The kernel's tables take the first  *)
(* three of them, the allocator hands out the others.                      *)
F == compute_first_unused_ppn(KernelEndPa)
Pool == F + 3 .. compute_max_ppn - 1

\* The pages behind the kernel image are pages of memory.
LEMMA Layout ==
    /\ F \in Nat /\ compute_max_ppn \in Nat /\ F + 3 <= compute_max_ppn
    /\ F \in PPN /\ F + 1 \in PPN /\ F + 2 \in PPN /\ Pool \subseteq PPN
    /\ F \notin Pool /\ F + 1 \notin Pool /\ F + 2 \notin Pool
    /\ PPN \subseteq Nat /\ NONE \notin PPN
    /\ \A p \in Nat : F + 3 <= p /\ p < compute_max_ppn => p \in Pool
<1> DEFINE b == PAGE_SIZE_BYTES
<1>t. b \in Nat /\ b # 0 /\ MEM_START_PA \in Nat /\ MEM_SIZE_BYTES \in Nat /\ KernelEndPa \in Nat
      /\ MEM_START_PA <= KernelEndPa /\ NONE \notin Int
  BY MemAssumption, KernelHalfAssumption
<1>1. PpnFromPa(MEM_START_PA) \in Nat /\ compute_max_ppn \in Nat
  BY <1>t DEF PpnFromPa, compute_max_ppn
<1>2. F \in Nat /\ PpnFromPa(KernelEndPa) <= F /\ PpnFromPa(KernelEndPa) \in Nat
  <2>1. KernelEndPa \div b \in Nat /\ (KernelEndPa + b) \div b \in Nat
        /\ KernelEndPa \div b <= (KernelEndPa + b) \div b
    BY <1>t
  <2> QED BY <2>1 DEF F, compute_first_unused_ppn, PpnFromPa
<1>3. PpnFromPa(MEM_START_PA) <= PpnFromPa(KernelEndPa)
  <2>1. PICK x \in Nat, y \in Nat : x = MEM_START_PA /\ y = KernelEndPa /\ x <= y
    BY <1>t
  <2>2. x \div b \in Nat /\ y \div b \in Nat /\ x = (x \div b) * b + (x % b) /\ x % b \in Nat
        /\ y = (y \div b) * b + (y % b) /\ y % b < b /\ y % b \in Nat
    BY <1>t, DivMod
  <2>3. SUFFICES ASSUME y \div b < x \div b PROVE FALSE
    BY <2>1, <2>2 DEF PpnFromPa
  <2>4. (y \div b) * b + b <= (x \div b) * b /\ (y \div b) * b \in Int /\ (x \div b) * b \in Int
    BY <2>2, <2>3, <1>t, MulStep
  <2>5. PICK c \in Int, d \in Int : c = (y \div b) * b /\ d = (x \div b) * b
    BY <2>4
  <2> HIDE DEF b
  <2> QED BY <2>1, <2>2, <2>4, <2>5, <1>t
<1>4. F + 3 <= compute_max_ppn
  BY KernelHalfAssumption DEF F
<1> HIDE DEF b, F
<1> QED BY <1>1, <1>2, <1>3, <1>4, <1>t DEF PPN, Pool

-----------------------------------------------------------------------------
(* The allocator.                                                          *)
NoRepeat(s) == \A i, j \in 1 .. Len(s) : s[i] = s[j] => i = j

AllocOk(al) ==
    /\ al \in [next_unused_ppn : F + 3 .. compute_max_ppn, max_ppn : {compute_max_ppn},
               recycled_ppn : Seq(Pool)]
    /\ NoRepeat(al.recycled_ppn)
    /\ \A i \in 1 .. Len(al.recycled_ppn) : al.recycled_ppn[i] < al.next_unused_ppn

FreeOf(al) == ToSet(al.recycled_ppn) \cup al.next_unused_ppn .. al.max_ppn - 1

\* A list without repetitions, as a set, is one element smaller without its last.
LEMMA PopFacts ==
    ASSUME NEW S, NEW s \in Seq(S), s # << >>, NoRepeat(s)
    PROVE  /\ Front(s) \in Seq(S) /\ NoRepeat(Front(s))
           /\ Last(s) \in ToSet(s) /\ Last(s) \in S
           /\ ToSet(Front(s)) = ToSet(s) \ {Last(s)}
           /\ Len(Front(s)) = Len(s) - 1 /\ \A i \in 1 .. Len(s) - 1 : Front(s)[i] = s[i]
<1>1. Len(s) \in Nat \ {0} /\ DOMAIN s = 1 .. Len(s)
  OBVIOUS
<1>2. /\ Front(s) \in Seq(S)
      /\ Len(Front(s)) = Len(s) - 1
      /\ \A i \in 1 .. Len(s) - 1 : Front(s)[i] = s[i]
  BY <1>1 DEF Front
<1>3. DOMAIN Front(s) = 1 .. Len(s) - 1
  BY <1>2
<1>4. Last(s) = s[Len(s)] /\ Last(s) \in ToSet(s) /\ Last(s) \in S
  BY <1>1 DEF Last, ToSet
<1>5. NoRepeat(Front(s))
  BY <1>1, <1>2 DEF NoRepeat
<1>6. ToSet(Front(s)) = ToSet(s) \ {Last(s)}
  BY <1>1, <1>2, <1>3, <1>4 DEF ToSet, NoRepeat
<1> QED BY <1>2, <1>4, <1>5, <1>6

\* Two lists without repetitions or common elements, one after the other.
LEMMA JoinFacts ==
    ASSUME NEW S, NEW s \in Seq(S), NEW t \in Seq(S), NoRepeat(s), NoRepeat(t),
           ToSet(s) \cap ToSet(t) = {}
    PROVE  /\ s \o t \in Seq(S)
           /\ NoRepeat(s \o t)
           /\ ToSet(s \o t) = ToSet(s) \cup ToSet(t)
<1>1. /\ s \o t \in Seq(S)
      /\ Len(s \o t) = Len(s) + Len(t)
      /\ \A i \in 1 .. Len(s) + Len(t) :
            (s \o t)[i] = IF i <= Len(s) THEN s[i] ELSE t[i - Len(s)]
  OBVIOUS
<1>2. /\ Len(s) \in Nat /\ Len(t) \in Nat
      /\ DOMAIN s = 1 .. Len(s) /\ DOMAIN t = 1 .. Len(t)
      /\ DOMAIN (s \o t) = 1 .. Len(s) + Len(t)
  BY <1>1
<1>3. \A i \in 1 .. Len(s), j \in 1 .. Len(t) : s[i] # t[j]
  BY <1>2 DEF ToSet
<1>4. NoRepeat(s \o t)
  <2> SUFFICES ASSUME NEW i \in 1 .. Len(s) + Len(t),
                      NEW j \in 1 .. Len(s) + Len(t), (s \o t)[i] = (s \o t)[j]
               PROVE  i = j
    BY <1>1 DEF NoRepeat
  <2> QED BY <1>1, <1>2, <1>3 DEF NoRepeat
<1>5. ToSet(s \o t) = ToSet(s) \cup ToSet(t)
  <2>1. ToSet(s \o t) \subseteq ToSet(s) \cup ToSet(t)
    BY <1>1, <1>2 DEF ToSet
  <2>2. \A i \in 1 .. Len(s) : s[i] = (s \o t)[i]
    BY <1>1, <1>2
  <2>3. \A j \in 1 .. Len(t) : t[j] = (s \o t)[Len(s) + j]
    BY <1>1, <1>2
  <2>4. ToSet(s) \subseteq ToSet(s \o t)
    BY <1>2, <2>2 DEF ToSet
  <2>5. \A j \in 1 .. Len(t) : Len(s) + j \in DOMAIN (s \o t)
    BY <1>2
  <2>6. ToSet(t) \subseteq ToSet(s \o t)
    BY <1>2, <2>3, <2>5 DEF ToSet
  <2> QED BY <2>1, <2>4, <2>6
<1> QED BY <1>1, <1>4, <1>5

\* A new element at the end of such a list.
LEMMA PushFacts ==
    ASSUME NEW S, NEW s \in Seq(S), NEW p \in S, NoRepeat(s), p \notin ToSet(s)
    PROVE  /\ Append(s, p) \in Seq(S)
           /\ NoRepeat(Append(s, p))
           /\ ToSet(Append(s, p)) = ToSet(s) \cup {p}
<1>1. /\ Append(s, p) \in Seq(S) /\ Len(Append(s, p)) = Len(s) + 1 /\ Len(s) \in Nat
      /\ \A i \in 1 .. Len(s) : Append(s, p)[i] = s[i]
      /\ Append(s, p)[Len(s) + 1] = p
      /\ DOMAIN s = 1 .. Len(s) /\ DOMAIN Append(s, p) = 1 .. Len(s) + 1
  OBVIOUS
<1>2. NoRepeat(Append(s, p))
  <2>1. \A i \in 1 .. Len(s) : s[i] # p
    BY <1>1 DEF ToSet
  <2> QED BY <1>1, <2>1 DEF NoRepeat
<1>3. ToSet(Append(s, p)) = ToSet(s) \cup {p}
  <2>1. ToSet(Append(s, p)) \subseteq ToSet(s) \cup {p}
    BY <1>1 DEF ToSet
  <2>2. ToSet(s) \subseteq ToSet(Append(s, p))
    BY <1>1 DEF ToSet
  <2>3. p \in ToSet(Append(s, p))
    BY <1>1 DEF ToSet
  <2> QED BY <2>1, <2>2, <2>3
<1> QED BY <1>1, <1>2, <1>3

\* alloc_page takes a free page; it fails only if there is none.
Taken(al, p, a2) ==
    /\ p \in FreeOf(al) /\ p \in Pool
    /\ AllocOk(a2) /\ FreeOf(a2) = FreeOf(al) \ {p}
    /\ alloc_page(al) = [page |-> p, allocator |-> a2]

LEMMA AllocPage ==
    ASSUME NEW al, AllocOk(al)
    PROVE  \/ FreeOf(al) = {} /\ alloc_page(al) = [page |-> NONE, allocator |-> al]
           \/ \E p, a2 : Taken(al, p, a2)
<1>1. PICK n \in F + 3 .. compute_max_ppn, s \in Seq(Pool) :
         al = [next_unused_ppn |-> n, max_ppn |-> compute_max_ppn, recycled_ppn |-> s]
  BY DEF AllocOk
<1>l. F \in Nat /\ compute_max_ppn \in Nat /\ Pool \subseteq Nat
  BY Layout
<1>2. /\ NoRepeat(s) /\ \A i \in 1 .. Len(s) : s[i] < n
      /\ FreeOf(al) = ToSet(s) \cup n .. compute_max_ppn - 1
      /\ DOMAIN s = 1 .. Len(s) /\ n \in Nat /\ Len(s) \in Nat
  BY <1>1, <1>l DEF AllocOk, FreeOf
<1>3. CASE s # << >>
  <2>1. PICK a2 : a2 = [next_unused_ppn |-> n, max_ppn |-> compute_max_ppn,
                        recycled_ppn |-> Front(s)]
    OBVIOUS
  <2>2. alloc_page(al) = [page |-> Last(s), allocator |-> a2]
    BY <1>1, <1>3, <2>1 DEF alloc_page
  <2>3. /\ Front(s) \in Seq(Pool) /\ NoRepeat(Front(s))
        /\ Last(s) \in ToSet(s) /\ Last(s) \in Pool
        /\ ToSet(Front(s)) = ToSet(s) \ {Last(s)}
        /\ Len(Front(s)) = Len(s) - 1 /\ \A i \in 1 .. Len(s) - 1 : Front(s)[i] = s[i]
    BY <1>2, <1>3, PopFacts
  <2>4. \A i \in 1 .. Len(Front(s)) : Front(s)[i] < n
    BY <2>3, <1>2
  <2>5. AllocOk(a2)
    BY <2>1, <2>3, <2>4, <1>1 DEF AllocOk
  <2>6. Last(s) \notin n .. compute_max_ppn - 1
    <3>1. PICK i \in 1 .. Len(s) : Last(s) = s[i]
      BY <2>3, <1>2 DEF ToSet
    <3>2. Last(s) < n /\ Last(s) \in Nat
      BY <3>1, <1>2, <2>3, <1>l
    <3> QED BY <3>2, <1>2
  <2>7. FreeOf(a2) = FreeOf(al) \ {Last(s)}
    <3>1. FreeOf(a2) = ToSet(Front(s)) \cup n .. compute_max_ppn - 1
      BY <2>1 DEF FreeOf
    <3> QED BY <3>1, <2>3, <2>6, <1>2
  <2> QED BY <2>2, <2>3, <2>5, <2>7, <1>2 DEF Taken
<1>4. CASE s = << >> /\ n = compute_max_ppn
  <2>1. ToSet(s) = {}
    BY <1>4, <1>2 DEF ToSet
  <2>2. FreeOf(al) = {}
    BY <2>1, <1>4, <1>2, <1>l
  <2>3. alloc_page(al) = [page |-> NONE, allocator |-> al]
    BY <1>1, <1>4, <1>l DEF alloc_page
  <2> QED BY <2>2, <2>3
<1>5. CASE s = << >> /\ n # compute_max_ppn
  <2>0. n < compute_max_ppn /\ F + 3 <= n
    BY <1>5, <1>l
  <2>1. PICK a2 : a2 = [next_unused_ppn |-> n + 1, max_ppn |-> compute_max_ppn,
                        recycled_ppn |-> s]
    OBVIOUS
  <2>2. alloc_page(al) = [page |-> n, allocator |-> a2]
    BY <1>1, <1>5, <2>0, <2>1, <1>2, <1>l DEF alloc_page
  <2>3. n \in Pool /\ n + 1 \in F + 3 .. compute_max_ppn
    BY <2>0, <1>2, <1>l DEF Pool
  <2>4. AllocOk(a2)
    BY <2>1, <2>3, <1>5 DEF AllocOk, NoRepeat
  <2>5. ToSet(s) = {}
    BY <1>5, <1>2 DEF ToSet
  <2>6. FreeOf(a2) = FreeOf(al) \ {n}
    <3>1. FreeOf(a2) = n + 1 .. compute_max_ppn - 1
      BY <2>1, <2>5 DEF FreeOf
    <3> QED BY <3>1, <2>5, <1>2, <1>l
  <2>7. n \in FreeOf(al)
    BY <2>0, <1>2, <1>l
  <2> QED BY <2>2, <2>3, <2>4, <2>6, <2>7 DEF Taken
<1> QED BY <1>3, <1>4, <1>5

\* Free pages are of the pool; a page that is not free has been handed out.
LEMMA FreeFacts ==
    ASSUME NEW al, AllocOk(al)
    PROVE  /\ FreeOf(al) \subseteq Pool
           /\ \A p \in Pool : p \notin FreeOf(al) => p < al.next_unused_ppn
<1>l. F \in Nat /\ compute_max_ppn \in Nat /\ Pool \subseteq Nat
  BY Layout
<1>1. al.recycled_ppn \in Seq(Pool) /\ al.max_ppn = compute_max_ppn
      /\ al.next_unused_ppn \in Nat /\ F + 3 <= al.next_unused_ppn
  BY <1>l DEF AllocOk
<1>2. ToSet(al.recycled_ppn) \subseteq Pool
  BY <1>1 DEF ToSet
<1> QED BY <1>1, <1>2, <1>l DEF FreeOf, Pool

\* The pages of a Vec go back to the free ones.
LEMMA DeallocMany ==
    ASSUME NEW al, AllocOk(al), NEW ps \in Seq(Pool), NoRepeat(ps),
           ToSet(ps) \cap FreeOf(al) = {}
    PROVE  AllocOk(DeallocSeq(al, ps)) /\ FreeOf(DeallocSeq(al, ps)) = FreeOf(al) \cup ToSet(ps)
<1>1. PICK n \in F + 3 .. compute_max_ppn, s \in Seq(Pool) :
         al = [next_unused_ppn |-> n, max_ppn |-> compute_max_ppn, recycled_ppn |-> s]
  BY DEF AllocOk
<1>l. F \in Nat /\ compute_max_ppn \in Nat /\ Pool \subseteq Nat
  BY Layout
<1>2. PICK out : out = [next_unused_ppn |-> n, max_ppn |-> compute_max_ppn, recycled_ppn |-> s \o ps]
  OBVIOUS
<1>3. DeallocSeq(al, ps) = out
  <2>1. PICK z : z = s \o ps
    OBVIOUS
  <2>2. al.recycled_ppn = s
    BY <1>1
  <2>3. DeallocSeq(al, ps) = [al EXCEPT !.recycled_ppn = z]
    BY <2>1, <2>2 DEF DeallocSeq
  <2>4. [al EXCEPT !.recycled_ppn = z]
           = [next_unused_ppn |-> n, max_ppn |-> compute_max_ppn, recycled_ppn |-> z]
    BY <1>1
  <2> QED BY <2>1, <2>3, <2>4, <1>2
<1>4. NoRepeat(s) /\ \A i \in 1 .. Len(s) : s[i] < n
  BY <1>1 DEF AllocOk
<1>5. ToSet(s) \cap ToSet(ps) = {}
  BY <1>1 DEF FreeOf
<1>6. s \o ps \in Seq(Pool) /\ NoRepeat(s \o ps) /\ ToSet(s \o ps) = ToSet(s) \cup ToSet(ps)
  BY <1>4, <1>5, JoinFacts
<1>7. \A p \in ToSet(s \o ps) : p < n
  <2>1. \A p \in ToSet(s) : p < n
    BY <1>4 DEF ToSet
  <2>2. \A p \in ToSet(ps) : p < n
    <3>1. ToSet(ps) \subseteq Pool
      BY DEF ToSet
    <3> QED BY <3>1, <1>1, FreeFacts
  <2> QED BY <2>1, <2>2, <1>6
<1>8. \A i \in 1 .. Len(s \o ps) : (s \o ps)[i] < n
  BY <1>6, <1>7 DEF ToSet
<1>9. AllocOk(out)
  BY <1>2, <1>6, <1>8 DEF AllocOk
<1>10. FreeOf(out) = FreeOf(al) \cup ToSet(ps)
  BY <1>1, <1>2, <1>6 DEF FreeOf
<1> QED BY <1>3, <1>9, <1>10

\* A page goes back to the free ones.
LEMMA Dealloc ==
    ASSUME NEW al, AllocOk(al), NEW p \in Pool, p \notin FreeOf(al)
    PROVE  AllocOk(dealloc(al, p)) /\ FreeOf(dealloc(al, p)) = FreeOf(al) \cup {p}
<1>1. <<p>> \in Seq(Pool) /\ NoRepeat(<<p>>) /\ ToSet(<<p>>) = {p}
  BY DEF NoRepeat, ToSet
<1>2. AllocOk(DeallocSeq(al, <<p>>)) /\ FreeOf(DeallocSeq(al, <<p>>)) = FreeOf(al) \cup {p}
  BY <1>1, DeallocMany
<1>3. dealloc(al, p) = DeallocSeq(al, <<p>>)
  <2>1. al.recycled_ppn \in Seq(Pool)
    BY DEF AllocOk
  <2>2. Append(al.recycled_ppn, p) = al.recycled_ppn \o <<p>>
    BY <2>1
  <2> QED BY <2>2 DEF dealloc, DeallocSeq
<1> QED BY <1>2, <1>3
-----------------------------------------------------------------------------
(* A user root: its pages are the root page and the tables below it.       *)
Ptr(p) == [ppn |-> p, flags |-> {"V"}]

PhysRec(al, m) == [alloc |-> al, mem |-> m]

Tabs(rt) == ToSet(rt.pages)

RootOk(rt, al) ==
    /\ rt \in [ppn : Pool, pages : Seq(Pool)]
    /\ NoRepeat(rt.pages)
    /\ rt.ppn \in Tabs(rt)
    /\ Tabs(rt) \cap FreeOf(al) = {}

\* The kernel's tables are as init_kernel_satp left them.
KernelMem(m) ==
    /\ m[F] = [i \in Index |-> IF i = KERNEL_ROOT THEN Ptr(F + 1) ELSE Pte0]
    /\ m[F + 1] = [i \in Index |->
          IF i = 0 THEN Ptr(F + 2)
          ELSE IF i = 1 THEN [ppn   |-> LargeFrame - (LargeFrame % PTES_PER_TABLE),
                              flags |-> KernelFlags]
          ELSE Pte0]
    /\ m[F + 2] = [i \in Index |-> IF i = 1 THEN [ppn |-> DeviceFrame, flags |-> KernelFlags]
                                   ELSE Pte0]

\* Memory holds words of W, the kernel's tables, and the tree of the root.
Good(W, al, m, rt) ==
    /\ AllocOk(al) /\ RootOk(rt, al)
    /\ m \in Memory(W)
    /\ KernelMem(m)
    /\ \A i \in KernelIndex : m[rt.ppn][i] = m[F][i]
    /\ Tree(m, rt.ppn, Tabs(rt) \ {rt.ppn})

SameLook(m, m2, r) ==
    \A i \in UserIndex, j \in Index, k \in Index : Look(m2, r, i, j, k) = Look(m, r, i, j, k)

\* The root has taken some of the free pages for tables, and nothing but these
\* pages and its own has been written.
Grown(al, m, rt, al2, m2, rt2) ==
    /\ rt2.ppn = rt.ppn
    /\ Tabs(rt) \subseteq Tabs(rt2) /\ FreeOf(al2) \subseteq FreeOf(al)
    /\ FreeOf(al2) \cup Tabs(rt2) = FreeOf(al) \cup Tabs(rt)
    /\ \A p \in PPN : p \notin FreeOf(al) \cup Tabs(rt) => m2[p] = m[p]

LEMMA GrownTrans ==
    ASSUME NEW al, NEW m, NEW rt, NEW al1, NEW m1, NEW rt1, NEW al2, NEW m2, NEW rt2,
           Grown(al, m, rt, al1, m1, rt1), Grown(al1, m1, rt1, al2, m2, rt2)
    PROVE  Grown(al, m, rt, al2, m2, rt2)
BY DEF Grown

Write(m, t, i, e) == [m EXCEPT ![t][i] = e]

\* An entry of a table is written.
LEMMA EntryWrite ==
    ASSUME NEW W, NEW m \in Memory(W), NEW t \in PPN, NEW i \in Index, NEW e \in W,
           NEW out, out = Write(m, t, i, e)
    PROVE  /\ out \in Memory(W)
           /\ out[t][i] = e
           /\ \A j \in Index : j # i => out[t][j] = m[t][j]
           /\ \A p \in PPN : p # t => out[p] = m[p]
BY DEF Memory, Write

\* alloc_zeroed_page
LEMMA AllocZeroed ==
    ASSUME NEW al, AllocOk(al), NEW m, NEW r, r = alloc_zeroed_page(PhysRec(al, m))
    PROVE  \/ FreeOf(al) = {} /\ r = [page |-> NONE, phys |-> PhysRec(al, m)]
           \/ \E p, a2 : /\ Taken(al, p, a2)
                         /\ r = [page |-> p, phys |-> PhysRec(a2, [m EXCEPT ![p] = ZeroPage])]
<1>1. PhysRec(al, m).alloc = al /\ PhysRec(al, m).mem = m
  BY DEF PhysRec
<1>2. CASE FreeOf(al) = {} /\ alloc_page(al) = [page |-> NONE, allocator |-> al]
  BY <1>1, <1>2 DEF alloc_zeroed_page, PhysRec
<1>3. ASSUME NEW p, NEW a2, Taken(al, p, a2)
      PROVE  r = [page |-> p, phys |-> PhysRec(a2, [m EXCEPT ![p] = ZeroPage])]
  <2>1. alloc_page(al) = [page |-> p, allocator |-> a2] /\ p # NONE
    BY <1>3, Layout DEF Taken
  <2> QED BY <1>1, <2>1 DEF alloc_zeroed_page, PhysRec
<1> QED BY <1>2, <1>3, AllocPage

WalkRec(al, m, rt, t) == [phys |-> PhysRec(al, m), root |-> rt, res |-> "Ok", table |-> t]

AddPage(rt, p) == [rt EXCEPT !.pages = Append(@, p)]

\* A free page joins the pages of the root.
LEMMA AddPageFacts ==
    ASSUME NEW al, AllocOk(al), NEW rt, RootOk(rt, al), NEW p, NEW a2, Taken(al, p, a2)
    PROVE  /\ RootOk(AddPage(rt, p), a2)
           /\ AddPage(rt, p).ppn = rt.ppn
           /\ Tabs(AddPage(rt, p)) = Tabs(rt) \cup {p}
           /\ p \notin Tabs(rt)
<1>1. PICK r \in Pool, s \in Seq(Pool) : rt = [ppn |-> r, pages |-> s]
  BY DEF RootOk
<1>2. NoRepeat(s) /\ p \notin ToSet(s) /\ p \in Pool /\ r \in ToSet(s)
  BY <1>1 DEF RootOk, Tabs, Taken
<1>3. Append(s, p) \in Seq(Pool) /\ NoRepeat(Append(s, p)) /\ ToSet(Append(s, p)) = ToSet(s) \cup {p}
  BY <1>2, PushFacts
<1>4. PICK z : z = Append(s, p)
  OBVIOUS
<1>5. AddPage(rt, p) = [ppn |-> r, pages |-> z]
  <2>1. rt.pages = s
    BY <1>1
  <2>2. AddPage(rt, p) = [rt EXCEPT !.pages = z]
    BY <1>4, <2>1, Zenon DEF AddPage
  <2>3. [rt EXCEPT !.pages = z] = [ppn |-> r, pages |-> z]
    BY <1>1
  <2> QED BY <2>2, <2>3
<1>6. Tabs(AddPage(rt, p)) = Tabs(rt) \cup {p} /\ Tabs(rt) = ToSet(s)
  <2>1. AddPage(rt, p).pages = z /\ rt.pages = s
    BY <1>1, <1>5
  <2> QED BY <2>1, <1>3, <1>4 DEF Tabs
<1>7. FreeOf(a2) = FreeOf(al) \ {p}
  BY DEF Taken
<1>8. AddPage(rt, p).ppn = r /\ AddPage(rt, p).pages = z /\ rt.ppn = r
  BY <1>1, <1>5
<1>9. AddPage(rt, p) \in [ppn : Pool, pages : Seq(Pool)]
  BY <1>3, <1>4, <1>5
<1>10. RootOk(AddPage(rt, p), a2)
  BY <1>2, <1>3, <1>4, <1>6, <1>7, <1>8, <1>9 DEF RootOk
<1> QED BY <1>2, <1>6, <1>8, <1>10

\* The walk is at the new table p, which is empty and below slot i of t.
Linked(W, out, d, al, m, rt, t, i, p, a2) ==
    /\ Taken(al, p, a2)
    /\ out \in Memory(W)
    /\ d = WalkRec(a2, out, AddPage(rt, p), p)
    /\ out[p] = ZeroPage
    /\ out[t][i] = Ptr(p)
    /\ \A j \in Index : j # i => out[t][j] = m[t][j]
    /\ \A q \in PPN : q # t /\ q # p => out[q] = m[q]

\* A step of the walk: it moves on, or fails where there is no table and no page
\* for one, which changes nothing.
Failed(d, al, m, rt) ==
    /\ d.phys = PhysRec(al, m) /\ d.root = rt /\ d.res = "AcquirePageFailed"
    /\ FreeOf(al) = {}

\* The walk's step from an entry: its three ways on, as no entry above the last
\* level is a leaf.
LEMMA DescendCases ==
    ASSUME NEW W, PTE \subseteq W, NEW al, AllocOk(al), NEW m \in Memory(W), NEW rt, NEW t \in PPN,
           t \notin FreeOf(al), NEW i \in Index,
           ~is_leaf(m[t][i]), NEW d, d = Descend(WalkRec(al, m, rt, t), i)
    PROVE  /\ is_valid(m[t][i]) => d = WalkRec(al, m, rt, m[t][i].ppn)
           /\ ~is_valid(m[t][i]) => \/ Failed(d, al, m, rt)
                                    \/ \E out, p, a2 : Linked(W, out, d, al, m, rt, t, i, p, a2)
<1>w. PICK w : w = WalkRec(al, m, rt, t)
  OBVIOUS
<1>1. w.phys = PhysRec(al, m) /\ w.res = "Ok" /\ w.table = t /\ w.phys.mem = m /\ w.root = rt
  BY <1>w DEF WalkRec, PhysRec
<1>d. d = Descend(w, i)
  BY <1>w
<1>2. CASE is_valid(m[t][i])
  <2>1. d = [w EXCEPT !.table = m[t][i].ppn]
    BY <1>1, <1>2, <1>d, Zenon DEF Descend
  <2>2. [w EXCEPT !.table = m[t][i].ppn] = WalkRec(al, m, rt, m[t][i].ppn)
    BY <1>w DEF WalkRec
  <2> QED BY <1>2, <2>1, <2>2
<1>r. PICK r : r = alloc_zeroed_page(w.phys)
  OBVIOUS
<1>3. CASE ~is_valid(m[t][i]) /\ FreeOf(al) = {} /\ r = [page |-> NONE, phys |-> PhysRec(al, m)]
  <2>2. alloc_zeroed_page(w.phys).page = NONE
    BY <1>3, <1>r
  <2>3. d = [w EXCEPT !.res = "AcquirePageFailed"]
    BY <1>1, <1>3, <1>d, <2>2, Zenon DEF Descend
  <2>4. d.phys = w.phys /\ d.root = w.root /\ d.res = "AcquirePageFailed"
    BY <2>3, <1>w DEF WalkRec
  <2> QED BY <1>1, <1>3, <2>4 DEF Failed
<1>4. ASSUME ~is_valid(m[t][i]), NEW p, NEW a2, Taken(al, p, a2),
             r = [page |-> p, phys |-> PhysRec(a2, [m EXCEPT ![p] = ZeroPage])]
      PROVE  \E out : Linked(W, out, d, al, m, rt, t, i, p, a2)
  <2>0. p \in Pool /\ p \in PPN /\ p # t /\ p # NONE /\ p \in Nat
    BY <1>4, Layout DEF Taken
  <2>1. PICK m1 : m1 = [m EXCEPT ![p] = ZeroPage]
    OBVIOUS
  <2>2. r.page = p /\ r.phys = PhysRec(a2, m1)
    BY <1>4, <2>1
  <2>3. d = NewTable(w, i, r)
    <3>1. alloc_zeroed_page(w.phys).page # NONE
      BY <2>0, <2>2, <1>r
    <3>2. d = NewTable(w, i, alloc_zeroed_page(w.phys))
      BY <1>1, <1>4, <1>d, <3>1, Zenon DEF Descend
    <3> QED BY <3>2, <1>r
  <2>z. ZeroPage \in [Index -> W]
    BY Pte0Type DEF ZeroPage
  <2>4. m1 \in Memory(W) /\ m1[p] = ZeroPage /\ \A q \in PPN : q # p => m1[q] = m[q]
    BY <2>0, <2>1, <2>z DEF Memory
  <2>5. PICK out : out = Write(m1, t, i, Ptr(p))
    OBVIOUS
  <2>6. Ptr(p) \in W
    BY <2>0 DEF Ptr, PTE
  <2>7. /\ out \in Memory(W) /\ out[t][i] = Ptr(p)
        /\ \A j \in Index : j # i => out[t][j] = m1[t][j]
        /\ \A q \in PPN : q # t => out[q] = m1[q]
    BY <2>4, <2>5, <2>6, EntryWrite
  <2>8. TableAt(w, i, r) = PhysRec(a2, out)
    <3>1. [PhysRec(a2, m1) EXCEPT !.mem[t][i] = Ptr(p)] = PhysRec(a2, out)
      BY <2>5 DEF PhysRec, Write
    <3> QED BY <3>1, <2>2, <1>1 DEF TableAt, Ptr
  <2>9. NewTable(w, i, r) = WalkRec(a2, out, AddPage(rt, p), p)
    BY <2>8, <2>2, <1>1, Zenon DEF NewTable, WalkRec, AddPage
  <2>10. Linked(W, out, d, al, m, rt, t, i, p, a2)
    <3>1. \A j \in Index : j # i => out[t][j] = m[t][j]
      BY <2>0, <2>4, <2>7
    <3>2. \A q \in PPN : q # t /\ q # p => out[q] = m[q]
      BY <2>4, <2>7
    <3>3. out[p] = ZeroPage
      BY <2>0, <2>4, <2>7
    <3> QED BY <1>4, <2>3, <2>7, <2>9, <3>1, <3>2, <3>3 DEF Linked
  <2> QED BY <2>10
<1>5. \/ FreeOf(al) = {} /\ r = [page |-> NONE, phys |-> PhysRec(al, m)]
      \/ \E p, a2 : Taken(al, p, a2) /\ r = [page |-> p, phys |-> PhysRec(a2, [m EXCEPT ![p] = ZeroPage])]
  <2>1. r = alloc_zeroed_page(PhysRec(al, m))
    BY <1>r, <1>1
  <2> QED BY <2>1, AllocZeroed
<1> QED BY <1>2, <1>3, <1>4, <1>5

Moved(W, d, al, m, rt, al2, m2, rt2, t) ==
    /\ Good(W, al2, m2, rt2) /\ SameLook(m, m2, rt.ppn) /\ Grown(al, m, rt, al2, m2, rt2)
    /\ d = WalkRec(al2, m2, rt2, t)

\* The tables of a root are none of the kernel's, and not free.
LEMMA TabsApart ==
    ASSUME NEW W, NEW al, NEW m, NEW rt, Good(W, al, m, rt)
    PROVE  /\ rt.ppn \in Tabs(rt) /\ Tabs(rt) \subseteq Pool /\ Tabs(rt) \subseteq PPN
           /\ Tabs(rt) \cap FreeOf(al) = {}
           /\ F \notin Tabs(rt) /\ F + 1 \notin Tabs(rt) /\ F + 2 \notin Tabs(rt)
           /\ F \notin FreeOf(al) /\ F + 1 \notin FreeOf(al) /\ F + 2 \notin FreeOf(al)
           /\ F \in PPN /\ F + 1 \in PPN /\ F + 2 \in PPN /\ FreeOf(al) \subseteq Pool
<1>1. Tabs(rt) \subseteq Pool
  BY DEF Good, RootOk, Tabs, ToSet
<1>2. FreeOf(al) \subseteq Pool
  BY FreeFacts DEF Good
<1> QED BY <1>1, <1>2, Layout DEF Good, RootOk

\* A new table: the pages outside the root's and the new one are as they were.
LEMMA LinkedGrown ==
    ASSUME NEW W, NEW al, NEW m, NEW rt, Good(W, al, m, rt), NEW t \in Tabs(rt), NEW i \in Index,
           NEW out, NEW d, NEW p, NEW a2, Linked(W, out, d, al, m, rt, t, i, p, a2),
           NEW rt2, rt2 = AddPage(rt, p)
    PROVE  /\ Grown(al, m, rt, a2, out, rt2)
           /\ AllocOk(a2) /\ RootOk(rt2, a2) /\ rt2.ppn = rt.ppn
           /\ p \notin Tabs(rt) /\ Tabs(rt2) = Tabs(rt) \cup {p}
           /\ Tabs(rt2) \ {rt2.ppn} = (Tabs(rt) \ {rt.ppn}) \cup {p}
           /\ KernelMem(out) /\ out[F] = m[F]
           /\ \A q \in Tabs(rt) : q # t => out[q] = m[q]
<1>1. Taken(al, p, a2) /\ \A q \in PPN : q # t /\ q # p => out[q] = m[q]
  BY DEF Linked
<1>2. RootOk(rt2, a2) /\ rt2.ppn = rt.ppn /\ Tabs(rt2) = Tabs(rt) \cup {p} /\ p \notin Tabs(rt)
  BY <1>1, AddPageFacts DEF Good
<1>3. AllocOk(a2) /\ FreeOf(a2) = FreeOf(al) \ {p} /\ p \in FreeOf(al)
  BY <1>1 DEF Taken
<1>4. Grown(al, m, rt, a2, out, rt2)
  BY <1>1, <1>2, <1>3 DEF Grown
<1>5. out[F] = m[F] /\ out[F + 1] = m[F + 1] /\ out[F + 2] = m[F + 2]
  BY <1>4, TabsApart DEF Grown
<1>6. KernelMem(out)
  BY <1>5 DEF Good, KernelMem
<1>7. \A q \in Tabs(rt) : q # t => out[q] = m[q]
  BY <1>1, <1>2, TabsApart
<1>8. rt.ppn # p
  BY <1>2, TabsApart
<1> QED BY <1>2, <1>3, <1>4, <1>5, <1>6, <1>7, <1>8

\* The first step of map_create's walk, from the root.
LEMMA DescendRoot ==
    ASSUME NEW W, PTE \subseteq W, NEW al, NEW m, NEW rt, Good(W, al, m, rt), NEW a \in UserIndex,
           NEW d, d = Descend(WalkRec(al, m, rt, rt.ppn), a)
    PROVE  \/ \E al2, m2, rt2 : /\ Moved(W, d, al, m, rt, al2, m2, rt2, T1At(m2, rt.ppn, a))
                                /\ Has1(m2, rt.ppn, a)
           \/ Failed(d, al, m, rt) /\ ~Has1(m, rt.ppn, a)
<1>r. PICK r : r = rt.ppn
  OBVIOUS
<1>g. AllocOk(al) /\ m \in Memory(W) /\ Tree(m, r, Tabs(rt) \ {r})
  BY <1>r DEF Good
<1>f. r \in PPN /\ r \in Tabs(rt) /\ r \notin FreeOf(al)
  BY <1>r, TabsApart
<1>a. a \in Index
  BY Shape DEF UserIndex, Index
<1>l. ~is_leaf(m[r][a])
  <2>1. Has1(m, r, a) => m[r][a].flags = {"V"}
    BY <1>g DEF Tree, Points
  <2> QED BY <2>1 DEF Has1, is_leaf
<1>c. /\ is_valid(m[r][a]) => d = WalkRec(al, m, rt, m[r][a].ppn)
      /\ ~is_valid(m[r][a]) => \/ Failed(d, al, m, rt)
                               \/ \E out, p, a2 : Linked(W, out, d, al, m, rt, r, a, p, a2)
  BY <1>a, <1>f, <1>g, <1>l, <1>r, DescendCases
<1>1. CASE Has1(m, r, a)
  <2>1. d = WalkRec(al, m, rt, T1At(m, r, a))
    BY <1>1, <1>c DEF Has1, T1At
  <2>2. Moved(W, d, al, m, rt, al, m, rt, T1At(m, r, a))
    BY <2>1 DEF Moved, SameLook, Grown
  <2> QED BY <1>1, <2>2, <1>r
<1>2. CASE ~Has1(m, r, a) /\ Failed(d, al, m, rt)
  BY <1>2, <1>r
<1>3. ASSUME ~Has1(m, r, a), NEW out, NEW p, NEW a2, Linked(W, out, d, al, m, rt, r, a, p, a2)
      PROVE  \E al2, m2, rt2 : /\ Moved(W, d, al, m, rt, al2, m2, rt2, T1At(m2, r, a))
                               /\ Has1(m2, r, a)
  <2>p. PICK rt2 : rt2 = AddPage(rt, p)
    OBVIOUS
  <2>1. /\ out \in Memory(W)
        /\ d = WalkRec(a2, out, rt2, p)
        /\ out[p] = ZeroPage
        /\ out[r][a] = [ppn |-> p, flags |-> {"V"}]
        /\ \A j \in Index : j # a => out[r][j] = m[r][j]
    BY <1>3, <2>p DEF Linked, Ptr
  <2>2. /\ Grown(al, m, rt, a2, out, rt2)
        /\ AllocOk(a2) /\ RootOk(rt2, a2) /\ rt2.ppn = r
        /\ p \notin Tabs(rt)
        /\ Tabs(rt2) \ {r} = (Tabs(rt) \ {r}) \cup {p}
        /\ KernelMem(out) /\ out[F] = m[F]
        /\ \A q \in Tabs(rt) : q # r => out[q] = m[q]
    <3>1. rt2.ppn = rt.ppn
      BY <1>3, <1>a, <1>f, <2>p, LinkedGrown
    <3> QED BY <3>1, <1>3, <1>a, <1>f, <1>r, <2>p, LinkedGrown
  <2>3. \A i \in UserIndex : i # a => out[r][i] = m[r][i]
    BY <2>1, Shape DEF UserIndex, Index
  <2>4. PICK T : T = Tabs(rt) \ {r}
    OBVIOUS
  <2>5. p \notin T /\ Tree(m, r, T) /\ \A q \in T : out[q] = m[q]
    BY <2>2, <2>4, <1>g
  <2>6. /\ Tree(out, r, T \cup {p}) /\ Has1(out, r, a) /\ T1At(out, r, a) = p
        /\ \A i \in UserIndex, j \in Index, k \in Index : Look(out, r, i, j, k) = Look(m, r, i, j, k)
    BY <1>3, <2>1, <2>3, <2>5, AddTable1
  <2>7. \A i \in KernelIndex : out[r][i] = out[F][i]
    <3>1. \A i \in KernelIndex : i \in Index /\ i # a
      BY Shape DEF KernelIndex, UserIndex, Index
    <3>2. \A i \in KernelIndex : out[r][i] = m[r][i]
      BY <2>1, <3>1
    <3> QED BY <3>2, <2>2, <1>r DEF Good
  <2>8. Good(W, a2, out, rt2)
    BY <2>1, <2>2, <2>4, <2>6, <2>7 DEF Good
  <2>9. Moved(W, d, al, m, rt, a2, out, rt2, T1At(out, r, a))
    BY <2>1, <2>2, <2>6, <2>8, <1>r DEF Moved, SameLook
  <2> QED BY <2>6, <2>9
<1>4. CASE ~Has1(m, r, a)
  BY <1>2, <1>3, <1>4, <1>c, <1>r DEF Has1
<1> QED BY <1>1, <1>4

\* The second step, from a level-1 table.
LEMMA DescendTable ==
    ASSUME NEW W, PTE \subseteq W, NEW al, NEW m, NEW rt, Good(W, al, m, rt), NEW a \in UserIndex,
           Has1(m, rt.ppn, a), NEW b \in Index,
           NEW d, d = Descend(WalkRec(al, m, rt, T1At(m, rt.ppn, a)), b)
    PROVE  \/ \E al2, m2, rt2 : /\ Moved(W, d, al, m, rt, al2, m2, rt2, T0At(m2, rt.ppn, a, b))
                                /\ Has0(m2, rt.ppn, a, b)
           \/ Failed(d, al, m, rt) /\ ~Has0(m, rt.ppn, a, b)
<1>r. PICK r : r = rt.ppn
  OBVIOUS
<1>t. PICK t : t = T1At(m, r, a)
  OBVIOUS
<1>g. AllocOk(al) /\ m \in Memory(W) /\ Tree(m, r, Tabs(rt) \ {r}) /\ Has1(m, r, a)
  BY <1>r DEF Good
<1>u. t \in Tabs(rt) /\ t # r
  BY <1>t, <1>g DEF Tree, Points
<1>f. t \in PPN /\ t \notin FreeOf(al) /\ r \in Tabs(rt)
  BY <1>u, <1>r, TabsApart
<1>l. ~is_leaf(m[t][b])
  <2>1. Has0(m, r, a, b) => m[t][b].flags = {"V"}
    BY <1>g, <1>t DEF Tree, Points
  <2> QED BY <2>1, <1>t, <1>g DEF Has0, is_leaf
<1>h. Has0(m, r, a, b) <=> is_valid(m[t][b])
  BY <1>t, <1>g DEF Has0
<1>c. /\ is_valid(m[t][b]) => d = WalkRec(al, m, rt, m[t][b].ppn)
      /\ ~is_valid(m[t][b]) => \/ Failed(d, al, m, rt)
                               \/ \E out, p, a2 : Linked(W, out, d, al, m, rt, t, b, p, a2)
  BY <1>f, <1>g, <1>l, <1>r, <1>t, DescendCases
<1>1. CASE Has0(m, r, a, b)
  <2>1. d = WalkRec(al, m, rt, T0At(m, r, a, b))
    BY <1>1, <1>c, <1>h, <1>t DEF T0At
  <2>2. Moved(W, d, al, m, rt, al, m, rt, T0At(m, r, a, b))
    BY <2>1 DEF Moved, SameLook, Grown
  <2> QED BY <1>1, <2>2, <1>r
<1>2. CASE ~Has0(m, r, a, b) /\ Failed(d, al, m, rt)
  BY <1>2, <1>r
<1>3. ASSUME ~Has0(m, r, a, b), NEW out, NEW p, NEW a2, Linked(W, out, d, al, m, rt, t, b, p, a2)
      PROVE  \E al2, m2, rt2 : /\ Moved(W, d, al, m, rt, al2, m2, rt2, T0At(m2, r, a, b))
                               /\ Has0(m2, r, a, b)
  <2>p. PICK rt2 : rt2 = AddPage(rt, p)
    OBVIOUS
  <2>1. /\ out \in Memory(W)
        /\ d = WalkRec(a2, out, rt2, p)
        /\ out[p] = ZeroPage
        /\ out[t][b] = [ppn |-> p, flags |-> {"V"}]
        /\ \A j \in Index : j # b => out[t][j] = m[t][j]
    BY <1>3, <2>p DEF Linked, Ptr
  <2>2. /\ Grown(al, m, rt, a2, out, rt2)
        /\ AllocOk(a2) /\ RootOk(rt2, a2) /\ rt2.ppn = r
        /\ p \notin Tabs(rt)
        /\ Tabs(rt2) \ {r} = (Tabs(rt) \ {r}) \cup {p}
        /\ KernelMem(out) /\ out[F] = m[F]
        /\ \A q \in Tabs(rt) : q # t => out[q] = m[q]
    <3>1. rt2.ppn = rt.ppn
      BY <1>3, <1>u, <2>p, LinkedGrown
    <3> QED BY <3>1, <1>3, <1>u, <1>r, <2>p, LinkedGrown
  <2>3. out[r] = m[r]
    BY <2>2, <1>u, <1>f
  <2>4. PICK T : T = Tabs(rt) \ {r}
    OBVIOUS
  <2>5. p \notin T /\ Tree(m, r, T) /\ \A q \in T : q # t => out[q] = m[q]
    BY <2>2, <2>4, <1>g
  <2>6. /\ Tree(out, r, T \cup {p}) /\ Has0(out, r, a, b) /\ T0At(out, r, a, b) = p
        /\ \A i \in UserIndex, j \in Index, k \in Index : Look(out, r, i, j, k) = Look(m, r, i, j, k)
    BY <1>3, <1>g, <1>t, <2>1, <2>3, <2>5, AddTable0
  <2>7. \A i \in KernelIndex : out[r][i] = out[F][i]
    BY <2>3, <2>2, <1>r DEF Good
  <2>8. Good(W, a2, out, rt2)
    BY <2>1, <2>2, <2>4, <2>6, <2>7 DEF Good
  <2>9. Moved(W, d, al, m, rt, a2, out, rt2, T0At(out, r, a, b))
    BY <2>1, <2>2, <2>6, <2>8, <1>r DEF Moved, SameLook
  <2> QED BY <2>6, <2>9
<1>4. CASE ~Has0(m, r, a, b)
  BY <1>2, <1>3, <1>4, <1>c, <1>h, <1>r
<1> QED BY <1>1, <1>4
-----------------------------------------------------------------------------

\* Only level-0 tables of user space differ.
LeafOnly(W, m, out, r) ==
    /\ out \in Memory(W)
    /\ \A p \in PPN :
          (\A i \in UserIndex, j \in Index : Has0(m, r, i, j) => T0At(m, r, i, j) # p)
              => out[p] = m[p]

\* Then the tree and the kernel's tables are the same.
LEMMA LeafOnlyGood ==
    ASSUME NEW W, NEW al, NEW m, NEW rt, Good(W, al, m, rt), NEW r, r = rt.ppn,
           NEW out, LeafOnly(W, m, out, r)
    PROVE  /\ Good(W, al, out, rt) /\ Grown(al, m, rt, al, out, rt)
           /\ \A i \in UserIndex : Has1(out, r, i) = Has1(m, r, i) /\ T1At(out, r, i) = T1At(m, r, i)
           /\ \A i \in UserIndex, j \in Index : Has0(out, r, i, j) = Has0(m, r, i, j)
           /\ \A i \in UserIndex, j \in Index :
                 Has0(m, r, i, j) => T0At(out, r, i, j) = T0At(m, r, i, j)
<1>g. m \in Memory(W) /\ Tree(m, r, Tabs(rt) \ {r})
  BY DEF Good
<1>f. r \in PPN /\ F \in PPN /\ F + 1 \in PPN /\ F + 2 \in PPN /\ Tabs(rt) \subseteq PPN
      /\ F \notin Tabs(rt) /\ F + 1 \notin Tabs(rt) /\ F + 2 \notin Tabs(rt)
  BY TabsApart
<1>1. \A i \in UserIndex, j \in Index : Has0(m, r, i, j) => T0At(m, r, i, j) \in Tabs(rt) \ {r}
  BY <1>g DEF Tree, Points
<1>2. \A p \in PPN : p \notin Tabs(rt) \ {r} => out[p] = m[p]
  BY <1>1 DEF LeafOnly
<1>3. out[r] = m[r] /\ out[F] = m[F] /\ out[F + 1] = m[F + 1] /\ out[F + 2] = m[F + 2]
  BY <1>2, <1>f
<1>4. ASSUME NEW i \in UserIndex, Has1(m, r, i) PROVE out[T1At(m, r, i)] = m[T1At(m, r, i)]
  <2>1. T1At(m, r, i) \in PPN
    BY <1>4, <1>g, <1>f DEF Tree, Points
  <2>2. \A a \in UserIndex, b \in Index : Has0(m, r, a, b) => T0At(m, r, a, b) # T1At(m, r, i)
    BY <1>4, <1>g DEF Tree, Unshared
  <2> QED BY <2>1, <2>2 DEF LeafOnly
<1>5. /\ \A i \in UserIndex : Has1(out, r, i) = Has1(m, r, i) /\ T1At(out, r, i) = T1At(m, r, i)
      /\ \A i \in UserIndex, j \in Index : Has0(out, r, i, j) = Has0(m, r, i, j)
      /\ \A i \in UserIndex, j \in Index :
            Has0(m, r, i, j) => T0At(out, r, i, j) = T0At(m, r, i, j)
      /\ Tree(out, r, Tabs(rt) \ {r})
  BY <1>3, <1>4, <1>g, SameTree
<1>6. KernelMem(out)
  BY <1>3 DEF Good, KernelMem
<1>7. \A i \in KernelIndex : out[r][i] = out[F][i]
  BY <1>3 DEF Good
<1>8. Good(W, al, out, rt)
  BY <1>g, <1>5, <1>6, <1>7 DEF Good, LeafOnly
<1>9. Grown(al, m, rt, al, out, rt)
  BY <1>2 DEF Grown
<1> QED BY <1>5, <1>8, <1>9

\* The map from pages to entries has changed at one page only, which now has e.
Entered(m2, m, r, i, j, k, e) ==
    \A a \in UserIndex, b \in Index, c \in Index :
       Look(m2, r, a, b, c) = IF a = i /\ b = j /\ c = k THEN {e} ELSE Look(m, r, a, b, c)

\* A mapping is entered in a level-0 table.
LEMMA LeafWrite ==
    ASSUME NEW W, NEW al, NEW m, NEW rt, Good(W, al, m, rt), NEW r, r = rt.ppn,
           NEW a \in UserIndex, NEW b \in Index, NEW c \in Index,
           Has0(m, r, a, b), NEW e \in W, is_valid(e),
           NEW out, out = Write(m, T0At(m, r, a, b), c, e)
    PROVE  /\ Good(W, al, out, rt) /\ Grown(al, m, rt, al, out, rt)
           /\ Entered(out, m, r, a, b, c, e)
<1>g. m \in Memory(W) /\ Tree(m, r, Tabs(rt) \ {r}) /\ Tabs(rt) \subseteq PPN
  BY TabsApart DEF Good
<1>t. PICK t : t = T0At(m, r, a, b)
  OBVIOUS
<1>1. t \in PPN
  BY <1>t, <1>g DEF Tree, Points
<1>2. /\ out \in Memory(W) /\ out[t][c] = e
      /\ \A k \in Index : k # c => out[t][k] = m[t][k]
      /\ \A p \in PPN : p # t => out[p] = m[p]
  BY <1>1, <1>g, <1>t, EntryWrite
<1>3. LeafOnly(W, m, out, r)
  BY <1>2, <1>t DEF LeafOnly
<1>4. /\ Good(W, al, out, rt) /\ Grown(al, m, rt, al, out, rt)
      /\ \A i \in UserIndex, j \in Index : Has0(out, r, i, j) = Has0(m, r, i, j)
      /\ \A i \in UserIndex, j \in Index :
            Has0(m, r, i, j) => T0At(out, r, i, j) = T0At(m, r, i, j)
  BY <1>3, LeafOnlyGood
<1>5. ASSUME NEW i \in UserIndex, NEW j \in Index, NEW k \in Index
      PROVE  Look(out, r, i, j, k) = IF i = a /\ j = b /\ k = c THEN {e} ELSE Look(m, r, i, j, k)
  <2>1. CASE ~Has0(m, r, i, j)
    BY <2>1, <1>4 DEF Look
  <2>2. CASE i = a /\ j = b
    <3>1. Has0(out, r, i, j) /\ T0At(out, r, i, j) = t
      BY <2>2, <1>4, <1>t
    <3>2. k = c => Look(out, r, i, j, k) = {e}
      BY <3>1, <1>2 DEF Look
    <3>3. k # c => Look(out, r, i, j, k) = Look(m, r, i, j, k)
      BY <3>1, <2>2, <1>2, <1>t DEF Look
    <3> QED BY <2>2, <3>2, <3>3
  <2>3. CASE Has0(m, r, i, j) /\ ~(i = a /\ j = b)
    <3>1. T0At(m, r, i, j) # t
      BY <2>3, <1>g, <1>t DEF Tree, Unshared
    <3>2. T0At(m, r, i, j) \in PPN
      BY <2>3, <1>g DEF Tree, Points
    <3>3. out[T0At(m, r, i, j)] = m[T0At(m, r, i, j)]
      BY <3>1, <3>2, <1>2
    <3>4. Has0(out, r, i, j) /\ T0At(out, r, i, j) = T0At(m, r, i, j)
      BY <2>3, <1>4
    <3> QED BY <2>3, <3>3, <3>4 DEF Look
  <2> QED BY <2>1, <2>2, <2>3
<1> QED BY <1>4, <1>5 DEF Entered

\* map_create, whatever it returns: the tree is good again, and the map from
\* pages to entries has changed only if it returned Ok, at its page only.
Mapped(W, r, al, m, rt, al2, m2, rt2, i, j, k, e) ==
    /\ Good(W, al2, m2, rt2) /\ Grown(al, m, rt, al2, m2, rt2)
    /\ r.phys = PhysRec(al2, m2) /\ r.root = rt2
    /\ \/ r.res = "InvalidPteFlags" /\ ~is_valid_flags(e.flags) /\ SameLook(m, m2, rt.ppn)
       \/ r.res = "DoubleMapping" /\ Look(m, rt.ppn, i, j, k) # {} /\ SameLook(m, m2, rt.ppn)
       \/ r.res = "AcquirePageFailed" /\ Look(m, rt.ppn, i, j, k) = {} /\ SameLook(m, m2, rt.ppn)
       \/ /\ r.res = "Ok" /\ is_valid_flags(e.flags) /\ Look(m, rt.ppn, i, j, k) = {}
          /\ Entered(m2, m, rt.ppn, i, j, k, e)

\* Every call of map_create on a page of user space.
LEMMA MapCreateResult ==
    ASSUME NEW W, PTE \subseteq W, NEW al, NEW m, NEW rt, Good(W, al, m, rt), NEW v \in UserVpns,
           NEW ppn, NEW flags, NEW e \in PTE, e = [ppn |-> ppn, flags |-> flags],
           NEW r, r = map_create(PhysRec(al, m), rt, v, ppn, flags)
    PROVE  \E al2, m2, rt2 :
              Mapped(W, r, al, m, rt, al2, m2, rt2,
                     parse_vpn(v)[2], parse_vpn(v)[1], parse_vpn(v)[0], e)
<1>i. PICK idx : idx = parse_vpn(v)
  OBVIOUS
<1>o. PICK o : o = rt.ppn
  OBVIOUS
<1>0. idx[2] \in UserIndex /\ idx[1] \in Index /\ idx[0] \in Index
  <2>1. Points(m, o, Tabs(rt) \ {o})
    BY <1>o DEF Good, Tree
  <2> QED BY <2>1, <1>i, TranslateLooks
<1>1. PICK a \in UserIndex, b \in Index, c \in Index : a = idx[2] /\ b = idx[1] /\ c = idx[0]
  BY <1>0
<1> SUFFICES \E al2, m2, rt2 : Mapped(W, r, al, m, rt, al2, m2, rt2, a, b, c, e)
  BY <1>i, <1>1
<1>w. PICK w1, w2 : w1 = Descend(WalkRec(al, m, rt, o), a) /\ w2 = Descend(w1, b)
  OBVIOUS
<1>d. r = IF ~is_valid_flags(e.flags) THEN Result(PhysRec(al, m), rt, "InvalidPteFlags")
          ELSE IF w2.res # "Ok" THEN Result(w2.phys, w2.root, w2.res)
          ELSE IF is_valid(w2.phys.mem[w2.table][c])
          THEN Result(w2.phys, w2.root, "DoubleMapping")
          ELSE Result([w2.phys EXCEPT !.mem[w2.table][c] = e], w2.root, "Ok")
  <2>2. StartWalk(PhysRec(al, m), rt) = WalkRec(al, m, rt, o)
    BY <1>o, Zenon DEF StartWalk, WalkRec
  <2>3. e.flags = flags
    OBVIOUS
  <2> QED BY <2>2, <2>3, <1>i, <1>1, <1>w DEF map_create
<1>r. \A ph, rr, rs : Result(ph, rr, rs).phys = ph /\ Result(ph, rr, rs).root = rr
                      /\ Result(ph, rr, rs).res = rs
  BY DEF Result
<1>2. CASE ~is_valid_flags(e.flags)
  <2>1. r.phys = PhysRec(al, m) /\ r.root = rt /\ r.res = "InvalidPteFlags"
    BY <1>2, <1>d, <1>r
  <2>2. Mapped(W, r, al, m, rt, al, m, rt, a, b, c, e)
    BY <1>2, <2>1 DEF Mapped, SameLook, Grown
  <2> QED BY <2>2
<1>3. CASE is_valid_flags(e.flags) /\ Failed(w1, al, m, rt) /\ ~Has1(m, o, a)
  <2>1. w2 = w1
    BY <1>3, <1>w DEF Failed, Descend
  <2>2. r.phys = PhysRec(al, m) /\ r.root = rt /\ r.res = "AcquirePageFailed"
    <3>1. w2.res = "AcquirePageFailed" /\ w2.phys = PhysRec(al, m) /\ w2.root = rt
      BY <1>3, <2>1 DEF Failed
    <3>2. r = Result(w2.phys, w2.root, w2.res)
      BY <1>3, <1>d, <3>1
    <3> QED BY <3>1, <3>2, <1>r
  <2>3. Look(m, o, a, b, c) = {}
    BY <1>3 DEF Look, Has0
  <2>4. Mapped(W, r, al, m, rt, al, m, rt, a, b, c, e)
    BY <2>2, <2>3, <1>o DEF Mapped, SameLook, Grown
  <2> QED BY <2>4
<1>4. ASSUME is_valid_flags(e.flags),
             NEW al1, NEW m1, NEW rt1, Moved(W, w1, al, m, rt, al1, m1, rt1, T1At(m1, o, a)),
             Has1(m1, o, a)
      PROVE  \E al2, m2, rt2 : Mapped(W, r, al, m, rt, al2, m2, rt2, a, b, c, e)
  <2>1. Good(W, al1, m1, rt1) /\ SameLook(m, m1, o) /\ w1 = WalkRec(al1, m1, rt1, T1At(m1, o, a))
        /\ Grown(al, m, rt, al1, m1, rt1) /\ rt1.ppn = o
    BY <1>4, <1>o DEF Moved, Grown
  <2>2. \/ \E al2, m2, rt2 : Moved(W, w2, al1, m1, rt1, al2, m2, rt2, T0At(m2, o, a, b))
                             /\ Has0(m2, o, a, b)
        \/ Failed(w2, al1, m1, rt1) /\ ~Has0(m1, o, a, b)
    BY <2>1, <1>4, <1>w, DescendTable
  <2>3. CASE Failed(w2, al1, m1, rt1) /\ ~Has0(m1, o, a, b)
    <3>1. w2.res = "AcquirePageFailed" /\ w2.phys = PhysRec(al1, m1) /\ w2.root = rt1
      BY <2>3 DEF Failed
    <3>2. r = Result(w2.phys, w2.root, w2.res)
      BY <1>4, <1>d, <3>1
    <3>3. r.phys = PhysRec(al1, m1) /\ r.root = rt1 /\ r.res = "AcquirePageFailed"
      BY <3>1, <3>2, <1>r
    <3>4. Look(m, o, a, b, c) = {}
      <4>1. Look(m1, o, a, b, c) = {}
        BY <2>3 DEF Look
      <4> QED BY <4>1, <2>1 DEF SameLook
    <3>5. Mapped(W, r, al, m, rt, al1, m1, rt1, a, b, c, e)
      BY <2>1, <3>3, <3>4, <1>o DEF Mapped
    <3> QED BY <3>5
  <2>4. ASSUME NEW al2, NEW m2, NEW rt2,
               Moved(W, w2, al1, m1, rt1, al2, m2, rt2, T0At(m2, o, a, b)), Has0(m2, o, a, b)
        PROVE  \E al3, m3, rt3 : Mapped(W, r, al, m, rt, al3, m3, rt3, a, b, c, e)
    <3>1. Good(W, al2, m2, rt2) /\ SameLook(m1, m2, o) /\ w2 = WalkRec(al2, m2, rt2, T0At(m2, o, a, b))
          /\ Grown(al1, m1, rt1, al2, m2, rt2) /\ rt2.ppn = o
      BY <2>4, <2>1 DEF Moved, Grown
    <3>2. SameLook(m, m2, o)
      BY <2>1, <3>1 DEF SameLook
    <3>g. Grown(al, m, rt, al2, m2, rt2)
      BY <2>1, <3>1, GrownTrans
    <3>t. PICK t : t = T0At(m2, o, a, b)
      OBVIOUS
    <3>3. w2.phys = PhysRec(al2, m2) /\ w2.root = rt2 /\ w2.res = "Ok" /\ w2.table = t
          /\ w2.phys.mem = m2
      BY <3>1, <3>t DEF WalkRec, PhysRec
    <3>4. CASE is_valid(m2[t][c])
      <4>1. r = Result(w2.phys, w2.root, "DoubleMapping")
        BY <3>3, <3>4, <1>4, <1>d
      <4>2. r.phys = PhysRec(al2, m2) /\ r.root = rt2 /\ r.res = "DoubleMapping"
        BY <4>1, <3>3, <1>r
      <4>3. Look(m2, o, a, b, c) # {}
        BY <2>4, <3>4, <3>t DEF Look
      <4>5. Look(m, o, a, b, c) # {}
        BY <4>3, <3>2 DEF SameLook
      <4>6. Mapped(W, r, al, m, rt, al2, m2, rt2, a, b, c, e)
        BY <3>1, <3>2, <3>g, <4>2, <4>5, <1>o DEF Mapped
      <4> QED BY <4>6
    <3>5. CASE ~is_valid(m2[t][c])
      <4>n. PICK out : out = Write(m2, t, c, e)
        OBVIOUS
      <4>1. r = Result([w2.phys EXCEPT !.mem[w2.table][c] = e], w2.root, "Ok")
        BY <3>3, <3>5, <1>4, <1>d
      <4>2. [w2.phys EXCEPT !.mem[w2.table][c] = e] = PhysRec(al2, out)
        <5>1. [PhysRec(al2, m2) EXCEPT !.mem[t][c] = e] = PhysRec(al2, out)
          BY <4>n DEF PhysRec, Write
        <5> QED BY <5>1, <3>3
      <4>3. r.phys = PhysRec(al2, out) /\ r.root = rt2 /\ r.res = "Ok"
        BY <4>1, <4>2, <3>3, <1>r
      <4>4. is_valid(e) /\ e \in W
        BY <1>4 DEF is_valid_flags, is_valid
      <4>5. Good(W, al2, out, rt2) /\ Grown(al2, m2, rt2, al2, out, rt2) /\ Entered(out, m2, o, a, b, c, e)
        BY <4>4, <4>n, <3>1, <3>t, <2>4, LeafWrite
      <4>6. Look(m, o, a, b, c) = {}
        <5>1. Look(m2, o, a, b, c) = {}
          BY <3>5, <3>t DEF Look
        <5> QED BY <5>1, <3>2 DEF SameLook
      <4>8. Grown(al, m, rt, al2, out, rt2)
        BY <3>g, <4>5, GrownTrans
      <4>9. Entered(out, m, o, a, b, c, e)
        BY <3>2, <4>5 DEF SameLook, Entered
      <4>7. Mapped(W, r, al, m, rt, al2, out, rt2, a, b, c, e)
        BY <1>4, <4>3, <4>5, <4>6, <4>8, <4>9, <1>o DEF Mapped
      <4> QED BY <4>7
    <3> QED BY <3>4, <3>5
  <2> QED BY <2>2, <2>3, <2>4
<1>5. \/ \E al1, m1, rt1 : Moved(W, w1, al, m, rt, al1, m1, rt1, T1At(m1, o, a)) /\ Has1(m1, o, a)
      \/ Failed(w1, al, m, rt) /\ ~Has1(m, o, a)
  BY <1>w, <1>o, DescendRoot
<1> QED BY <1>2, <1>3, <1>4, <1>5
-----------------------------------------------------------------------------
(* unmap.                                                                  *)

\* Where a turn of the loops starts, a page is behind it or before it.
LEMMA PosOrder ==
    ASSUME NEW a \in Int, NEW b \in Index, NEW c \in Index,
           NEW i \in Int, NEW l \in 0 .. PTES_PER_TABLE
    PROVE  /\ VpnOf(a, b, c) \in Int /\ VpnOf(i, l, 0) \in Int
           /\ VpnOf(a, b, c) < VpnOf(i, l, 0) <=> (a < i \/ (a = i /\ b < l))
           /\ VpnOf(i, PTES_PER_TABLE, 0) = VpnOf(i + 1, 0, 0)
<1>n. PTES_PER_TABLE \in Nat /\ 2 <= PTES_PER_TABLE /\ ROOT_SPAN \in Nat
      /\ ROOT_SPAN = PTES_PER_TABLE * PTES_PER_TABLE
  BY Shape
<1>t. b \in Int /\ c \in Int /\ 0 <= c /\ b < PTES_PER_TABLE /\ 0 <= b /\ 0 \in Index
  BY <1>n DEF Index
<1>1. VpnOf(i, PTES_PER_TABLE, 0) = VpnOf(i + 1, 0, 0)
  <2>1. (i + 1) * ROOT_SPAN = i * ROOT_SPAN + ROOT_SPAN /\ i * ROOT_SPAN \in Int
    BY <1>n
  <2>2. 0 * PTES_PER_TABLE = 0
    BY <1>n
  <2> QED BY <2>1, <2>2, <1>n DEF VpnOf
<1>2. ASSUME NEW x \in Int, NEW y \in Index
      PROVE  VpnOf(a, b, c) < VpnOf(x, y, 0) <=> (a < x \/ (a = x /\ b < y))
  <2>t. y \in Int
    BY <1>n DEF Index
  <2>1. VpnOf(a, b, c) \in Int /\ VpnOf(x, y, 0) \in Int
    BY <1>t, VpnOrder
  <2>2. a < x => VpnOf(a, b, c) < VpnOf(x, y, 0)
    BY <1>t, VpnOrder
  <2>3. a = x /\ b < y => VpnOf(a, b, c) < VpnOf(x, y, 0)
    BY <1>t, VpnOrder
  <2>4. x < a => VpnOf(x, y, 0) < VpnOf(a, b, c)
    BY <1>t, VpnOrder
  <2>5. x = a /\ y < b => VpnOf(x, y, 0) < VpnOf(a, b, c)
    BY <1>t, VpnOrder
  <2>6. x = a /\ y = b => (VpnOf(a, b, c) < VpnOf(x, y, 0) <=> c < 0)
    BY <1>t, VpnOrder
  <2>7. CASE a < x
    BY <2>2, <2>7
  <2>8. CASE a = x /\ b < y
    BY <2>3, <2>8
  <2>9. CASE x < a
    BY <2>1, <2>4, <2>9
  <2>10. CASE x = a /\ y < b
    BY <2>1, <2>5, <2>10, <2>t, <1>t
  <2>11. CASE x = a /\ y = b
    BY <2>6, <2>11, <1>t
  <2>12. a < x \/ x < a \/ (a = x /\ (b < y \/ y < b \/ b = y))
    BY <1>t, <2>t
  <2> QED BY <2>7, <2>8, <2>9, <2>10, <2>11, <2>12
<1>3. CASE l \in Index
  <2>1. VpnOf(a, b, c) \in Int /\ VpnOf(i, l, 0) \in Int
    BY <1>3, <1>t, VpnOrder
  <2> QED BY <1>1, <1>2, <1>3, <2>1
<1>4. CASE l \notin Index
  <2>1. l = PTES_PER_TABLE
    BY <1>4, <1>n DEF Index
  <2>2. i + 1 \in Int
    OBVIOUS
  <2>3. VpnOf(a, b, c) \in Int /\ VpnOf(i + 1, 0, 0) \in Int
    BY <1>t, <2>2, VpnOrder
  <2>4. VpnOf(a, b, c) < VpnOf(i + 1, 0, 0) <=> (a < i + 1 \/ (a = i + 1 /\ b < 0))
    BY <1>2, <1>t, <2>2
  <2>5. (a < i + 1 \/ (a = i + 1 /\ b < 0)) <=> (a < i \/ (a = i /\ b < l))
    BY <1>t, <2>1
  <2> QED BY <1>1, <2>1, <2>3, <2>4, <2>5
<1> QED BY <1>3, <1>4

\* The pages of user space from s on and below e and pos are unmapped, and
\* nothing else has changed since M.
Wiped(W, o, m, M, s, e, pos) ==
    /\ LeafOnly(W, M, m, o)
    /\ \A i \in UserIndex, j \in Index, k \in Index : Has0(M, o, i, j) =>
          m[T0At(M, o, i, j)][k] =
             IF s <= VpnOf(i, j, k) /\ VpnOf(i, j, k) < e /\ VpnOf(i, j, k) < pos
             THEN Pte0 ELSE M[T0At(M, o, i, j)][k]

\* The loops move past pages that have no table or lie outside the range.
LEMMA WipedMore ==
    ASSUME NEW W, NEW o, NEW m, NEW M, NEW s, NEW e, NEW pos, NEW pos2, Wiped(W, o, m, M, s, e, pos),
           \A i \in UserIndex, j \in Index, k \in Index :
              Has0(M, o, i, j) /\ s <= VpnOf(i, j, k) /\ VpnOf(i, j, k) < e =>
                 (VpnOf(i, j, k) < pos <=> VpnOf(i, j, k) < pos2)
    PROVE  Wiped(W, o, m, M, s, e, pos2)
BY DEF Wiped

\* A state of unmap's loops and what they know: where they started, and where
\* they are.
LoopOk(W, o, u, M, s, e) == u.res = "Ok" /\ Wiped(W, o, u.mem, M, s, e, e)
LoopGo(W, o, u, M, s, e, pos) == u.res = "Go" /\ Wiped(W, o, u.mem, M, s, e, pos)

\* The range a call of unmap is given, with the indices of its first page.
UnmapRange(s, e, s2, s1, s0) ==
    /\ s \in Int /\ e \in Int /\ s < e /\ e <= USER_END_VPN
    /\ s2 \in UserIndex /\ s1 \in Index /\ s0 \in Index
    /\ s = VpnOf(s2, s1, s0)

\* The slots at which the loops below entry i of the root start.
Start1(i, s2, s1) == IF i = s2 THEN s1 ELSE 0
Start0(i, s2, s0) == IF i = s2 THEN s0 ELSE 0

\* What holds before turn l of the loop over the level-1 table of entry i.
Inner(W, o, l, u, M, s, e, i, s2, s1, s0) ==
    \/ LoopOk(W, o, u, M, s, e)
    \/ /\ LoopGo(W, o, u, M, s, e, VpnOf(i, l, 0))
       /\ u.vpn[2] = s2 /\ u.vpn[1] = Start1(i, s2, s1)
       /\ u.vpn[0] = IF l <= Start1(i, s2, s1) THEN Start0(i, s2, s0) ELSE 0

\* The pages of table (i, l), at or behind the start, that the innermost loop
\* visits are those from s on.
LEMMA FromStart ==
    ASSUME NEW s, NEW e, NEW s2, NEW s1, NEW s0, UnmapRange(s, e, s2, s1, s0),
           NEW i \in UserIndex, s2 <= i, NEW l \in Index, Start1(i, s2, s1) <= l,
           NEW k \in Index, NEW first,
           first = IF l <= Start1(i, s2, s1) THEN Start0(i, s2, s0) ELSE 0
    PROVE  first <= k <=> s <= VpnOf(i, l, k)
<1>t. i \in Int /\ s2 \in Int /\ s1 \in Int /\ s0 \in Int /\ l \in Int /\ k \in Int
      /\ 0 <= k /\ 0 <= l /\ s1 \in Index /\ s0 \in Index
  BY Shape DEF UserIndex, Index, UnmapRange
<1>s. s = VpnOf(s2, s1, s0) /\ s \in Int /\ VpnOf(i, l, k) \in Int
  <2>1. VpnOf(i, l, k) \in Int
    BY <1>t, VpnOrder
  <2> QED BY <2>1 DEF UnmapRange
<1>1. CASE s2 < i
  <2>1. VpnOf(s2, s1, s0) < VpnOf(i, l, k)
    BY <1>1, <1>t, VpnOrder
  <2>2. first = 0
    BY <1>1, <1>t DEF Start1, Start0
  <2> QED BY <2>1, <2>2, <1>s, <1>t
<1>2. CASE s2 = i /\ s1 < l
  <2>1. VpnOf(s2, s1, s0) < VpnOf(i, l, k)
    BY <1>2, <1>t, VpnOrder
  <2>2. first = 0
    BY <1>2, <1>t DEF Start1
  <2> QED BY <2>1, <2>2, <1>s, <1>t
<1>o. VpnOf(i, l, k) < VpnOf(i, l, s0) <=> k < s0
  <2>1. i * ROOT_SPAN \in Int /\ l * PTES_PER_TABLE \in Int
    BY <1>t, Shape
  <2> QED BY <2>1, <1>t DEF VpnOf
<1>3. CASE s2 = i /\ s1 = l
  <2>1. VpnOf(i, l, k) < VpnOf(s2, s1, s0) <=> k < s0
    BY <1>3, <1>o
  <2>2. first = s0
    BY <1>3, <1>t DEF Start1, Start0
  <2> QED BY <2>1, <2>2, <1>s, <1>t
<1>4. s2 < i \/ (s2 = i /\ (s1 < l \/ s1 = l))
  BY <1>t DEF Start1
<1> QED BY <1>1, <1>2, <1>3, <1>4

\* The innermost loop clears what the range holds of its table.
LEMMA WipeTable ==
    ASSUME NEW W, PTE \subseteq W, NEW al, NEW M, NEW rt, Good(W, al, M, rt),
           NEW o, o = rt.ppn, NEW s, NEW e, NEW s2, NEW s1, NEW s0,
           UnmapRange(s, e, s2, s1, s0),
           NEW i \in UserIndex, s2 <= i, NEW l \in Index, Has0(M, o, i, l),
           Start1(i, s2, s1) <= l,
           NEW u \in LoopStates(W), LoopGo(W, o, u, M, s, e, VpnOf(i, l, 0)),
           u.vpn[0] = IF l <= Start1(i, s2, s1) THEN Start0(i, s2, s0) ELSE 0,
           NEW w, w = UnmapTable0(u, T0At(M, o, i, l), VpnOf(i, l, 0), e)
    PROVE  /\ LoopOk(W, o, w, M, s, e) \/ LoopGo(W, o, w, M, s, e, VpnOf(i, l + 1, 0))
           /\ w.vpn = [u.vpn EXCEPT ![0] = 0]
<1>n. PTES_PER_TABLE \in Nat /\ 2 <= PTES_PER_TABLE /\ l \in Int /\ i \in Int
      /\ l \in 0 .. PTES_PER_TABLE /\ l + 1 \in 0 .. PTES_PER_TABLE /\ 0 \in Index /\ e \in Int /\ s \in Int
      /\ PTES_PER_TABLE - 1 \in Index
  BY Shape DEF Index, UserIndex, UnmapRange
<1>t. PICK t : t = T0At(M, o, i, l)
  OBVIOUS
<1>p. PICK p \in Int : p = VpnOf(i, l, 0)
  BY <1>n, VpnOrder
<1>u. u.mem \in Memory(W) /\ LeafOnly(W, M, u.mem, o) /\ u.res = "Go"
  BY DEF LoopStates, LoopGo, Wiped
<1>1. t \in PPN
  <2>1. t \in Tabs(rt) \ {o}
    BY <1>t DEF Good, Tree, Points
  <2> QED BY <2>1, TabsApart
<1>2. \A k \in Index : p + k = VpnOf(i, l, k)
  <2>1. i * ROOT_SPAN \in Int /\ l * PTES_PER_TABLE \in Int
    BY <1>n, Shape
  <2>2. \A k \in Index : k \in Int
    BY <1>n DEF Index
  <2> QED BY <2>1, <2>2, <1>p DEF VpnOf
<1>3. PICK out : out = [k \in Index |-> IF u.vpn[0] <= k /\ p + k < e THEN Pte0 ELSE u.mem[t][k]]
  OBVIOUS
<1>4. w.mem = [u.mem EXCEPT ![t] = out] /\ w.vpn = [u.vpn EXCEPT ![0] = 0]
      /\ w.res = IF e <= p + PTES_PER_TABLE - 1 THEN "Ok" ELSE "Go"
  BY <1>3, <1>p, <1>t DEF UnmapTable0
<1>5. out \in [Index -> W]
  <2>1. u.mem[t] \in [Index -> W]
    BY <1>u, <1>1 DEF Memory
  <2> QED BY <2>1, <1>3, Pte0Type
<1>6. w.mem \in Memory(W) /\ w.mem[t] = out /\ \A q \in PPN : q # t => w.mem[q] = u.mem[q]
  BY <1>1, <1>4, <1>5, <1>u DEF Memory
<1>7. LeafOnly(W, M, w.mem, o)
  BY <1>6, <1>u, <1>t DEF LeafOnly
<1>8. ASSUME NEW k \in Index
      PROVE  w.mem[t][k] = IF s <= VpnOf(i, l, k) /\ VpnOf(i, l, k) < e THEN Pte0 ELSE M[t][k]
  <2>1. u.mem[t][k] = M[t][k]
    <3>0. i \in Int /\ l \in Index /\ l \in 0 .. PTES_PER_TABLE
      BY <1>n DEF Index
    <3>2. VpnOf(i, l, k) < VpnOf(i, l, 0) <=> (i < i \/ (i = i /\ l < l))
      BY <3>0, PosOrder
    <3>1. ~(VpnOf(i, l, k) < VpnOf(i, l, 0))
      BY <3>0, <3>2
    <3> QED BY <3>1, <1>t DEF LoopGo, Wiped
  <2>2. u.vpn[0] <= k <=> s <= VpnOf(i, l, k)
    BY FromStart
  <2>3. w.mem[t][k] = IF u.vpn[0] <= k /\ p + k < e THEN Pte0 ELSE u.mem[t][k]
    BY <1>3, <1>6
  <2> QED BY <2>1, <2>2, <2>3, <1>2
<1>9. ASSUME NEW a \in UserIndex, NEW b \in Index, NEW k \in Index, Has0(M, o, a, b)
      PROVE  w.mem[T0At(M, o, a, b)][k] =
                IF s <= VpnOf(a, b, k) /\ VpnOf(a, b, k) < e /\ VpnOf(a, b, k) < VpnOf(i, l + 1, 0)
                THEN Pte0 ELSE M[T0At(M, o, a, b)][k]
  <2>t. a \in Int /\ b \in Int
    BY <1>n, Shape DEF UserIndex, Index
  <2>1. VpnOf(a, b, k) < VpnOf(i, l + 1, 0) <=> (a < i \/ (a = i /\ b < l + 1))
    <3>1. PICK z \in 0 .. PTES_PER_TABLE : z = l + 1
      BY <1>n
    <3>2. a \in Int /\ i \in Int
      BY <1>n, <2>t
    <3>3. VpnOf(a, b, k) < VpnOf(i, z, 0) <=> (a < i \/ (a = i /\ b < z))
      BY <3>2, PosOrder
    <3> QED BY <3>1, <3>3
  <2>2. VpnOf(a, b, k) < VpnOf(i, l, 0) <=> (a < i \/ (a = i /\ b < l))
    <3>1. a \in Int /\ i \in Int /\ l \in 0 .. PTES_PER_TABLE
      BY <1>n, <2>t
    <3> QED BY <3>1, PosOrder
  <2>3. CASE a = i /\ b = l
    BY <2>3, <2>1, <1>8, <1>t, <1>n
  <2>4. CASE ~(a = i /\ b = l)
    <3>1. T0At(M, o, a, b) # t
      BY <2>4, <1>9, <1>t DEF Good, Tree, Unshared
    <3>2. T0At(M, o, a, b) \in PPN
      <4>1. T0At(M, o, a, b) \in Tabs(rt) \ {o}
        BY <1>9 DEF Good, Tree, Points
      <4> QED BY <4>1, TabsApart
    <3>3. w.mem[T0At(M, o, a, b)] = u.mem[T0At(M, o, a, b)]
      BY <3>1, <3>2, <1>6
    <3>4. VpnOf(a, b, k) < VpnOf(i, l, 0) <=> VpnOf(a, b, k) < VpnOf(i, l + 1, 0)
      BY <2>1, <2>2, <2>4, <2>t, <1>n
    <3> QED BY <3>3, <3>4, <1>9 DEF LoopGo, Wiped
  <2> QED BY <2>3, <2>4
<1>10. Wiped(W, o, w.mem, M, s, e, VpnOf(i, l + 1, 0))
  BY <1>7, <1>9 DEF Wiped
<1>11. CASE e <= p + PTES_PER_TABLE - 1
  <2>1. VpnOf(i, l, PTES_PER_TABLE - 1) = p + (PTES_PER_TABLE - 1)
    BY <1>2, <1>n
  <2>z. PICK z \in 0 .. PTES_PER_TABLE : z = l + 1
    BY <1>n
  <2>c. PICK c \in Index : c = PTES_PER_TABLE - 1
    BY <1>n DEF Index
  <2>i. i \in Int /\ l \in Index /\ l < z
    BY <1>n, <2>z DEF Index
  <2>o. VpnOf(i, z, 0) \in Int /\ (VpnOf(i, l, c) < VpnOf(i, z, 0) <=> (i < i \/ (i = i /\ l < z)))
    BY <2>i, PosOrder
  <2>2. VpnOf(i, l, PTES_PER_TABLE - 1) < VpnOf(i, l + 1, 0)
    BY <2>i, <2>o, <2>z, <2>c
  <2>3. e < VpnOf(i, l + 1, 0) /\ VpnOf(i, l + 1, 0) \in Int
    <3>1. VpnOf(i, l + 1, 0) \in Int
      BY <2>o, <2>z
    <3> QED BY <3>1, <2>1, <2>2, <1>11, <1>n
  <2>4. \A a \in UserIndex, b \in Index, k \in Index :
           VpnOf(a, b, k) < e => VpnOf(a, b, k) < VpnOf(i, l + 1, 0)
    <3> TAKE a \in UserIndex, b \in Index, k \in Index
    <3>1. VpnOf(a, b, k) \in Int
      BY VpnOrder, a \in Int DEF UserIndex
    <3> QED BY <3>1, <2>3, <1>n
  <2>5. Wiped(W, o, w.mem, M, s, e, e)
    BY <1>10, <2>4, WipedMore
  <2> QED BY <2>5, <1>4, <1>11 DEF LoopOk
<1>12. CASE ~(e <= p + PTES_PER_TABLE - 1)
  BY <1>4, <1>10, <1>12 DEF LoopGo
<1> QED BY <1>4, <1>11, <1>12

\* A turn of the loop over a level-1 table of user space.
LEMMA InnerStep ==
    ASSUME NEW W, PTE \subseteq W, NEW al, NEW M, NEW rt, Good(W, al, M, rt),
           NEW o, o = rt.ppn, NEW s, NEW e, NEW s2, NEW s1, NEW s0,
           UnmapRange(s, e, s2, s1, s0),
           NEW i \in UserIndex, s2 <= i, Has1(M, o, i), NEW l \in Index,
           NEW u \in LoopStates(W), Inner(W, o, l, u, M, s, e, i, s2, s1, s0),
           NEW w, w = UnmapStep1(u, T1At(M, o, i), i, l, e)
    PROVE  Inner(W, o, l + 1, w, M, s, e, i, s2, s1, s0)
<1>n. PTES_PER_TABLE \in Nat /\ 2 <= PTES_PER_TABLE /\ l \in Int /\ i \in Int
      /\ l \in 0 .. PTES_PER_TABLE /\ l + 1 \in 0 .. PTES_PER_TABLE /\ e \in Int /\ s \in Int
      /\ s1 \in Int /\ s2 \in Int /\ s1 \in Index /\ s0 \in Index
  BY Shape DEF Index, UserIndex, UnmapRange
<1>1. CASE LoopOk(W, o, u, M, s, e)
  <2>1. w = u
    BY <1>1 DEF LoopOk, UnmapStep1
  <2> QED BY <1>1, <2>1 DEF Inner
<1>2. CASE ~LoopOk(W, o, u, M, s, e)
  <2>b. PICK b1 \in Int : b1 = Start1(i, s2, s1)
    BY <1>n DEF Start1
  <2>g. /\ LoopGo(W, o, u, M, s, e, VpnOf(i, l, 0)) /\ u.vpn[2] = s2 /\ u.vpn[1] = b1
        /\ u.vpn[0] = IF l <= b1 THEN Start0(i, s2, s0) ELSE 0
    BY <1>2, <2>b DEF Inner
  <2>u. u.mem \in Memory(W) /\ u.vpn \in [0 .. 2 -> Int] /\ u.res = "Go" /\ LeafOnly(W, M, u.mem, o)
    BY <2>g DEF LoopStates, LoopGo, Wiped
  <2>t. PICK t : t = T1At(M, o, i)
    OBVIOUS
  <2>m. u.mem[t] = M[t]
    <3>1. t \in Tabs(rt) \ {o}
      BY <2>t DEF Good, Tree, Points
    <3>2. t \in PPN
      BY <3>1, TabsApart
    <3>3. \A a \in UserIndex, b \in Index : Has0(M, o, a, b) => T0At(M, o, a, b) # t
      BY <2>t DEF Good, Tree, Unshared
    <3> QED BY <3>2, <3>3, <2>u DEF LeafOnly
  <2>h. (Has0(M, o, i, l) <=> is_valid(u.mem[t][l])) /\ (Has0(M, o, i, l) => u.mem[t][l].ppn = T0At(M, o, i, l))
    BY <2>m, <2>t DEF Has0, T0At
  <2>f. Has0(M, o, i, l) => ~is_leaf(u.mem[t][l])
    <3>1. Has0(M, o, i, l) => u.mem[t][l].flags = {"V"}
      BY <2>m, <2>t DEF Good, Tree, Points
    <3> QED BY <3>1 DEF is_leaf
  <2>o. \A a \in UserIndex, b \in Index, k \in Index :
           /\ VpnOf(a, b, k) < VpnOf(i, l + 1, 0) <=> (a < i \/ (a = i /\ b < l + 1))
           /\ VpnOf(a, b, k) < VpnOf(i, l, 0) <=> (a < i \/ (a = i /\ b < l))
    <3> TAKE a \in UserIndex, b \in Index, k \in Index
    <3>1. a \in Int /\ i \in Int /\ l \in 0 .. PTES_PER_TABLE /\ l + 1 \in 0 .. PTES_PER_TABLE
      BY <1>n DEF UserIndex
    <3>2. VpnOf(a, b, k) < VpnOf(i, l + 1, 0) <=> (a < i \/ (a = i /\ b < l + 1))
      BY <3>1, PosOrder
    <3>3. VpnOf(a, b, k) < VpnOf(i, l, 0) <=> (a < i \/ (a = i /\ b < l))
      BY <3>1, PosOrder
    <3> QED BY <3>2, <3>3
  <2>p. \A a \in UserIndex, b \in Index, k \in Index : ~(a = i /\ b = l) =>
           (VpnOf(a, b, k) < VpnOf(i, l, 0) <=> VpnOf(a, b, k) < VpnOf(i, l + 1, 0))
    <3> TAKE a \in UserIndex, b \in Index, k \in Index
    <3>1. b \in Int
      BY <1>n DEF Index
    <3> QED BY <3>1, <2>o, <1>n
  <2>1. CASE l < b1
    <3>1. w = u
      BY <2>1, <2>g DEF UnmapStep1
    <3>2. i = s2 /\ l < s1 /\ b1 = s1
      BY <2>1, <2>b, <1>n DEF Start1, Index
    <3>3. \A k \in Index : ~(s <= VpnOf(i, l, k))
      <4> TAKE k \in Index
      <4>1. VpnOf(i, l, k) < VpnOf(s2, s1, s0) /\ VpnOf(i, l, k) \in Int /\ VpnOf(s2, s1, s0) \in Int
        <5>1. i = s2 /\ l < s1 => VpnOf(i, l, k) < VpnOf(s2, s1, s0)
          BY <1>n, VpnOrder
        <5>2. VpnOf(i, l, k) \in Int /\ VpnOf(s2, s1, s0) \in Int
          BY <1>n, VpnOrder
        <5> QED BY <5>1, <5>2, <3>2
      <4>2. s = VpnOf(s2, s1, s0)
        BY DEF UnmapRange
      <4> QED BY <4>1, <4>2
    <3>4. Wiped(W, o, u.mem, M, s, e, VpnOf(i, l, 0))
      BY <2>g DEF LoopGo
    <3>5. \A a \in UserIndex, b \in Index, k \in Index :
             Has0(M, o, a, b) /\ s <= VpnOf(a, b, k) /\ VpnOf(a, b, k) < e =>
                (VpnOf(a, b, k) < VpnOf(i, l, 0) <=> VpnOf(a, b, k) < VpnOf(i, l + 1, 0))
      BY <2>p, <3>3
    <3>6. Wiped(W, o, u.mem, M, s, e, VpnOf(i, l + 1, 0))
      BY <3>4, <3>5, WipedMore
    <3>7. l + 1 <= b1 /\ l <= b1
      BY <2>1, <1>n
    <3> QED BY <3>1, <3>6, <3>7, <2>g, <2>b, <2>u DEF Inner, LoopGo
  <2>2. CASE ~(l < b1) /\ ~Has0(M, o, i, l)
    <3>1. w = [u EXCEPT !.vpn[0] = 0]
      BY <2>2, <2>g, <2>h, <2>t, <2>u DEF UnmapStep1
    <3>2. w.mem = u.mem /\ w.res = "Go" /\ w.vpn = [u.vpn EXCEPT ![0] = 0]
      BY <3>1, <2>u DEF LoopStates
    <3>3. w.vpn[2] = s2 /\ w.vpn[1] = b1 /\ w.vpn[0] = 0
      BY <3>2, <2>g, <2>u
    <3>4. Wiped(W, o, u.mem, M, s, e, VpnOf(i, l, 0))
      BY <2>g DEF LoopGo
    <3>5. \A a \in UserIndex, b \in Index, k \in Index :
             Has0(M, o, a, b) /\ s <= VpnOf(a, b, k) /\ VpnOf(a, b, k) < e =>
                (VpnOf(a, b, k) < VpnOf(i, l, 0) <=> VpnOf(a, b, k) < VpnOf(i, l + 1, 0))
      BY <2>p, <2>2
    <3>6. Wiped(W, o, u.mem, M, s, e, VpnOf(i, l + 1, 0))
      BY <3>4, <3>5, WipedMore
    <3>7. ~(l + 1 <= b1)
      BY <2>2, <1>n
    <3> QED BY <3>2, <3>3, <3>6, <3>7, <2>b DEF Inner, LoopGo
  <2>3. CASE ~(l < b1) /\ Has0(M, o, i, l)
    <3>1. w = UnmapTable0(u, T0At(M, o, i, l), VpnOf(i, l, 0), e)
      BY <2>3, <2>g, <2>h, <2>f, <2>t, <2>u DEF UnmapStep1
    <3>2. Start1(i, s2, s1) <= l
      BY <2>3, <2>b, <1>n
    <3>3. /\ LoopOk(W, o, w, M, s, e) \/ LoopGo(W, o, w, M, s, e, VpnOf(i, l + 1, 0))
          /\ w.vpn = [u.vpn EXCEPT ![0] = 0]
      <4>1. u.vpn[0] = IF l <= Start1(i, s2, s1) THEN Start0(i, s2, s0) ELSE 0
        BY <2>g, <2>b
      <4>2. LoopGo(W, o, u, M, s, e, VpnOf(i, l, 0)) /\ Has0(M, o, i, l)
        BY <2>g, <2>3
      <4> QED BY <3>1, <3>2, <4>1, <4>2, WipeTable
    <3>4. w.vpn[2] = s2 /\ w.vpn[1] = b1 /\ w.vpn[0] = 0
      BY <3>3, <2>g, <2>u
    <3>5. ~(l + 1 <= b1)
      BY <2>3, <1>n
    <3> QED BY <3>3, <3>4, <3>5, <2>b DEF Inner
  <2> QED BY <2>1, <2>2, <2>3
<1> QED BY <1>1, <1>2

\* What holds before turn x of the outermost loop: below the kernel half it may
\* have met no table yet, behind the first entry of the kernel half it is done.
Outer(W, o, x, u, M, s, e, s2, s1, s0) ==
    \/ LoopOk(W, o, u, M, s, e)
    \/ /\ LoopGo(W, o, u, M, s, e, VpnOf(x, 0, 0))
       /\ x <= KERNEL_ROOT
       /\ u.vpn[2] = s2
       /\ u.vpn[1] = IF x <= s2 THEN s1 ELSE 0
       /\ u.vpn[0] = IF x <= s2 THEN s0 ELSE 0

\* The loop over a level-1 table of user space.
LEMMA InnerLoop ==
    ASSUME NEW W, PTE \subseteq W, NEW al, NEW M, NEW rt, Good(W, al, M, rt),
           NEW o, o = rt.ppn, NEW s, NEW e, NEW s2, NEW s1, NEW s0,
           UnmapRange(s, e, s2, s1, s0),
           NEW i \in UserIndex, s2 <= i, Has1(M, o, i),
           NEW u \in LoopStates(W), Outer(W, o, i, u, M, s, e, s2, s1, s0), u.res = "Go",
           NEW w, w = UnmapTable1(u, T1At(M, o, i), i, e)
    PROVE  Outer(W, o, i + 1, w, M, s, e, s2, s1, s0)
<1>n. PTES_PER_TABLE \in Nat /\ 2 <= PTES_PER_TABLE /\ i \in Int /\ e \in Int /\ s1 \in Int /\ s2 \in Int
      /\ 0 <= s1 /\ s1 < PTES_PER_TABLE /\ i < KERNEL_ROOT /\ KERNEL_ROOT \in Int /\ 0 \in Index
  BY Shape DEF Index, UserIndex, UnmapRange
<1>t. PICK t : t = T1At(M, o, i)
  OBVIOUS
<1>f. PICK f : Run1(W, f, u, t, i, e)
  BY <1>n, Pte0Type, Loop1
<1> DEFINE A == {l \in 0 .. PTES_PER_TABLE : Inner(W, o, l, f[l], M, s, e, i, s2, s1, s0)}
<1>1. 0 \in A
  <2>1. f[0] = u
    BY <1>f DEF Run1
  <2>2. LoopGo(W, o, u, M, s, e, VpnOf(i, 0, 0)) /\ u.vpn[2] = s2
        /\ u.vpn[1] = (IF i <= s2 THEN s1 ELSE 0) /\ u.vpn[0] = (IF i <= s2 THEN s0 ELSE 0)
    BY DEF Outer, LoopOk
  <2>3. i <= s2 <=> i = s2
    BY <1>n
  <2>4. 0 <= Start1(i, s2, s1)
    BY <1>n DEF Start1
  <2>5. Inner(W, o, 0, u, M, s, e, i, s2, s1, s0)
    BY <2>2, <2>3, <2>4 DEF Inner, Start1, Start0
  <2>6. 0 \in 0 .. PTES_PER_TABLE
    BY <1>n
  <2> QED BY <2>1, <2>5, <2>6
<1>2. ASSUME NEW l \in 0 .. PTES_PER_TABLE - 1, l \in A PROVE l + 1 \in A
  <2>1. f[l] \in LoopStates(W) /\ f[l + 1] = UnmapStep1(f[l], t, i, l, e)
    BY <1>f, <1>n DEF Run1
  <2>2. Inner(W, o, l, f[l], M, s, e, i, s2, s1, s0) /\ l \in Index
    BY <1>2 DEF Index
  <2>3. Inner(W, o, l + 1, f[l + 1], M, s, e, i, s2, s1, s0)
    BY <2>1, <2>2, <1>t, InnerStep
  <2>4. l + 1 \in 0 .. PTES_PER_TABLE
    BY <1>n
  <2> QED BY <2>3, <2>4
<1> HIDE DEF A
<1>3. \A l \in 0 .. PTES_PER_TABLE : l \in A
  BY <1>1, <1>2, <1>n, LoopInduction
<1>g. PICK g : g = f[PTES_PER_TABLE]
  OBVIOUS
<1>4. Inner(W, o, PTES_PER_TABLE, g, M, s, e, i, s2, s1, s0) /\ g \in LoopStates(W)
  <2>1. PTES_PER_TABLE \in 0 .. PTES_PER_TABLE
    BY <1>n
  <2> QED BY <2>1, <1>3, <1>g, <1>f DEF A, Run1
<1>5. w = [g EXCEPT !.vpn[1] = 0]
  BY <1>f, <1>g, <1>t DEF Run1
<1>6. g.vpn \in [0 .. 2 -> Int]
  BY <1>4 DEF LoopStates
<1>7. w.mem = g.mem /\ w.res = g.res /\ w.vpn = [g.vpn EXCEPT ![1] = 0]
  BY <1>4, <1>5 DEF LoopStates
<1>8. w.vpn[2] = g.vpn[2] /\ w.vpn[1] = 0 /\ w.vpn[0] = g.vpn[0]
  BY <1>6, <1>7
<1>9. VpnOf(i, PTES_PER_TABLE, 0) = VpnOf(i + 1, 0, 0)
  <2>1. i \in Int /\ 0 \in 0 .. PTES_PER_TABLE /\ 0 \in Index
    BY <1>n DEF Index
  <2> QED BY <2>1, PosOrder
<1>10. ~(PTES_PER_TABLE <= Start1(i, s2, s1)) /\ ~(i + 1 <= s2) /\ i + 1 <= KERNEL_ROOT
  BY <1>n DEF Start1
<1>11. CASE LoopOk(W, o, g, M, s, e)
  BY <1>11, <1>7 DEF LoopOk, Outer
<1>12. CASE ~LoopOk(W, o, g, M, s, e)
  <2>1. LoopGo(W, o, g, M, s, e, VpnOf(i + 1, 0, 0)) /\ g.vpn[2] = s2 /\ g.vpn[0] = 0
    BY <1>12, <1>4, <1>9, <1>10 DEF Inner
  <2>2. LoopGo(W, o, w, M, s, e, VpnOf(i + 1, 0, 0))
    BY <2>1, <1>7 DEF LoopGo
  <2> QED BY <2>1, <2>2, <1>8, <1>10 DEF Outer
<1> QED BY <1>11, <1>12

\* A turn of the outermost loop in user space.
LEMMA OuterStep ==
    ASSUME NEW W, PTE \subseteq W, NEW al, NEW M, NEW rt, Good(W, al, M, rt),
           NEW o, o = rt.ppn, NEW s, NEW e, NEW s2, NEW s1, NEW s0,
           UnmapRange(s, e, s2, s1, s0), NEW x \in UserIndex,
           NEW u \in LoopStates(W), Outer(W, o, x, u, M, s, e, s2, s1, s0),
           NEW w, w = UnmapStep2(u, o, x, e)
    PROVE  Outer(W, o, x + 1, w, M, s, e, s2, s1, s0)
<1>n. PTES_PER_TABLE \in Nat /\ 2 <= PTES_PER_TABLE /\ x \in Int /\ e \in Int /\ s1 \in Int /\ s2 \in Int
      /\ x < KERNEL_ROOT /\ KERNEL_ROOT \in Int /\ 0 \in Index /\ s \in Int /\ s1 \in Index
      /\ s0 \in Index /\ 0 \in 0 .. PTES_PER_TABLE
  BY Shape DEF Index, UserIndex, UnmapRange
<1>1. CASE LoopOk(W, o, u, M, s, e)
  <2>1. w = u
    BY <1>1 DEF LoopOk, UnmapStep2
  <2> QED BY <1>1, <2>1 DEF Outer
<1>2. CASE ~LoopOk(W, o, u, M, s, e)
  <2>g. /\ LoopGo(W, o, u, M, s, e, VpnOf(x, 0, 0)) /\ u.vpn[2] = s2
        /\ u.vpn[1] = IF x <= s2 THEN s1 ELSE 0
        /\ u.vpn[0] = IF x <= s2 THEN s0 ELSE 0
    BY <1>2 DEF Outer
  <2>u. u.mem \in Memory(W) /\ u.vpn \in [0 .. 2 -> Int] /\ u.res = "Go" /\ LeafOnly(W, M, u.mem, o)
    BY <2>g DEF LoopStates, LoopGo, Wiped
  <2>m. Has1(u.mem, o, x) = Has1(M, o, x) /\ T1At(u.mem, o, x) = T1At(M, o, x)
    BY <2>u, LeafOnlyGood
  <2>h. (Has1(M, o, x) <=> is_valid(u.mem[o][x])) /\ u.mem[o][x].ppn = T1At(M, o, x)
    BY <2>m DEF Has1, T1At
  <2>f. Has1(M, o, x) => ~is_leaf(u.mem[o][x])
    <3>1. Good(W, al, u.mem, rt)
      BY <2>u, LeafOnlyGood
    <3>2. Has1(u.mem, o, x) => u.mem[o][x].flags = {"V"}
      BY <3>1 DEF Good, Tree, Points
    <3> QED BY <3>2, <2>m DEF is_leaf
  <2>o. \A a \in UserIndex, b \in Index, k \in Index : a # x =>
           (VpnOf(a, b, k) < VpnOf(x, 0, 0) <=> VpnOf(a, b, k) < VpnOf(x + 1, 0, 0))
    <3> TAKE a \in UserIndex, b \in Index, k \in Index
    <3>1. a \in Int /\ x + 1 \in Int /\ b \in Int /\ 0 <= b
      BY <1>n DEF UserIndex, Index
    <3>z. a \in Int /\ x \in Int /\ 0 \in 0 .. PTES_PER_TABLE
      BY <3>1, <1>n
    <3>2. VpnOf(a, b, k) < VpnOf(x, 0, 0) <=> (a < x \/ (a = x /\ b < 0))
      BY <3>z, PosOrder
    <3>y. PICK y \in Int : y = x + 1
      BY <1>n
    <3>4. VpnOf(a, b, k) < VpnOf(y, 0, 0) <=> (a < y \/ (a = y /\ b < 0))
      BY <3>z, PosOrder
    <3>3. VpnOf(a, b, k) < VpnOf(x + 1, 0, 0) <=> (a < x + 1 \/ (a = x + 1 /\ b < 0))
      BY <3>4, <3>y
    <3> QED BY <3>1, <3>2, <3>3, <1>n
  <2>w. Wiped(W, o, u.mem, M, s, e, VpnOf(x, 0, 0))
    BY <2>g DEF LoopGo
  <2>1. CASE x < s2
    <3>1. w = u
      BY <2>1, <2>g DEF UnmapStep2
    <3>2. \A b \in Index, k \in Index : ~(s <= VpnOf(x, b, k))
      <4> TAKE b \in Index, k \in Index
      <4>1. VpnOf(x, b, k) < VpnOf(s2, s1, s0) /\ VpnOf(x, b, k) \in Int
        BY <2>1, <1>n, VpnOrder
      <4>2. s = VpnOf(s2, s1, s0)
        BY DEF UnmapRange
      <4> QED BY <4>1, <4>2, <1>n
    <3>3. \A a \in UserIndex, b \in Index, k \in Index :
             Has0(M, o, a, b) /\ s <= VpnOf(a, b, k) /\ VpnOf(a, b, k) < e =>
                (VpnOf(a, b, k) < VpnOf(x, 0, 0) <=> VpnOf(a, b, k) < VpnOf(x + 1, 0, 0))
      BY <2>o, <3>2
    <3>4. Wiped(W, o, u.mem, M, s, e, VpnOf(x + 1, 0, 0))
      BY <2>w, <3>3, WipedMore
    <3>5. x + 1 <= s2 /\ x <= s2 /\ x + 1 <= KERNEL_ROOT
      BY <2>1, <1>n
    <3> QED BY <3>1, <3>4, <3>5, <2>g, <2>u DEF Outer, LoopGo
  <2>2. CASE ~(x < s2) /\ ~Has1(M, o, x)
    <3>1. w = [u EXCEPT !.vpn[1] = 0, !.vpn[0] = 0]
      BY <2>2, <2>g, <2>h, <2>u DEF UnmapStep2
    <3>2. PICK v : v = [u EXCEPT !.vpn[1] = 0]
      OBVIOUS
    <3>3. v \in LoopStates(W) /\ v.mem = u.mem /\ v.res = u.res /\ v.vpn = [u.vpn EXCEPT ![1] = 0]
      BY <3>2 DEF LoopStates
    <3>4. w = [v EXCEPT !.vpn[0] = 0]
      BY <3>1, <3>2
    <3>5. w.mem = v.mem /\ w.res = v.res /\ w.vpn = [v.vpn EXCEPT ![0] = 0]
      BY <3>3, <3>4 DEF LoopStates
    <3>6. w.vpn[2] = s2 /\ w.vpn[1] = 0 /\ w.vpn[0] = 0
      BY <3>3, <3>5, <2>g, <2>u
    <3>7. \A a \in UserIndex, b \in Index, k \in Index :
             Has0(M, o, a, b) /\ s <= VpnOf(a, b, k) /\ VpnOf(a, b, k) < e =>
                (VpnOf(a, b, k) < VpnOf(x, 0, 0) <=> VpnOf(a, b, k) < VpnOf(x + 1, 0, 0))
      BY <2>o, <2>2 DEF Has0
    <3>8. Wiped(W, o, u.mem, M, s, e, VpnOf(x + 1, 0, 0))
      BY <2>w, <3>7, WipedMore
    <3>9. ~(x + 1 <= s2) /\ x + 1 <= KERNEL_ROOT
      BY <2>2, <1>n
    <3>10. LoopGo(W, o, w, M, s, e, VpnOf(x + 1, 0, 0))
      BY <3>3, <3>5, <3>8, <2>u DEF LoopGo
    <3> QED BY <3>6, <3>9, <3>10 DEF Outer
  <2>3. CASE ~(x < s2) /\ Has1(M, o, x)
    <3>1. w = UnmapTable1(u, T1At(M, o, x), x, e)
      BY <2>3, <2>g, <2>h, <2>f, <2>u DEF UnmapStep2
    <3>2. s2 <= x
      BY <2>3, <1>n
    <3> QED BY <2>3, <3>1, <3>2, <2>u, InnerLoop
  <2> QED BY <2>1, <2>2, <2>3
<1> QED BY <1>1, <1>2

\* Turn K, the first of the kernel half: its level-1 table has the level-0 table
\* of the devices at slot 0, whose first page is behind every range of user
\* space, so the innermost loop returns there without clearing anything.
LEMMA KernelStep ==
    ASSUME NEW W, PTE \subseteq W, NEW al, NEW M, NEW rt, Good(W, al, M, rt),
           NEW o, o = rt.ppn, NEW s, NEW e, NEW s2, NEW s1, NEW s0,
           UnmapRange(s, e, s2, s1, s0),
           NEW u \in LoopStates(W), Outer(W, o, KERNEL_ROOT, u, M, s, e, s2, s1, s0),
           NEW w, w = UnmapStep2(u, o, KERNEL_ROOT, e)
    PROVE  LoopOk(W, o, w, M, s, e)
<1>k. PICK x : x = KERNEL_ROOT
  OBVIOUS
<1>n. PTES_PER_TABLE \in Nat /\ 2 <= PTES_PER_TABLE /\ x \in Int /\ e \in Int /\ s2 \in Int
      /\ x \in Index /\ x \in KernelIndex /\ 0 \in Index /\ s2 < x /\ 0 \in 0 .. PTES_PER_TABLE
  BY <1>k, Shape DEF Index, UserIndex, KernelIndex, UnmapRange
<1>p. PICK p \in Int : p = VpnOf(x, 0, 0) /\ e < p
  <2>1. VpnOf(x, 0, 0) = x * ROOT_SPAN /\ x * ROOT_SPAN \in Int
    <3>1. x * ROOT_SPAN \in Int /\ 0 * PTES_PER_TABLE = 0
      BY <1>n, Shape
    <3> QED BY <3>1 DEF VpnOf
  <2>2. e <= x * ROOT_SPAN - 1
    BY <1>k DEF UnmapRange, USER_END_VPN
  <2> QED BY <2>1, <2>2, <1>n
<1>1. CASE LoopOk(W, o, u, M, s, e)
  <2>1. w = u
    BY <1>1 DEF LoopOk, UnmapStep2
  <2> QED BY <1>1, <2>1
<1>2. CASE ~LoopOk(W, o, u, M, s, e)
  <2>g. LoopGo(W, o, u, M, s, e, p) /\ u.vpn[2] = s2 /\ u.vpn[1] = 0 /\ u.vpn[0] = 0
    BY <1>2, <1>k, <1>n, <1>p DEF Outer
  <2>u. u.mem \in Memory(W) /\ u.vpn \in [0 .. 2 -> Int] /\ u.res = "Go" /\ LeafOnly(W, M, u.mem, o)
    BY <2>g DEF LoopStates, LoopGo, Wiped
  <2>m. KernelMem(u.mem) /\ u.mem[o][x] = u.mem[F][x]
    <3>1. Good(W, al, u.mem, rt)
      BY <2>u, LeafOnlyGood
    <3> QED BY <3>1, <1>n DEF Good
  <2>1. u.mem[o][x] = Ptr(F + 1) /\ u.mem[F + 1][0] = Ptr(F + 2)
    BY <2>m, <1>k, <1>n DEF KernelMem
  <2>2. \A q : Ptr(q).ppn = q /\ is_valid(Ptr(q)) /\ ~is_leaf(Ptr(q))
    BY DEF Ptr, is_valid, is_leaf
  <2>3. w = UnmapTable1(u, F + 1, x, e)
    <3>1. ~(x < u.vpn[2])
      BY <2>g, <1>n
    <3> QED BY <3>1, <2>1, <2>2, <2>u, <1>k, Zenon DEF UnmapStep2
  <2>t. PICK t : t = F + 1
    OBVIOUS
  <2>f. PICK f : Run1(W, f, u, t, x, e)
    BY <1>n, Pte0Type, Loop1
  <2>4. f[1] = UnmapStep1(u, t, x, 0, e)
    <3>1. 0 \in 0 .. PTES_PER_TABLE - 1 /\ 0 + 1 = 1
      BY <1>n
    <3> QED BY <2>f, <3>1 DEF Run1
  <2>5. f[1] = UnmapTable0(u, F + 2, p, e)
    <3>1. ~(0 < u.vpn[1])
      BY <2>g
    <3>2. is_valid(u.mem[t][0]) /\ ~is_leaf(u.mem[t][0]) /\ u.mem[t][0].ppn = F + 2
      BY <2>1, <2>2, <2>t
    <3>3. UnmapStep1(u, t, x, 0, e) = UnmapTable0(u, u.mem[t][0].ppn, VpnOf(x, 0, 0), e)
      BY <3>1, <3>2, <2>u, Zenon DEF UnmapStep1
    <3> QED BY <3>2, <3>3, <2>4, <1>p
  <2>6. f[1].res = "Ok"
    BY <2>5, <1>p, <1>n DEF UnmapTable0
  <2>7. f[1].mem = u.mem
    <3>1. PICK d : d = F + 2
      OBVIOUS
    <3>2. d \in PPN
      BY <3>1, Layout
    <3>3. PICK out : out = [i \in Index |-> IF u.vpn[0] <= i /\ p + i < e THEN Pte0 ELSE u.mem[d][i]]
      OBVIOUS
    <3>4. f[1].mem = [u.mem EXCEPT ![d] = out]
      BY <2>5, <3>1, <3>3 DEF UnmapTable0
    <3>5. \A i \in Index : ~(p + i < e)
      BY <1>n, <1>p DEF Index
    <3>6. u.mem[d] \in [Index -> W]
      BY <2>u, <3>2 DEF Memory
    <3>7. out = u.mem[d]
      BY <3>3, <3>5, <3>6
    <3> QED BY <3>2, <3>4, <3>7, <2>u DEF Memory
  <2> DEFINE A == {l \in 0 .. PTES_PER_TABLE : l = 0 \/ (f[l].res = "Ok" /\ f[l].mem = u.mem)}
  <2>8. ASSUME NEW l \in 0 .. PTES_PER_TABLE - 1, l \in A PROVE l + 1 \in A
    <3>1. l + 1 \in 0 .. PTES_PER_TABLE
      BY <1>n
    <3>2. CASE l = 0
      BY <3>1, <3>2, <2>6, <2>7
    <3>3. CASE l # 0
      <4>1. f[l].res = "Ok" /\ f[l].mem = u.mem
        BY <2>8, <3>3
      <4>2. f[l + 1] = UnmapStep1(f[l], t, x, l, e)
        BY <2>f DEF Run1
      <4>3. f[l + 1] = f[l]
        BY <4>1, <4>2 DEF UnmapStep1
      <4> QED BY <3>1, <4>1, <4>3
    <3> QED BY <3>2, <3>3
  <2>9. 0 \in A
    BY <1>n
  <2> HIDE DEF A
  <2>10. \A l \in 0 .. PTES_PER_TABLE : l \in A
    BY <2>8, <2>9, <1>n, LoopInduction
  <2>11. PICK h \in LoopStates(W) : h = f[PTES_PER_TABLE] /\ h.res = "Ok" /\ h.mem = u.mem
    <3>1. PTES_PER_TABLE \in 0 .. PTES_PER_TABLE /\ PTES_PER_TABLE # 0
      BY <1>n
    <3>2. f[PTES_PER_TABLE].res = "Ok" /\ f[PTES_PER_TABLE].mem = u.mem
      BY <3>1, <2>10 DEF A
    <3>3. f[PTES_PER_TABLE] \in LoopStates(W)
      BY <3>1, <2>f DEF Run1
    <3> QED BY <3>2, <3>3
  <2>12. w = [h EXCEPT !.vpn[1] = 0]
    BY <2>3, <2>t, <2>f, <2>11 DEF Run1
  <2>13. w.res = "Ok" /\ w.mem = u.mem
    BY <2>11, <2>12 DEF LoopStates
  <2>14. \A i \in UserIndex, j \in Index, k \in Index : VpnOf(i, j, k) < p
    <3> TAKE i \in UserIndex, j \in Index, k \in Index
    <3>1. i \in Int /\ x \in Int /\ 0 \in 0 .. PTES_PER_TABLE
      BY <1>n DEF UserIndex
    <3>2. i < x
      BY <1>k, Shape DEF UserIndex
    <3>3. VpnOf(i, j, k) < VpnOf(x, 0, 0) <=> (i < x \/ (i = x /\ j < 0))
      BY <3>1, PosOrder
    <3> QED BY <3>2, <3>3, <1>p
  <2>15. Wiped(W, o, u.mem, M, s, e, e)
    <3>1. Wiped(W, o, u.mem, M, s, e, p)
      BY <2>g DEF LoopGo
    <3> QED BY <3>1, <2>14, WipedMore
  <2> QED BY <2>13, <2>15 DEF LoopOk
<1> QED BY <1>1, <1>2

\* The map from pages to entries without the pages of a range.
Cleared(m2, M, r, s, e) ==
    \A i \in UserIndex, j \in Index, k \in Index :
       Look(m2, r, i, j, k) = IF s <= VpnOf(i, j, k) /\ VpnOf(i, j, k) < e
                              THEN {} ELSE Look(M, r, i, j, k)

\* What unmap does to the map from pages to entries, and to the memory, for a
\* range of user space.
Unmapped(W, r, al, m2, rt, M, s, e) ==
    /\ Good(W, al, m2, rt) /\ Grown(al, M, rt, al, m2, rt) /\ r.phys = PhysRec(al, m2) /\ r.root = rt /\ r.res = "Ok"
    /\ Cleared(m2, M, rt.ppn, s, e)

\* A memory whose range is cleared translates it to nothing.
LEMMA WipedLook ==
    ASSUME NEW W, PTE \subseteq W, NEW al, NEW M, NEW rt, Good(W, al, M, rt),
           NEW o, o = rt.ppn, NEW m2, NEW s, NEW e, Wiped(W, o, m2, M, s, e, e)
    PROVE  Cleared(m2, M, o, s, e)
<1> SUFFICES ASSUME NEW i \in UserIndex, NEW j \in Index, NEW k \in Index
             PROVE  Look(m2, o, i, j, k) = IF s <= VpnOf(i, j, k) /\ VpnOf(i, j, k) < e
                                           THEN {} ELSE Look(M, o, i, j, k)
  BY DEF Cleared
<1>1. LeafOnly(W, M, m2, o)
  BY DEF Wiped
<1>2. /\ Has0(m2, o, i, j) = Has0(M, o, i, j)
      /\ Has0(M, o, i, j) => T0At(m2, o, i, j) = T0At(M, o, i, j)
  BY <1>1, LeafOnlyGood
<1>3. CASE ~Has0(M, o, i, j)
  BY <1>2, <1>3 DEF Look
<1>4. CASE Has0(M, o, i, j)
  <2>t. PICK t : t = T0At(M, o, i, j)
    OBVIOUS
  <2>1. m2[t][k] = IF s <= VpnOf(i, j, k) /\ VpnOf(i, j, k) < e THEN Pte0 ELSE M[t][k]
    BY <1>4, <2>t DEF Wiped
  <2>2. Look(m2, o, i, j, k) = (IF is_valid(m2[t][k]) THEN {m2[t][k]} ELSE {})
        /\ Look(M, o, i, j, k) = (IF is_valid(M[t][k]) THEN {M[t][k]} ELSE {})
    BY <1>2, <1>4, <2>t DEF Look
  <2> QED BY <2>1, <2>2, Pte0Type
<1> QED BY <1>3, <1>4

\* The loops of unmap on a range that is not empty.
LEMMA UnmapRuns ==
    ASSUME NEW W, PTE \subseteq W, NEW al, NEW M, NEW rt, Good(W, al, M, rt),
           NEW o, o = rt.ppn, NEW s, NEW e, NEW s2, NEW s1, NEW s0,
           UnmapRange(s, e, s2, s1, s0),
           parse_vpn(s) \in [0 .. 2 -> Index],
           parse_vpn(s)[2] = s2, parse_vpn(s)[1] = s1, parse_vpn(s)[0] = s0,
           NEW r, r = unmap(PhysRec(al, M), rt, s, e)
    PROVE  \E m2 : Wiped(W, o, m2, M, s, e, e) /\ r.phys = PhysRec(al, m2) /\ r.root = rt
                   /\ r.res = "Ok"
<1>n. PTES_PER_TABLE \in Nat /\ KERNEL_ROOT \in Nat /\ 1 <= KERNEL_ROOT
      /\ KERNEL_ROOT < PTES_PER_TABLE /\ s \in Int /\ e \in Int /\ s < e /\ s2 \in Int /\ 0 <= s2
  BY Shape DEF UnmapRange, UserIndex
<1>p. PICK ph : ph = PhysRec(al, M) /\ ph.mem = M
  BY DEF PhysRec
<1>m. M \in Memory(W)
  BY DEF Good
<1>u. PICK u \in LoopStates(W) : u = [mem |-> ph.mem, vpn |-> parse_vpn(s), res |-> "Go"]
  <2>1. parse_vpn(s) \in [0 .. 2 -> Int]
    BY <1>n DEF Index
  <2> QED BY <2>1, <1>m, <1>p DEF LoopStates
<1>f. PICK f : Run2(W, f, u, ph, rt, s, e)
  BY <1>n, <1>u, Pte0Type, Loop2
<1> DEFINE A == {x \in 0 .. PTES_PER_TABLE :
                   /\ x <= KERNEL_ROOT => Outer(W, o, x, f[x], M, s, e, s2, s1, s0)
                   /\ KERNEL_ROOT < x => LoopOk(W, o, f[x], M, s, e)}
<1>1. 0 \in A
  <2>1. f[0] = u /\ u.mem = M /\ u.res = "Go" /\ u.vpn = parse_vpn(s)
    BY <1>f, <1>u, <1>p DEF Run2
  <2>2. \A i \in UserIndex, j \in Index, k \in Index : ~(VpnOf(i, j, k) < VpnOf(0, 0, 0))
    <3> TAKE i \in UserIndex, j \in Index, k \in Index
    <3>1. i \in Int /\ 0 \in Int /\ 0 \in 0 .. PTES_PER_TABLE /\ 0 <= i /\ j \in Int /\ 0 <= j
      BY <1>n DEF UserIndex, Index
    <3>2. PICK z \in 0 .. PTES_PER_TABLE : z = 0
      BY <3>1
    <3>4. PICK y \in Int : y = 0
      OBVIOUS
    <3>5. i \in Int
      BY <3>1
    <3>3. VpnOf(i, j, k) < VpnOf(y, z, 0) <=> (i < y \/ (i = y /\ j < z))
      BY <3>5, PosOrder
    <3> QED BY <3>1, <3>2, <3>3, <3>4
  <2>3. Wiped(W, o, M, M, s, e, VpnOf(0, 0, 0))
    BY <2>2, <1>m DEF Wiped, LeafOnly
  <2>4. Outer(W, o, 0, u, M, s, e, s2, s1, s0)
    BY <2>1, <2>3, <1>n DEF Outer, LoopGo
  <2> QED BY <2>1, <2>4, <1>n
<1>2. ASSUME NEW x \in 0 .. PTES_PER_TABLE - 1, x \in A PROVE x + 1 \in A
  <2>x. x \in Int /\ x + 1 \in 0 .. PTES_PER_TABLE
    BY <1>n
  <2>1. f[x] \in LoopStates(W) /\ f[x + 1] = UnmapStep2(f[x], o, x, e)
    BY <1>f, <1>p, <1>n DEF Run2
  <2>2. CASE x < KERNEL_ROOT
    <3>1. x \in UserIndex /\ Outer(W, o, x, f[x], M, s, e, s2, s1, s0)
      BY <1>2, <1>n, <2>2 DEF UserIndex
    <3>2. Outer(W, o, x + 1, f[x + 1], M, s, e, s2, s1, s0)
      BY <2>1, <3>1, OuterStep
    <3>3. ~(KERNEL_ROOT < x + 1)
      BY <2>2, <2>x, <1>n
    <3> QED BY <2>x, <3>2, <3>3
  <2>3. CASE x = KERNEL_ROOT
    <3>1. Outer(W, o, KERNEL_ROOT, f[x], M, s, e, s2, s1, s0)
      BY <1>2, <1>n, <2>3
    <3>2. LoopOk(W, o, f[x + 1], M, s, e)
      BY <2>1, <2>3, <3>1, KernelStep
    <3>3. ~(x + 1 <= KERNEL_ROOT)
      BY <2>3, <2>x, <1>n
    <3> QED BY <2>x, <3>2, <3>3
  <2>4. CASE KERNEL_ROOT < x
    <3>1. LoopOk(W, o, f[x], M, s, e)
      BY <1>2, <2>4
    <3>2. f[x + 1] = f[x]
      BY <2>1, <3>1 DEF LoopOk, UnmapStep2
    <3>3. ~(x + 1 <= KERNEL_ROOT)
      BY <2>4, <2>x, <1>n
    <3> QED BY <2>x, <3>1, <3>2, <3>3
  <2> QED BY <2>2, <2>3, <2>4, <2>x, <1>n
<1> HIDE DEF A
<1>3. \A x \in 0 .. PTES_PER_TABLE : x \in A
  BY <1>1, <1>2, <1>n, LoopInduction
<1>4. PICK h : h = f[PTES_PER_TABLE] /\ LoopOk(W, o, h, M, s, e)
  <2>1. PTES_PER_TABLE \in A
    BY <1>3, <1>n
  <2> QED BY <2>1, <1>n DEF A
<1>5. r = Result([ph EXCEPT !.mem = h.mem], rt, "Ok")
  BY <1>f, <1>p, <1>4 DEF Run2, LoopOk
<1>6. [ph EXCEPT !.mem = h.mem] = PhysRec(al, h.mem)
  BY <1>p DEF PhysRec
<1>7. r.phys = PhysRec(al, h.mem) /\ r.root = rt /\ r.res = "Ok"
  BY <1>5, <1>6, <1>p DEF Result
<1> QED BY <1>4, <1>7 DEF LoopOk

\* unmap on any range of user space: it returns Ok, takes the range out of the
\* map from pages to entries, and leaves the rest, the tree included.
LEMMA UnmapResult ==
    ASSUME NEW W, PTE \subseteq W, NEW al, NEW M, NEW rt, Good(W, al, M, rt),
           NEW o, o = rt.ppn, NEW s \in 0 .. USER_END_VPN, NEW e \in 0 .. USER_END_VPN,
           NEW r, r = unmap(PhysRec(al, M), rt, s, e)
    PROVE  \E m2 : Unmapped(W, r, al, m2, rt, M, s, e)
<1>n. PTES_PER_TABLE \in Nat /\ KERNEL_ROOT \in Nat /\ KERNEL_ROOT <= PTES_PER_TABLE
      /\ ROOT_SPAN \in Nat /\ KERNEL_ROOT * ROOT_SPAN \in Nat
  <2>1. PTES_PER_TABLE \in Nat /\ KERNEL_ROOT \in Nat /\ KERNEL_ROOT <= PTES_PER_TABLE
        /\ ROOT_SPAN \in Nat
    BY Shape
  <2> QED BY <2>1
<1>e. s \in Int /\ e \in Int /\ e <= USER_END_VPN /\ s \in Nat /\ s < KERNEL_ROOT * ROOT_SPAN
  BY <1>n DEF USER_END_VPN
<1>1. CASE e <= s
  <2>1. r = Result(PhysRec(al, M), rt, "Ok")
    BY <1>1 DEF unmap
  <2>2. r.phys = PhysRec(al, M) /\ r.root = rt /\ r.res = "Ok"
    BY <2>1 DEF Result
  <2>3. \A i \in UserIndex, j \in Index, k \in Index : ~(s <= VpnOf(i, j, k) /\ VpnOf(i, j, k) < e)
    <3> TAKE i \in UserIndex, j \in Index, k \in Index
    <3>1. i \in Int
      BY <1>n DEF UserIndex
    <3>2. VpnOf(i, j, k) \in Int
      BY <3>1, VpnOrder
    <3> QED BY <3>2, <1>1, <1>e
  <2>4. Unmapped(W, r, al, M, rt, M, s, e)
    BY <2>2, <2>3 DEF Unmapped, Cleared, Grown
  <2> QED BY <2>4
<1>2. CASE s < e
  <2>1. /\ parse_vpn(s) \in [0 .. 2 -> Index] /\ parse_vpn(s)[2] < KERNEL_ROOT
        /\ s = VpnOf(parse_vpn(s)[2], parse_vpn(s)[1], parse_vpn(s)[0])
    BY <1>e, <1>n, ParseVpn
  <2>2. PICK s2, s1, s0 : s2 = parse_vpn(s)[2] /\ s1 = parse_vpn(s)[1] /\ s0 = parse_vpn(s)[0]
    OBVIOUS
  <2>3. s2 \in UserIndex /\ s1 \in Index /\ s0 \in Index
    BY <2>1, <2>2, <1>n DEF UserIndex, Index
  <2>4. UnmapRange(s, e, s2, s1, s0)
    BY <1>2, <1>e, <2>1, <2>2, <2>3 DEF UnmapRange
  <2>5. PICK m2 : Wiped(W, o, m2, M, s, e, e) /\ r.phys = PhysRec(al, m2) /\ r.root = rt
                  /\ r.res = "Ok"
    BY <2>1, <2>2, <2>4, UnmapRuns
  <2>6. Good(W, al, m2, rt) /\ Grown(al, M, rt, al, m2, rt)
    BY <2>5, LeafOnlyGood DEF Wiped
  <2>7. Cleared(m2, M, o, s, e)
    BY <2>5, WipedLook
  <2> QED BY <2>5, <2>6, <2>7 DEF Unmapped
<1> QED BY <1>1, <1>2, <1>e
-----------------------------------------------------------------------------
(* init_kernel_satp, and the copy of its root.                             *)

\* The allocator at boot, when it has not recycled anything.
Fresh(n) == [next_unused_ppn |-> n, max_ppn |-> compute_max_ppn, recycled_ppn |-> << >>]

LEMMA BootPage ==
    ASSUME NEW n \in Nat, n # compute_max_ppn, n <= compute_max_ppn, NEW m
    PROVE  alloc_zeroed_page(PhysRec(Fresh(n), m))
              = [page |-> n, phys |-> PhysRec(Fresh(n + 1), [m EXCEPT ![n] = ZeroPage])]
<1>f. compute_max_ppn \in Nat /\ n # NONE
  BY Layout, MemAssumption
<1>1. alloc_page(Fresh(n)) = [page |-> n, allocator |-> Fresh(n + 1)]
  BY <1>f DEF alloc_page, Fresh
<1>2. alloc_page(Fresh(n)).page = n /\ alloc_page(Fresh(n)).allocator = Fresh(n + 1)
  BY <1>1
<1>3. PhysRec(Fresh(n), m).alloc = Fresh(n) /\ PhysRec(Fresh(n), m).mem = m
  BY DEF PhysRec
<1> QED BY <1>2, <1>3, <1>f, Zenon DEF alloc_zeroed_page, PhysRec

\* A walk of the kernel's own map_create calls, whose root is at F.
BootWalk(n, m, t, q) ==
    [phys |-> PhysRec(Fresh(n), m), root |-> [ppn |-> F, pages |-> q], res |-> "Ok", table |-> t]

\* Table n is new, empty and below slot i of t.
Hung(out, n, m, t, i) ==
    /\ out \in Memory(PTE)
    /\ out[n] = ZeroPage
    /\ out[t][i] = Ptr(n)
    /\ \A j \in Index : j # i => out[t][j] = m[t][j]
    /\ \A p \in PPN : p # t /\ p # n => out[p] = m[p]

\* The walk creates a table.
LEMMA BootNew ==
    ASSUME NEW n \in Nat, F <= n, n < compute_max_ppn, NEW m \in Memory(PTE),
           NEW t \in PPN, t # n, NEW i \in Index, ~is_valid(m[t][i]),
           NEW q, NEW w, w = BootWalk(n, m, t, q), NEW d, d = Descend(w, i)
    PROVE  \E out, q2 : d = BootWalk(n + 1, out, n, q2) /\ Hung(out, n, m, t, i)
<1>f. F \in Nat /\ compute_max_ppn \in Nat /\ n # NONE
  BY Layout, MemAssumption
<1>r. w.phys = PhysRec(Fresh(n), m) /\ w.table = t /\ w.res = "Ok" /\ w.phys.mem = m
      /\ w.root = [ppn |-> F, pages |-> q]
  BY DEF BootWalk, PhysRec
<1>p. n \in PPN
  BY <1>f, Layout
<1>1. PICK m1 : m1 = [m EXCEPT ![n] = ZeroPage]
  OBVIOUS
<1>z. ZeroPage \in [Index -> PTE]
  BY Pte0Type DEF ZeroPage
<1>2. m1 \in Memory(PTE) /\ m1[n] = ZeroPage /\ \A p \in PPN : p # n => m1[p] = m[p]
  BY <1>1, <1>p, <1>z DEF Memory
<1>3. PICK r : r = [page |-> n, phys |-> PhysRec(Fresh(n + 1), m1)]
  OBVIOUS
<1>4. alloc_zeroed_page(w.phys) = r
  <2>1. n # compute_max_ppn /\ n <= compute_max_ppn
    BY <1>f
  <2>2. alloc_zeroed_page(PhysRec(Fresh(n), m))
           = [page |-> n, phys |-> PhysRec(Fresh(n + 1), [m EXCEPT ![n] = ZeroPage])]
    BY <2>1, BootPage
  <2> QED BY <1>r, <2>2, <1>1, <1>3
<1>5. PICK out : out = Write(m1, t, i, Ptr(n))
  OBVIOUS
<1>6. PICK e \in PTE : e = Ptr(n)
  BY DEF Ptr, PTE
<1>7. /\ out \in Memory(PTE) /\ out[t][i] = e
      /\ \A j \in Index : j # i => out[t][j] = m1[t][j]
      /\ \A p \in PPN : p # t => out[p] = m1[p]
  <2>1. m1 \in Memory(PTE) /\ out = Write(m1, t, i, e)
    BY <1>2, <1>5, <1>6
  <2> QED BY <2>1, EntryWrite
<1>8. Hung(out, n, m, t, i)
  BY <1>2, <1>6, <1>7, <1>p DEF Hung
<1>9. TableAt(w, i, r) = PhysRec(Fresh(n + 1), out)
  <2>1. w.table = t /\ r.page = n /\ r.phys = PhysRec(Fresh(n + 1), m1)
    BY <1>3, <1>r
  <2>2. [PhysRec(Fresh(n + 1), m1) EXCEPT !.mem[t][i] = Ptr(n)] = PhysRec(Fresh(n + 1), out)
    BY <1>5 DEF PhysRec, Write
  <2> QED BY <2>1, <2>2 DEF TableAt, Ptr
<1>10. PICK q2 : q2 = Append(q, n)
  OBVIOUS
<1>11. [w.root EXCEPT !.pages = Append(@, r.page)] = [ppn |-> F, pages |-> q2]
  <2>1. PICK rt : rt = [ppn |-> F, pages |-> q]
    OBVIOUS
  <2>2. [rt EXCEPT !.pages = q2] = [ppn |-> F, pages |-> q2] /\ rt.pages = q
    BY <2>1
  <2>3. r.page = n
    BY <1>3
  <2> QED BY <2>1, <2>2, <2>3, <1>r, <1>10
<1>12. NewTable(w, i, r) = BootWalk(n + 1, out, n, q2)
  <2>1. r.page = n
    BY <1>3
  <2> QED BY <1>9, <1>11, <2>1, Zenon DEF NewTable, BootWalk
<1>13. d = NewTable(w, i, r)
  <2>1. ~is_leaf(w.phys.mem[w.table][i]) /\ ~is_valid(w.phys.mem[w.table][i])
    BY <1>r DEF is_leaf
  <2>2. r.page # NONE
    BY <1>3, <1>f
  <2> QED BY <2>1, <2>2, <1>4, <1>r, Zenon DEF Descend
<1> QED BY <1>8, <1>12, <1>13

\* The walk finds a table.
LEMMA BootOld ==
    ASSUME NEW n, NEW m, NEW t, NEW i, NEW p, m[t][i] = Ptr(p),
           NEW q, NEW w, w = BootWalk(n, m, t, q), NEW d, d = Descend(w, i)
    PROVE  d = BootWalk(n, m, p, q)
<1>r. w.table = t /\ w.res = "Ok" /\ w.phys.mem = m
  BY DEF BootWalk, PhysRec
<1>1. is_valid(m[t][i]) /\ ~is_leaf(m[t][i]) /\ m[t][i].ppn = p
  BY DEF Ptr, is_valid, is_leaf
<1>2. d = [w EXCEPT !.table = p]
  BY <1>r, <1>1, Zenon DEF Descend
<1>3. [w EXCEPT !.table = p] = BootWalk(n, m, p, q)
  BY DEF BootWalk
<1> QED BY <1>2, <1>3

\* The kernel's entries, and the walk's starts.
LEMMA BootFacts ==
    /\ [ppn |-> DeviceFrame, flags |-> KernelFlags] \in PTE
    /\ [ppn |-> LargeFrame - (LargeFrame % PTES_PER_TABLE), flags |-> KernelFlags] \in PTE
    /\ is_valid_flags(KernelFlags)
    /\ \A n, m, q : StartWalk(PhysRec(Fresh(n), m), [ppn |-> F, pages |-> q]) = BootWalk(n, m, F, q)
    /\ parse_vpn(DeviceVpn)[2] = KERNEL_ROOT /\ parse_vpn(DeviceVpn)[1] = 0
    /\ parse_vpn(DeviceVpn)[0] = 1
    /\ parse_vpn(LargeVpn)[2] = KERNEL_ROOT /\ parse_vpn(LargeVpn)[1] = 1
    /\ KERNEL_ROOT \in Index /\ 0 \in Index /\ 1 \in Index
<1>n. PTES_PER_TABLE \in Nat /\ 2 <= PTES_PER_TABLE /\ KERNEL_ROOT \in Nat /\ PTES_PER_TABLE # 0
      /\ KERNEL_ROOT < PTES_PER_TABLE /\ PTES_PER_TABLE <= PTES_PER_TABLE
  BY Shape
<1>i. KERNEL_ROOT \in Index /\ 0 \in Index /\ 1 \in Index
  BY <1>n DEF Index
<1>1. [ppn |-> DeviceFrame, flags |-> KernelFlags] \in PTE
  BY KernelHalfAssumption DEF PTE, KernelFlags
<1>2. LargeFrame - (LargeFrame % PTES_PER_TABLE) \in Nat
  <2>1. PICK v \in Nat : v = LargeFrame
    BY KernelHalfAssumption
  <2>2. v \div PTES_PER_TABLE \in Nat /\ v % PTES_PER_TABLE \in Nat
        /\ v = (v \div PTES_PER_TABLE) * PTES_PER_TABLE + (v % PTES_PER_TABLE)
    BY <1>n, DivMod
  <2>3. PICK a \in Nat, b \in Nat : a = v \div PTES_PER_TABLE /\ b = v % PTES_PER_TABLE
    BY <2>2
  <2>4. a * PTES_PER_TABLE \in Nat
    BY <1>n
  <2> QED BY <2>1, <2>2, <2>3, <2>4
<1>3. [ppn |-> LargeFrame - (LargeFrame % PTES_PER_TABLE), flags |-> KernelFlags] \in PTE
  BY <1>2 DEF PTE, KernelFlags
<1>4. is_valid_flags(KernelFlags)
  BY DEF is_valid_flags, KernelFlags
<1>5. ASSUME NEW n, NEW m, NEW q
      PROVE  StartWalk(PhysRec(Fresh(n), m), [ppn |-> F, pages |-> q]) = BootWalk(n, m, F, q)
  BY DEF StartWalk, BootWalk
<1>p. ASSUME NEW j \in Index, NEW c \in Index
      PROVE  /\ parse_vpn(VpnOf(KERNEL_ROOT, j, c))[2] = KERNEL_ROOT
             /\ parse_vpn(VpnOf(KERNEL_ROOT, j, c))[1] = j
             /\ parse_vpn(VpnOf(KERNEL_ROOT, j, c))[0] = c
  <2>1. PICK B \in Nat, i \in Nat : B = PTES_PER_TABLE /\ i = KERNEL_ROOT /\ i < B /\ B <= PTES_PER_TABLE
    BY <1>n
  <2>2. /\ parse_vpn(VpnOf(i, j, c))[2] = i
        /\ parse_vpn(VpnOf(i, j, c))[1] = j
        /\ parse_vpn(VpnOf(i, j, c))[0] = c
    BY <2>1, ParseOf
  <2> QED BY <2>1, <2>2
<1>6. /\ parse_vpn(DeviceVpn)[2] = KERNEL_ROOT /\ parse_vpn(DeviceVpn)[1] = 0
      /\ parse_vpn(DeviceVpn)[0] = 1
  BY <1>i, <1>p DEF DeviceVpn
<1>7. parse_vpn(LargeVpn)[2] = KERNEL_ROOT /\ parse_vpn(LargeVpn)[1] = 1
  BY <1>i, <1>p DEF LargeVpn
<1> QED BY <1>i, <1>1, <1>3, <1>4, <1>5, <1>6, <1>7

\* What init_kernel_satp leaves: three tables, the rest of memory untouched.
BootMem(m) == m \in Memory(PTE) /\ KernelMem(m)

\* new: the kernel's root, an empty page.
LEMMA BootRoot ==
    ASSUME NEW z, z = [p \in PPN |-> ZeroPage],
           NEW r, r = new([mem |-> z, alloc |-> NewAllocator(KernelEndPa)])
    PROVE  /\ r.phys = PhysRec(Fresh(F + 1), z) /\ r.root = [ppn |-> F, pages |-> <<F>>]
           /\ z \in Memory(PTE)
<1>f. F \in Nat /\ F \in PPN /\ compute_max_ppn \in Nat /\ F # compute_max_ppn
      /\ F <= compute_max_ppn /\ F # NONE
  BY Layout, MemAssumption
<1>z. z \in Memory(PTE)
  BY Pte0Type DEF ZeroPage, Memory
<1>1. [mem |-> z, alloc |-> NewAllocator(KernelEndPa)] = PhysRec(Fresh(F), z)
  BY DEF PhysRec, Fresh, NewAllocator, F
<1>2. [z EXCEPT ![F] = ZeroPage] = z
  BY <1>f
<1>3. PICK a : a = [page |-> F, phys |-> PhysRec(Fresh(F + 1), z)]
  OBVIOUS
<1>4. alloc_zeroed_page(PhysRec(Fresh(F), z)) = a
  <2>1. PICK n \in Nat : n = F
    BY <1>f
  <2>2. alloc_zeroed_page(PhysRec(Fresh(n), z))
           = [page |-> n, phys |-> PhysRec(Fresh(n + 1), [z EXCEPT ![n] = ZeroPage])]
    BY <2>1, <1>f, BootPage
  <2> QED BY <2>1, <2>2, <1>2, <1>3
<1>5. a.page = F /\ a.phys = PhysRec(Fresh(F + 1), z)
  BY <1>3
<1>6. r = Result(PhysRec(Fresh(F + 1), z), [ppn |-> F, pages |-> <<F>>], "Ok")
  BY <1>1, <1>4, <1>5, <1>f, Zenon DEF new
<1> QED BY <1>6, <1>z DEF Result

\* The device page, its two tables before it.
DeviceMem(m) ==
    /\ m \in Memory(PTE)
    /\ m[F] = [i \in Index |-> IF i = KERNEL_ROOT THEN Ptr(F + 1) ELSE Pte0]
    /\ m[F + 1] = [i \in Index |-> IF i = 0 THEN Ptr(F + 2) ELSE Pte0]
    /\ m[F + 2] = [i \in Index |-> IF i = 1 THEN [ppn |-> DeviceFrame, flags |-> KernelFlags]
                                   ELSE Pte0]

\* map_create of the device page.
LEMMA BootDevice ==
    ASSUME NEW z, z = [p \in PPN |-> ZeroPage], z \in Memory(PTE), NEW q,
           NEW r, r = map_create(PhysRec(Fresh(F + 1), z), [ppn |-> F, pages |-> q], DeviceVpn,
                                 DeviceFrame, KernelFlags)
    PROVE  \E m, q2 : /\ r.phys = PhysRec(Fresh(F + 3), m) /\ r.root = [ppn |-> F, pages |-> q2]
                      /\ DeviceMem(m)
<1>f. F \in Nat /\ F \in PPN /\ F + 1 \in PPN /\ F + 2 \in PPN /\ compute_max_ppn \in Nat
      /\ F + 3 <= compute_max_ppn
  BY Layout
<1>x. PICK x, f1, f2, f3 : x = KERNEL_ROOT /\ f1 = F + 1 /\ f2 = F + 2 /\ f3 = F + 3
  OBVIOUS
<1>t. /\ f1 \in Nat /\ f2 \in Nat /\ f3 \in Nat /\ F <= f1 /\ F <= f2 /\ f1 < compute_max_ppn
      /\ f2 < compute_max_ppn /\ f1 \in PPN /\ f2 \in PPN /\ F # f1 /\ F # f2 /\ f1 # f2
      /\ f2 = f1 + 1 /\ f3 = f2 + 1
  BY <1>f, <1>x
<1>i. x \in Index /\ 0 \in Index /\ 1 \in Index
  BY <1>x, BootFacts
<1>z. \A p \in PPN : z[p] = ZeroPage
  OBVIOUS
<1>0. \A i \in Index : ZeroPage[i] = Pte0
  BY DEF ZeroPage
<1>w. PICK w0, w1, w2 : w0 = BootWalk(f1, z, F, q) /\ w1 = Descend(w0, x) /\ w2 = Descend(w1, 0)
  OBVIOUS
<1>1. PICK a1, q1 : w1 = BootWalk(f1 + 1, a1, f1, q1) /\ Hung(a1, f1, z, F, x)
  <2>1. ~is_valid(z[F][x])
    BY <1>f, <1>i, <1>z, <1>0, Pte0Type
  <2>2. F \in PPN
    BY <1>f
  <2> QED BY <2>1, <2>2, <1>t, <1>i, <1>w, BootNew
<1>2. /\ a1 \in Memory(PTE) /\ a1[f1] = ZeroPage /\ a1[F][x] = Ptr(f1)
      /\ \A j \in Index : j # x => a1[F][j] = Pte0
      /\ a1[f2] = ZeroPage
  BY <1>1, <1>z, <1>0, <1>t, <1>f DEF Hung
<1>3. PICK a2, q2 : w2 = BootWalk(f2 + 1, a2, f2, q2) /\ Hung(a2, f2, a1, f1, 0)
  <2>1. ~is_valid(a1[f1][0]) /\ a1 \in Memory(PTE)
    BY <1>2, <1>i, <1>0, Pte0Type
  <2>2. w1 = BootWalk(f2, a1, f1, q1)
    BY <1>1, <1>t
  <2> QED BY <2>1, <2>2, <1>t, <1>i, <1>w, BootNew
<1>4. /\ a2 \in Memory(PTE) /\ a2[f2] = ZeroPage /\ a2[f1][0] = Ptr(f2)
      /\ \A j \in Index : j # 0 => a2[f1][j] = Pte0
      /\ a2[F] = a1[F]
  BY <1>3, <1>2, <1>0, <1>t, <1>f DEF Hung
<1>e. PICK e \in PTE : e = [ppn |-> DeviceFrame, flags |-> KernelFlags]
  BY BootFacts
<1>m. PICK m : m = Write(a2, f2, 1, e)
  OBVIOUS
<1>5. /\ m \in Memory(PTE) /\ m[f2][1] = e
      /\ \A j \in Index : j # 1 => m[f2][j] = a2[f2][j]
      /\ \A p \in PPN : p # f2 => m[p] = a2[p]
  <2>1. a2 \in Memory(PTE) /\ f2 \in PPN /\ 1 \in Index
    BY <1>4, <1>t, <1>i
  <2> QED BY <2>1, <1>m, EntryWrite
<1>6. \A j \in Index : j # 1 => m[f2][j] = Pte0
  BY <1>4, <1>5, <1>0
<1>7. m[F] = a1[F] /\ m[f1] = a2[f1]
  BY <1>4, <1>5, <1>t, <1>f
<1>8. m[F] \in [Index -> PTE] /\ m[f1] \in [Index -> PTE] /\ m[f2] \in [Index -> PTE]
  BY <1>5, <1>t, <1>f DEF Memory
<1>9. m[F] = [i \in Index |-> IF i = x THEN Ptr(f1) ELSE Pte0]
  <2>1. \A i \in Index : m[F][i] = IF i = x THEN Ptr(f1) ELSE Pte0
    BY <1>2, <1>7
  <2> QED BY <2>1, <1>8
<1>10. m[f1] = [i \in Index |-> IF i = 0 THEN Ptr(f2) ELSE Pte0]
  <2>1. \A i \in Index : m[f1][i] = IF i = 0 THEN Ptr(f2) ELSE Pte0
    BY <1>4, <1>7
  <2> QED BY <2>1, <1>8
<1>11. m[f2] = [i \in Index |-> IF i = 1 THEN e ELSE Pte0]
  <2>1. \A i \in Index : m[f2][i] = IF i = 1 THEN e ELSE Pte0
    BY <1>5, <1>6
  <2> QED BY <2>1, <1>8
<1>12. DeviceMem(m)
  BY <1>5, <1>9, <1>10, <1>11, <1>x, <1>e DEF DeviceMem
<1>13. w2.phys = PhysRec(Fresh(f3), a2) /\ w2.root = [ppn |-> F, pages |-> q2] /\ w2.res = "Ok"
       /\ w2.table = f2 /\ w2.phys.mem = a2
  BY <1>3, <1>t DEF BootWalk, PhysRec
<1>14. r = Result([w2.phys EXCEPT !.mem[w2.table][1] = e], w2.root, "Ok")
  <2>1. StartWalk(PhysRec(Fresh(F + 1), z), [ppn |-> F, pages |-> q]) = w0
    BY <1>w, <1>x, BootFacts
  <2>2. ~is_valid(w2.phys.mem[w2.table][1])
    BY <1>13, <1>4, <1>0, <1>i, Pte0Type
  <2>3. parse_vpn(DeviceVpn)[2] = x /\ parse_vpn(DeviceVpn)[1] = 0 /\ parse_vpn(DeviceVpn)[0] = 1
        /\ is_valid_flags(KernelFlags)
    BY <1>x, BootFacts
  <2> QED BY <2>1, <2>2, <2>3, <1>w, <1>13, <1>e, Zenon DEF map_create
<1>15. [w2.phys EXCEPT !.mem[w2.table][1] = e] = PhysRec(Fresh(f3), m)
  <2>1. [PhysRec(Fresh(f3), a2) EXCEPT !.mem[f2][1] = e] = PhysRec(Fresh(f3), m)
    BY <1>m DEF PhysRec, Write
  <2> QED BY <2>1, <1>13
<1>16. r.phys = PhysRec(Fresh(f3), m) /\ r.root = [ppn |-> F, pages |-> q2]
  BY <1>13, <1>14, <1>15 DEF Result
<1> QED BY <1>12, <1>16, <1>x

\* init_kernel_satp: the device page, then the large page.
LEMMA BootKernel ==
    \E m, q : /\ init_kernel_satp.phys = PhysRec(Fresh(F + 3), m)
              /\ init_kernel_satp.root = [ppn |-> F, pages |-> q]
              /\ BootMem(m)
<1>f. F \in Nat /\ F \in PPN /\ F + 1 \in PPN /\ F + 2 \in PPN
  BY Layout
<1>z. PICK z : z = [p \in PPN |-> ZeroPage]
  OBVIOUS
<1>r. PICK r0, r1 : /\ r0 = new([mem |-> z, alloc |-> NewAllocator(KernelEndPa)])
                    /\ r1 = map_create(r0.phys, r0.root, DeviceVpn, DeviceFrame, KernelFlags)
  OBVIOUS
<1>0. init_kernel_satp = map_create_large(r1.phys, r1.root, LargeVpn, LargeFrame, KernelFlags)
  BY <1>z, <1>r, Zenon DEF init_kernel_satp
<1>1. r0.phys = PhysRec(Fresh(F + 1), z) /\ r0.root = [ppn |-> F, pages |-> <<F>>] /\ z \in Memory(PTE)
  BY <1>z, <1>r, BootRoot
<1>2. PICK m, q : r1.phys = PhysRec(Fresh(F + 3), m) /\ r1.root = [ppn |-> F, pages |-> q] /\ DeviceMem(m)
  <2>1. PICK q0 : q0 = <<F>>
    OBVIOUS
  <2>2. r1 = map_create(PhysRec(Fresh(F + 1), z), [ppn |-> F, pages |-> q0], DeviceVpn,
                        DeviceFrame, KernelFlags)
    BY <1>1, <1>r, <2>1
  <2> QED BY <2>2, <1>1, <1>z, BootDevice
<1>x. PICK x, f1, f2, f3 : x = KERNEL_ROOT /\ f1 = F + 1 /\ f2 = F + 2 /\ f3 = F + 3
  OBVIOUS
<1>i. x \in Index /\ 0 \in Index /\ 1 \in Index
  BY <1>x, BootFacts
<1>t. f1 \in PPN /\ f2 \in PPN /\ F # f1 /\ F # f2 /\ f1 # f2
  BY <1>f, <1>x
<1>3. /\ m \in Memory(PTE)
      /\ m[F] = [i \in Index |-> IF i = x THEN Ptr(f1) ELSE Pte0]
      /\ m[f1] = [i \in Index |-> IF i = 0 THEN Ptr(f2) ELSE Pte0]
      /\ m[f2] = [i \in Index |-> IF i = 1 THEN [ppn |-> DeviceFrame, flags |-> KernelFlags]
                                  ELSE Pte0]
  BY <1>2, <1>x DEF DeviceMem
<1>w. PICK w0, w1 : w0 = BootWalk(f3, m, F, q) /\ w1 = Descend(w0, x)
  OBVIOUS
<1>4. w1 = BootWalk(f3, m, f1, q)
  <2>1. m[F][x] = Ptr(f1)
    BY <1>3, <1>i
  <2> QED BY <2>1, <1>w, BootOld
<1>5. w1.phys = PhysRec(Fresh(f3), m) /\ w1.root = [ppn |-> F, pages |-> q] /\ w1.res = "Ok"
      /\ w1.table = f1 /\ w1.phys.mem = m
  BY <1>4 DEF BootWalk, PhysRec
<1>e. PICK e \in PTE : e = [ppn |-> LargeFrame - (LargeFrame % PTES_PER_TABLE), flags |-> KernelFlags]
  BY BootFacts
<1>6. init_kernel_satp = Result([w1.phys EXCEPT !.mem[w1.table][1] = e], w1.root, "Ok")
  <2>1. StartWalk(r1.phys, r1.root) = w0
    BY <1>2, <1>w, <1>x, BootFacts
  <2>2. ~is_leaf(w1.phys.mem[w1.table][1])
    <3>1. m[f1][1] = Pte0
      BY <1>3, <1>i
    <3> QED BY <3>1, <1>5, Pte0Type
  <2>3. parse_vpn(LargeVpn)[2] = x /\ parse_vpn(LargeVpn)[1] = 1 /\ is_valid_flags(KernelFlags)
    BY <1>x, BootFacts
  <2> QED BY <1>0, <2>1, <2>2, <2>3, <1>w, <1>5, <1>e, Zenon DEF map_create_large
<1>m. PICK out : out = Write(m, f1, 1, e)
  OBVIOUS
<1>7. [w1.phys EXCEPT !.mem[w1.table][1] = e] = PhysRec(Fresh(f3), out)
  <2>1. [PhysRec(Fresh(f3), m) EXCEPT !.mem[f1][1] = e] = PhysRec(Fresh(f3), out)
    BY <1>m DEF PhysRec, Write
  <2> QED BY <2>1, <1>5
<1>8. /\ out \in Memory(PTE) /\ out[f1][1] = e
      /\ \A j \in Index : j # 1 => out[f1][j] = m[f1][j]
      /\ \A p \in PPN : p # f1 => out[p] = m[p]
  <2>1. m \in Memory(PTE) /\ f1 \in PPN /\ 1 \in Index
    BY <1>3, <1>t, <1>i
  <2> QED BY <2>1, <1>m, EntryWrite
<1>9. out[f1] = [i \in Index |-> IF i = 0 THEN Ptr(f2) ELSE IF i = 1 THEN e ELSE Pte0]
  <2>1. \A i \in Index : out[f1][i] = IF i = 0 THEN Ptr(f2) ELSE IF i = 1 THEN e ELSE Pte0
    BY <1>8, <1>3
  <2>2. out[f1] \in [Index -> PTE]
    BY <1>8, <1>t DEF Memory
  <2> QED BY <2>1, <2>2
<1>10. out[F] = m[F] /\ out[f2] = m[f2]
  BY <1>8, <1>t, <1>f
<1>11. BootMem(out)
  BY <1>3, <1>8, <1>9, <1>10, <1>x, <1>e DEF BootMem, KernelMem
<1>12. init_kernel_satp.phys = PhysRec(Fresh(f3), out) /\ init_kernel_satp.root = [ppn |-> F, pages |-> q]
  BY <1>5, <1>6, <1>7 DEF Result
<1> QED BY <1>11, <1>12, <1>x

\* Behind the kernel's tables, every page is free.
LEMMA BootFree == AllocOk(Fresh(F + 3)) /\ FreeOf(Fresh(F + 3)) = Pool
<1>f. F \in Nat /\ compute_max_ppn \in Nat /\ F + 3 <= compute_max_ppn
  BY Layout
<1>1. PICK a : a = Fresh(F + 3)
  OBVIOUS
<1>2. a.recycled_ppn = << >> /\ a.next_unused_ppn = F + 3 /\ a.max_ppn = compute_max_ppn
  BY <1>1 DEF Fresh
<1>3. a \in [next_unused_ppn : F + 3 .. compute_max_ppn, max_ppn : {compute_max_ppn},
             recycled_ppn : Seq(Pool)]
  BY <1>1, <1>f DEF Fresh
<1>4. Len(a.recycled_ppn) = 0 /\ ToSet(a.recycled_ppn) = {}
  BY <1>2 DEF ToSet
<1> QED BY <1>1, <1>2, <1>3, <1>4, <1>f DEF AllocOk, NoRepeat, FreeOf, Pool

\* A page is overwritten, whose old contents nobody needs.
CopiedTo(W, m, p, out) ==
    /\ out \in Memory(W) /\ out[p] = m[F] /\ \A q \in PPN : q # p => out[q] = m[q]

\* new_copy: the root is a free page, its kernel half the kernel's, and nothing
\* is mapped below it.
Copied(W, r, al, m, p, a2, out) ==
    /\ Taken(al, p, a2)
    /\ r = Result(PhysRec(a2, out), [ppn |-> p, pages |-> <<p>>], "Ok")
    /\ CopiedTo(W, m, p, out)
    /\ Good(W, a2, out, [ppn |-> p, pages |-> <<p>>])
    /\ \A i \in UserIndex : ~Has1(out, p, i)

LEMMA CopyGood ==
    ASSUME NEW W, NEW al, NEW p, NEW a2, Taken(al, p, a2), AllocOk(al), NEW m, KernelMem(m), NEW out,
           CopiedTo(W, m, p, out), NEW rt, rt = [ppn |-> p, pages |-> <<p>>]
    PROVE  Good(W, a2, out, rt) /\ \A i \in UserIndex : ~Has1(out, p, i)
<1>f. F \in PPN /\ F + 1 \in PPN /\ F + 2 \in PPN /\ p \in Pool /\ p # F /\ p # F + 1 /\ p # F + 2
  BY Layout DEF Taken
<1>1. out[p] = m[F] /\ out[F] = m[F] /\ out[F + 1] = m[F + 1] /\ out[F + 2] = m[F + 2]
  BY <1>f DEF CopiedTo
<1>2. KernelMem(out)
  BY <1>1 DEF KernelMem
<1>3. \A i \in UserIndex : ~Has1(out, p, i)
  <2> TAKE i \in UserIndex
  <2>1. i \in Index /\ i # KERNEL_ROOT
    BY Shape DEF UserIndex, Index
  <2>2. out[p][i] = Pte0
    BY <2>1, <1>1, <1>2 DEF KernelMem
  <2> QED BY <2>2, Pte0Type DEF Has1
<1>4. rt.ppn = p /\ rt.pages = <<p>> /\ rt.pages \in Seq(Pool)
  BY <1>f
<1>5. ToSet(rt.pages) = {p} /\ NoRepeat(rt.pages)
  BY <1>4 DEF ToSet, NoRepeat
<1>6. RootOk(rt, a2)
  <2>1. rt \in [ppn : Pool, pages : Seq(Pool)]
    BY <1>4, <1>f
  <2>2. p \notin FreeOf(a2)
    BY DEF Taken
  <2> QED BY <2>1, <2>2, <1>4, <1>5 DEF RootOk, Tabs
<1>7. Tabs(rt) \ {rt.ppn} = {}
  BY <1>4, <1>5 DEF Tabs
<1>8. Tree(out, p, {})
  BY <1>3 DEF Tree, Points, Unshared, Reached, Has0
<1>9. \A i \in KernelIndex : out[rt.ppn][i] = out[F][i]
  BY <1>1, <1>4
<1>10. AllocOk(a2) /\ out \in Memory(W)
  BY DEF Taken, CopiedTo
<1> QED BY <1>2, <1>3, <1>4, <1>6, <1>7, <1>8, <1>9, <1>10 DEF Good

LEMMA NewCopy ==
    ASSUME NEW W, NEW al, AllocOk(al), NEW m \in Memory(W), KernelMem(m),
           NEW r, r = new_copy(PhysRec(al, m), m[F])
    PROVE  \/ FreeOf(al) = {} /\ r.res = "AcquirePageFailed"
           \/ \E p, a2, out : Copied(W, r, al, m, p, a2, out)
<1>1. PhysRec(al, m).alloc = al /\ PhysRec(al, m).mem = m
  BY DEF PhysRec
<1>2. CASE FreeOf(al) = {} /\ alloc_page(al) = [page |-> NONE, allocator |-> al]
  <2>1. alloc_page(al).page = NONE
    BY <1>2
  <2>2. r = Result(PhysRec(al, m), NONE, "AcquirePageFailed")
    BY <1>1, <2>1, Zenon DEF new_copy
  <2> QED BY <2>2, <1>2 DEF Result
<1>3. ASSUME NEW p, NEW a2, Taken(al, p, a2) PROVE \E out : Copied(W, r, al, m, p, a2, out)
  <2>1. alloc_page(al).page = p /\ alloc_page(al).allocator = a2 /\ p # NONE /\ p \in PPN /\ F \in PPN
    BY <1>3, Layout DEF Taken
  <2>2. PICK out : out = [m EXCEPT ![p] = m[F]]
    OBVIOUS
  <2>3. m[F] \in [Index -> W]
    BY <2>1 DEF Memory
  <2>4. CopiedTo(W, m, p, out)
    BY <2>1, <2>2, <2>3 DEF CopiedTo, Memory
  <2>5. PICK rt : rt = [ppn |-> p, pages |-> <<p>>]
    OBVIOUS
  <2>6. Good(W, a2, out, rt) /\ \A i \in UserIndex : ~Has1(out, p, i)
    BY <1>3, <2>4, <2>5, CopyGood
  <2>7. r = Result([alloc |-> a2, mem |-> out], rt, "Ok")
    BY <1>1, <2>1, <2>2, <2>5, Zenon DEF new_copy
  <2>8. r = Result(PhysRec(a2, out), rt, "Ok")
    BY <2>7 DEF PhysRec
  <2> QED BY <1>3, <2>4, <2>5, <2>6, <2>8 DEF Copied
<1> QED BY <1>2, <1>3, AllocPage

\* A list of elements of S is one of elements of T.
LEMMA SeqWider ==
    ASSUME NEW S, NEW T, S \subseteq T, NEW q \in Seq(S)
    PROVE  q \in Seq(T)
<1>1. Len(q) \in Nat /\ q \in [1 .. Len(q) -> S]
  OBVIOUS
<1>2. q \in [1 .. Len(q) -> T]
  BY <1>1
<1> QED BY <1>1, <1>2

\* What the hardware finds is a word, and it finds at most one.
OneWord(L, W) == L = {} \/ \E e \in W : L = {e} /\ is_valid(e)

LEMMA LookWord ==
    ASSUME NEW W, NEW al, NEW m, NEW rt, Good(W, al, m, rt),
           NEW i \in UserIndex, NEW j \in Index, NEW k \in Index, NEW L, L = Look(m, rt.ppn, i, j, k)
    PROVE  OneWord(L, W)
<1>1. CASE ~(Has0(m, rt.ppn, i, j) /\ is_valid(m[T0At(m, rt.ppn, i, j)][k]))
  BY <1>1 DEF Look, OneWord
<1>2. CASE Has0(m, rt.ppn, i, j) /\ is_valid(m[T0At(m, rt.ppn, i, j)][k])
  <2>1. T0At(m, rt.ppn, i, j) \in Tabs(rt)
    BY <1>2 DEF Good, Tree, Points
  <2>2. T0At(m, rt.ppn, i, j) \in PPN
    BY <2>1, TabsApart
  <2>3. m[T0At(m, rt.ppn, i, j)][k] \in W
    BY <2>2 DEF Good, Memory
  <2> QED BY <1>2, <2>3 DEF Look, OneWord
<1> QED BY <1>1, <1>2

\* The kernel's tables are three pages.
LEMMA ThreeKernelTables ==
    ASSUME NEW m, KernelMem(m)
    PROVE  KernelTables(m, F) = {F, F + 1, F + 2}
<1>0. \A q : Ptr(q).ppn = q /\ is_valid(Ptr(q)) /\ ~is_leaf(Ptr(q))
  BY DEF Ptr, is_valid, is_leaf
<1>i. KERNEL_ROOT \in KernelIndex /\ KERNEL_ROOT \in Index /\ 0 \in Index /\ KernelIndex \subseteq Index
  BY Shape DEF KernelIndex, Index
<1>1. ASSUME NEW t PROVE t \in Tables1(m, F, KernelIndex) <=> t = F + 1
  <2>1. \A i \in KernelIndex : m[F][i] = IF i = KERNEL_ROOT THEN Ptr(F + 1) ELSE Pte0
    BY <1>i DEF KernelMem
  <2>2. t \in Tables1(m, F, KernelIndex) <=> \E i \in KernelIndex : is_valid(m[F][i]) /\ t = m[F][i].ppn
    BY DEF Tables1
  <2>3. \A i \in KernelIndex : is_valid(m[F][i]) <=> i = KERNEL_ROOT
    BY <2>1, <1>0, Pte0Type
  <2>4. m[F][KERNEL_ROOT].ppn = F + 1
    BY <2>1, <1>0, <1>i
  <2> QED BY <2>2, <2>3, <2>4, <1>i
<1>2. ASSUME NEW t PROVE t \in Tables0(m, F, KernelIndex) <=> t = F + 2
  <2>1. t \in Tables0(m, F, KernelIndex) <=>
           \E j \in Index : is_valid(m[F + 1][j]) /\ ~is_leaf(m[F + 1][j]) /\ t = m[F + 1][j].ppn
    BY <1>1 DEF Tables0
  <2>2. PICK e : e = [ppn |-> LargeFrame - (LargeFrame % PTES_PER_TABLE), flags |-> KernelFlags]
    OBVIOUS
  <2>3. \A j \in Index : m[F + 1][j] = IF j = 0 THEN Ptr(F + 2) ELSE IF j = 1 THEN e ELSE Pte0
    BY <2>2 DEF KernelMem
  <2>4. is_leaf(e)
    BY <2>2 DEF is_leaf, is_valid, KernelFlags
  <2>5. \A j \in Index : (is_valid(m[F + 1][j]) /\ ~is_leaf(m[F + 1][j])) <=> j = 0
    BY <2>3, <2>4, <1>0, Pte0Type
  <2>6. m[F + 1][0].ppn = F + 2
    BY <2>3, <1>0, <1>i
  <2> QED BY <2>1, <2>5, <2>6, <1>i
<1>3. Tables1(m, F, KernelIndex) = {F + 1} /\ Tables0(m, F, KernelIndex) = {F + 2}
  BY <1>1, <1>2
<1> QED BY <1>3 DEF KernelTables
=============================================================================
