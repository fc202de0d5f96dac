--------------------------- MODULE PageAllocProofs ---------------------------
(***************************************************************************)
(* PageAlloc proved for every memory size, page size and kernel image.     *)
(***************************************************************************)
EXTENDS PageAlloc, SequenceTheorems, TLAPS

\* Typing of the page numbers.
LEMMA PpnTypes ==
    /\ compute_max_ppn \in Nat
    /\ PpnFromPa(MEM_START_PA) \in Nat
    /\ PPN \subseteq Nat
    /\ NONE \notin PPN
    /\ \A k \in KernelEnds : /\ compute_first_unused_ppn(k) \in Nat
                             /\ compute_first_unused_ppn(k) >= PpnFromPa(MEM_START_PA)
PROOF
<1>1. \A a \in Nat : PpnFromPa(a) \in Nat
  BY MemAssumption, SMT DEF PpnFromPa
<1>2. \A a, b \in Nat : a <= b => PpnFromPa(a) <= PpnFromPa(b)
  BY MemAssumption, SMT DEF PpnFromPa
<1>3. \A k \in KernelEnds : k \in Nat /\ k >= MEM_START_PA
  BY MemAssumption, KernelEndAssumption
<1>4. compute_max_ppn \in Nat
  BY <1>1, MemAssumption DEF compute_max_ppn
<1>5. PPN \subseteq Nat /\ NONE \notin PPN
  BY <1>1, <1>4, MemAssumption DEF PPN
<1>6. \A k \in KernelEnds : /\ compute_first_unused_ppn(k) \in Nat
                            /\ compute_first_unused_ppn(k) >= PpnFromPa(MEM_START_PA)
  <2> TAKE k \in KernelEnds
  <2>1. k + PAGE_SIZE_BYTES \in Nat /\ k + PAGE_SIZE_BYTES >= MEM_START_PA
    BY <1>3, MemAssumption
  <2> QED BY <1>1, <1>2, <1>3, <2>1, MemAssumption DEF compute_first_unused_ppn
<1> QED BY <1>1, <1>4, <1>5, <1>6, MemAssumption

-----------------------------------------------------------------------------
(* The recycled list as a stack without duplicates.                        *)
NoRepeat(s) == \A i, j \in 1 .. Len(s) : i # j => s[i] # s[j]

\* What popping the recycled list leaves.
LEMMA PopFacts ==
    ASSUME NEW S, NEW s \in Seq(S), s # << >>, NoRepeat(s)
    PROVE  /\ Front(s) \in Seq(S)
           /\ NoRepeat(Front(s))
           /\ Last(s) \in ToSet(s)
           /\ ToSet(Front(s)) = ToSet(s) \ {Last(s)}
PROOF
<1>1. Len(s) \in Nat \ {0} /\ DOMAIN s = 1 .. Len(s)
  BY EmptySeq
<1>2. /\ Front(s) \in Seq(S)
      /\ Len(Front(s)) = Len(s) - 1
      /\ \A i \in 1 .. Len(s) - 1 : Front(s)[i] = s[i]
  BY <1>1 DEF Front
<1>3. DOMAIN Front(s) = 1 .. Len(s) - 1
  BY <1>2
<1>4. Last(s) = s[Len(s)] /\ Last(s) \in ToSet(s)
  BY <1>1 DEF Last, ToSet
<1>5. NoRepeat(Front(s))
  BY <1>1, <1>2 DEF NoRepeat
<1>6. ToSet(Front(s)) = ToSet(s) \ {Last(s)}
  BY <1>1, <1>2, <1>3, <1>4 DEF ToSet, NoRepeat
<1> QED BY <1>2, <1>4, <1>5, <1>6

\* What appending a list of pages leaves; a single page is a list of one.
LEMMA AppendFacts ==
    ASSUME NEW S, NEW s \in Seq(S), NEW t \in Seq(S), NoRepeat(s), NoRepeat(t),
           ToSet(s) \cap ToSet(t) = {}
    PROVE  /\ s \o t \in Seq(S)
           /\ NoRepeat(s \o t)
           /\ ToSet(s \o t) = ToSet(s) \cup ToSet(t)
PROOF
<1>1. /\ s \o t \in Seq(S)
      /\ Len(s \o t) = Len(s) + Len(t)
      /\ \A i \in 1 .. Len(s) + Len(t) :
            (s \o t)[i] = IF i <= Len(s) THEN s[i] ELSE t[i - Len(s)]
  OBVIOUS
<1>2. /\ Len(s) \in Nat /\ Len(t) \in Nat
      /\ DOMAIN s = 1 .. Len(s) /\ DOMAIN t = 1 .. Len(t)
      /\ DOMAIN (s \o t) = 1 .. Len(s) + Len(t)
  BY <1>1
<1>3. \A i \in 1 .. Len(s), j \in 1 .. Len(t) : s[i] # t[j]
  BY <1>2 DEF ToSet
<1>4. NoRepeat(s \o t)
  <2> SUFFICES ASSUME NEW i \in 1 .. Len(s) + Len(t),
                      NEW j \in 1 .. Len(s) + Len(t), i # j
               PROVE  (s \o t)[i] # (s \o t)[j]
    BY <1>1 DEF NoRepeat
  <2> QED BY <1>1, <1>2, <1>3 DEF NoRepeat
<1>5. ToSet(s \o t) = ToSet(s) \cup ToSet(t)
  <2>1. ToSet(s \o t) \subseteq ToSet(s) \cup ToSet(t)
    BY <1>1, <1>2 DEF ToSet
  <2>2. \A i \in 1 .. Len(s) : s[i] = (s \o t)[i]
    BY <1>1, <1>2
  <2>3. \A j \in 1 .. Len(t) : t[j] = (s \o t)[Len(s) + j]
    BY <1>1, <1>2
  <2>4. ToSet(s) \subseteq ToSet(s \o t)
    BY <1>2, <2>2 DEF ToSet
  <2>5. \A j \in 1 .. Len(t) : Len(s) + j \in DOMAIN (s \o t)
    BY <1>2
  <2>6. ToSet(t) \subseteq ToSet(s \o t)
    BY <1>2, <2>3, <2>5 DEF ToSet
  <2> QED BY <2>1, <2>4, <2>6
<1> QED BY <1>1, <1>4, <1>5

-----------------------------------------------------------------------------
(* OnePlace is inductive once the types are known: pages enter the four    *)
(* places only from one another.                                           *)
Inv == TypeOK /\ OnePlace

LEMMA InitInv == Init => Inv
PROOF
<1> SUFFICES ASSUME Init PROVE Inv
  OBVIOUS
<1>1. TypeOK
  BY PpnTypes DEF Init, TypeOK, NewAllocator
<1>2. Recycled = {} /\ Held = {} /\ forgotten = {}
  BY PpnTypes DEF Init, NewAllocator, Recycled, Held, ToSet
<1>3. OnePlace
  BY <1>1, <1>2, PpnTypes
  DEF Init, NewAllocator, OnePlace, TypeOK, Unused, FirstUnused, compute_max_ppn
<1> QED BY <1>1, <1>3 DEF Inv

\* The pages that were never handed out are pages of the machine.
LEMMA UnusedIsPpn ==
    ASSUME Inv
    PROVE  /\ FirstUnused .. allocator.max_ppn - 1 \subseteq PPN
           /\ Unused \subseteq PPN
PROOF
<1>1. /\ FirstUnused \in Nat
      /\ FirstUnused >= PpnFromPa(MEM_START_PA)
      /\ allocator.max_ppn = compute_max_ppn
  BY PpnTypes DEF Inv, TypeOK, FirstUnused
<1>2. FirstUnused .. allocator.max_ppn - 1 \subseteq PPN
  BY <1>1, PpnTypes DEF PPN
<1> QED BY <1>2 DEF Inv, OnePlace

\* alloc_page moves one page from the free side to the held side, or finds
\* both free sets empty.
LEMMA AllocMoves ==
    ASSUME Inv, AllocPage
    PROVE  /\ TypeOK'
           /\ NoRepeat(allocator.recycled_ppn)'
           /\ \/ /\ result' = NONE
                 /\ Recycled = {} /\ Unused = {}
                 /\ UNCHANGED <<kernel_end, allocator, handles, forgotten>>
              \/ /\ result' \in Recycled
                 /\ Recycled' = Recycled \ {result'}
                 /\ Unused' = Unused
                 /\ handles' = [handles EXCEPT ![result'] = @ + 1]
              \/ /\ result' \in Unused
                 /\ Unused' = Unused \ {result'}
                 /\ Recycled' = Recycled
                 /\ handles' = [handles EXCEPT ![result'] = @ + 1]
PROOF
<1> DEFINE rec == allocator.recycled_ppn
<1>0. /\ rec \in Seq(PPN) /\ NoRepeat(rec) /\ Recycled = ToSet(rec)
      /\ ToSet(rec) \subseteq PPN
  BY DEF Inv, TypeOK, OnePlace, NoRepeat, Recycled, ToSet
<1>1. CASE rec # << >>
  <2>1. /\ Front(rec) \in Seq(PPN) /\ NoRepeat(Front(rec))
        /\ Last(rec) \in ToSet(rec)
        /\ ToSet(Front(rec)) = ToSet(rec) \ {Last(rec)}
    BY <1>0, <1>1, PopFacts
  <2>2. Last(rec) \in PPN /\ Last(rec) # NONE
    BY <1>0, <2>1, PpnTypes
  <2>3. /\ result' = Last(rec)
        /\ allocator' = [allocator EXCEPT !.recycled_ppn = Front(rec)]
        /\ handles' = [handles EXCEPT ![Last(rec)] = @ + 1]
    BY <1>1, <2>2 DEF AllocPage, alloc_page
  <2>4. /\ allocator'.recycled_ppn = Front(rec)
        /\ allocator'.next_unused_ppn = allocator.next_unused_ppn
        /\ allocator'.max_ppn = allocator.max_ppn
    BY <2>3 DEF Inv, TypeOK
  <2>5. TypeOK'
    <3>1. allocator' \in [next_unused_ppn : Nat, max_ppn : Nat, recycled_ppn : Seq(PPN)]
      BY <2>1, <2>2, <2>3 DEF Inv, TypeOK
    <3>2. handles' \in [PPN -> Nat]
      BY <2>2, <2>3 DEF Inv, TypeOK
    <3> QED BY <2>1, <2>2, <2>3, <2>4, <3>1, <3>2 DEF Inv, TypeOK, AllocPage
  <2>6. Recycled' = Recycled \ {result'} /\ Unused' = Unused
    BY <1>0, <2>1, <2>3, <2>4 DEF Recycled, Unused
  <2> QED BY <1>0, <2>1, <2>3, <2>4, <2>5, <2>6
<1>2. CASE rec = << >> /\ allocator.next_unused_ppn >= allocator.max_ppn
  <2>1. /\ result' = NONE
        /\ UNCHANGED <<kernel_end, allocator, handles, forgotten>>
    BY <1>2 DEF AllocPage, alloc_page
  <2>2. Recycled = {} /\ Unused = {}
    BY <1>0, <1>2 DEF Recycled, ToSet, Unused, Inv, TypeOK
  <2> QED BY <1>0, <2>1, <2>2 DEF Inv, TypeOK
<1>3. CASE rec = << >> /\ ~ (allocator.next_unused_ppn >= allocator.max_ppn)
  <2> DEFINE p == allocator.next_unused_ppn
  <2>1. p \in Unused /\ p \in PPN /\ p # NONE
    BY <1>3, UnusedIsPpn, PpnTypes DEF Unused, Inv, TypeOK
  <2>2. /\ result' = p
        /\ allocator' = [allocator EXCEPT !.next_unused_ppn = p + 1]
        /\ handles' = [handles EXCEPT ![p] = @ + 1]
    BY <1>3, <2>1 DEF AllocPage, alloc_page
  <2>3. /\ allocator'.recycled_ppn = rec
        /\ allocator'.next_unused_ppn = p + 1
        /\ allocator'.max_ppn = allocator.max_ppn
    BY <2>2 DEF Inv, TypeOK
  <2>4. TypeOK'
    <3>0. p \in Nat /\ p + 1 \in Nat
      BY DEF Inv, TypeOK
    <3> HIDE DEF p
    <3>1. allocator' \in [next_unused_ppn : Nat, max_ppn : Nat, recycled_ppn : Seq(PPN)]
      BY <2>2, <3>0 DEF Inv, TypeOK
    <3>2. handles' \in [PPN -> Nat]
      BY <2>1, <2>2 DEF Inv, TypeOK
    <3> QED BY <2>1, <2>2, <2>3, <3>1, <3>2 DEF Inv, TypeOK, AllocPage
  <2>5. Recycled' = Recycled /\ Unused' = Unused \ {result'}
    BY <2>2, <2>3 DEF Recycled, Unused, Inv, TypeOK
  <2> QED BY <1>0, <2>1, <2>2, <2>3, <2>4, <2>5
<1> QED BY <1>1, <1>2, <1>3

\* A new Page makes its page held, a dropped or forgotten one makes it not
\* held, because no page has two Pages.
LEMMA HeldMoves ==
    ASSUME Inv, NEW p \in PPN
    PROVE  /\ handles' = [handles EXCEPT ![p] = @ + 1] /\ p \notin Held
                => /\ Held' = Held \cup {p}
                   /\ \A q \in PPN : handles'[q] \in {0, 1}
           /\ handles' = [handles EXCEPT ![p] = @ - 1] /\ p \in Held
                => /\ Held' = Held \ {p}
                   /\ \A q \in PPN : handles'[q] \in {0, 1}
                   /\ handles' \in [PPN -> Nat]
PROOF
<1>1. handles \in [PPN -> Nat] /\ \A q \in PPN : handles[q] = 0 \/ handles[q] = 1
  BY DEF Inv, TypeOK, OnePlace
<1>2. CASE handles' = [handles EXCEPT ![p] = @ + 1] /\ p \notin Held
  <2>1. handles[p] = 0
    BY <1>1, <1>2 DEF Held
  <2>2. \A q \in PPN : handles'[q] = IF q = p THEN 1 ELSE handles[q]
    BY <1>1, <1>2, <2>1
  <2> QED BY <1>1, <2>1, <2>2 DEF Held
<1>3. CASE handles' = [handles EXCEPT ![p] = @ - 1] /\ p \in Held
  <2>1. handles[p] = 1
    BY <1>1, <1>3 DEF Held
  <2>2. \A q \in PPN : handles'[q] = IF q = p THEN 0 ELSE handles[q]
    BY <1>1, <1>3, <2>1
  <2>3. handles' \in [PPN -> Nat]
    BY <1>1, <1>3, <2>1
  <2>4. Held' = Held \ {p}
    BY <1>1, <2>2 DEF Held
  <2> QED BY <1>1, <1>3, <2>2, <2>3, <2>4
<1> QED BY <1>2, <1>3

\* Recycling the pages ps, each held and listed once, moves them to Recycled.
LEMMA DeallocMoves ==
    ASSUME Inv, NEW ps \in Seq(PPN), NoRepeat(ps), ToSet(ps) \subseteq Held,
           UNCHANGED <<kernel_end, forgotten, result>>,
           allocator' = [allocator EXCEPT
                            !.recycled_ppn = allocator.recycled_ppn \o ps],
           handles' \in [PPN -> Nat],
           \A p \in PPN : handles'[p] = IF p \in ToSet(ps) THEN handles[p] - 1
                                        ELSE handles[p]
    PROVE  /\ Inv'
           /\ Recycled' = Recycled \cup ToSet(ps)
           /\ Held' = Held \ ToSet(ps)
           /\ Unused' = Unused
PROOF
<1> DEFINE rec == allocator.recycled_ppn
<1>1. /\ rec \in Seq(PPN) /\ NoRepeat(rec) /\ Recycled = ToSet(rec)
      /\ ToSet(rec) \cap ToSet(ps) = {}
  BY DEF Inv, TypeOK, OnePlace, NoRepeat, Recycled
<1>2. /\ rec \o ps \in Seq(PPN)
      /\ NoRepeat(rec \o ps)
      /\ ToSet(rec \o ps) = ToSet(rec) \cup ToSet(ps)
  BY <1>1, AppendFacts
<1>3. /\ allocator'.recycled_ppn = rec \o ps
      /\ allocator'.next_unused_ppn = allocator.next_unused_ppn
      /\ allocator'.max_ppn = allocator.max_ppn
      /\ allocator' \in [next_unused_ppn : Nat, max_ppn : Nat, recycled_ppn : Seq(PPN)]
  BY <1>2 DEF Inv, TypeOK
<1>4. TypeOK'
  BY <1>3 DEF Inv, TypeOK
<1>5. /\ Recycled' = Recycled \cup ToSet(ps)
      /\ Unused' = Unused
      /\ FirstUnused' = FirstUnused
  BY <1>1, <1>2, <1>3 DEF Recycled, Unused, FirstUnused
<1>6. /\ Held' = Held \ ToSet(ps)
      /\ \A q \in PPN : handles'[q] \in {0, 1}
  <2>1. \A q \in PPN : handles[q] = 0 \/ handles[q] = 1
    BY DEF Inv, OnePlace
  <2>2. \A q \in PPN : handles'[q] = IF q \in ToSet(ps) THEN 0 ELSE handles[q]
    BY <2>1 DEF Held
  <2> HIDE DEF Inv
  <2>3. Held' = Held \ ToSet(ps)
    BY <2>1, <2>2 DEF Held
  <2> QED BY <2>1, <2>2, <2>3
<1>7. NoRepeat(allocator'.recycled_ppn)
  BY <1>2, <1>3
<1>8. OnePlace'
  BY <1>3, <1>5, <1>6, <1>7 DEF Inv, OnePlace, NoRepeat
<1> QED BY <1>4, <1>5, <1>6, <1>8 DEF Inv

\* Each step keeps Inv and is a step of the pool or leaves it alone.
LEMMA NextInv == Inv /\ [Next]_vars => Inv' /\ [Pool!PoolNext]_(Pool!pvars)
PROOF
<1> SUFFICES ASSUME Inv, [Next]_vars
             PROVE  Inv' /\ [Pool!PoolNext]_(Pool!pvars)
  OBVIOUS
<1> USE DEF Pool!PoolNext, Pool!pvars
<1>1. CASE AllocPage
  <2>1. /\ TypeOK'
        /\ NoRepeat(allocator'.recycled_ppn)
        /\ FirstUnused' = FirstUnused /\ forgotten' = forgotten
        /\ allocator'.max_ppn = allocator.max_ppn
    BY <1>1, AllocMoves DEF AllocPage, FirstUnused, Inv, TypeOK
  <2>2. CASE /\ result' = NONE
             /\ Recycled = {} /\ Unused = {}
             /\ UNCHANGED <<kernel_end, allocator, handles, forgotten>>
    <3>1. OnePlace'
      BY <2>2 DEF Inv, OnePlace, Recycled, Unused, Held, FirstUnused
    <3>2. Pool!Refuse
      BY <2>2 DEF Pool!Refuse, Recycled, Unused, Held
    <3> QED BY <2>1, <3>1, <3>2 DEF Inv
  <2>3. CASE /\ result' \in Recycled
             /\ Recycled' = Recycled \ {result'}
             /\ Unused' = Unused
             /\ handles' = [handles EXCEPT ![result'] = @ + 1]
    <3>1. result' \in PPN /\ result' \notin Held
      BY <2>3, UnusedIsPpn DEF Inv, OnePlace
    <3>2. Held' = Held \cup {result'} /\ \A q \in PPN : handles'[q] \in {0, 1}
      BY <2>3, <3>1, HeldMoves
    <3>3. OnePlace'
      BY <2>1, <2>3, <3>2 DEF Inv, OnePlace, NoRepeat
    <3>4. Pool!Grant
      BY <2>1, <2>3, <3>2 DEF Pool!Grant, Inv, OnePlace
    <3> QED BY <2>1, <3>3, <3>4 DEF Inv
  <2>4. CASE /\ result' \in Unused
             /\ Unused' = Unused \ {result'}
             /\ Recycled' = Recycled
             /\ handles' = [handles EXCEPT ![result'] = @ + 1]
    <3>1. result' \in PPN /\ result' \notin Held
      BY <2>4, UnusedIsPpn DEF Inv, OnePlace
    <3>2. Held' = Held \cup {result'} /\ \A q \in PPN : handles'[q] \in {0, 1}
      BY <2>4, <3>1, HeldMoves
    <3>3. OnePlace'
      BY <2>1, <2>4, <3>2 DEF Inv, OnePlace, NoRepeat
    <3>4. Pool!Grant
      BY <2>1, <2>4, <3>2 DEF Pool!Grant, Inv, OnePlace
    <3> QED BY <2>1, <3>3, <3>4 DEF Inv
  <2> QED BY <1>1, <2>2, <2>3, <2>4, AllocMoves
<1>2. ASSUME NEW p \in PPN, DropPage(p)
      PROVE  Inv' /\ Pool!Return
  <2>1. /\ <<p>> \in Seq(PPN) /\ NoRepeat(<<p>>) /\ ToSet(<<p>>) = {p}
        /\ p \in Held
    BY <1>2 DEF NoRepeat, ToSet, DropPage
  <2>2. handles' = [handles EXCEPT ![p] = @ - 1] /\ handles' \in [PPN -> Nat]
    BY <1>2, HeldMoves DEF DropPage
  <2>3. \A q \in PPN : handles'[q] = IF q \in ToSet(<<p>>) THEN handles[q] - 1
                                     ELSE handles[q]
    BY <2>1, <2>2 DEF Inv, TypeOK
  <2>4. allocator' = [allocator EXCEPT !.recycled_ppn = allocator.recycled_ppn \o <<p>>]
    <3>1. Append(allocator.recycled_ppn, p) = allocator.recycled_ppn \o <<p>>
      BY AppendIsConcat DEF Inv, TypeOK
    <3> QED BY <1>2, <3>1 DEF DropPage, dealloc
  <2>5. Inv' /\ Recycled' = Recycled \cup {p} /\ Held' = Held \ {p} /\ Unused' = Unused
    BY <1>2, <2>1, <2>2, <2>3, <2>4, DeallocMoves DEF DropPage
  <2>6. Pool!Return
    <3>1. {p} \in SUBSET Held
      BY <2>1
    <3> QED BY <1>2, <2>5, <3>1 DEF Pool!Return, DropPage
  <2> QED BY <2>5, <2>6
<1>3. ASSUME NEW n \in 0 .. MaxBatch, NEW ps \in [1 .. n -> PPN], DeallocPages(ps)
      PROVE  Inv' /\ Pool!Return
  <2>1. n \in Nat
    BY KernelEndAssumption
  <2>2. ps \in Seq(PPN) /\ Len(ps) = n /\ DOMAIN ps = 1 .. n
    BY <2>1, SeqDef
  <2>3. NoRepeat(ps) /\ ToSet(ps) \subseteq Held
    BY <1>3, <2>2 DEF NoRepeat, ToSet, DeallocPages
  <2>4. /\ handles' = [p \in PPN |-> IF p \in ToSet(ps) THEN handles[p] - 1
                                     ELSE handles[p]]
    BY <1>3, <2>2 DEF DeallocPages, ToSet
  <2>5. handles' \in [PPN -> Nat]
    BY <2>3, <2>4 DEF Held, Inv, TypeOK
  <2>6. /\ Inv' /\ Recycled' = Recycled \cup ToSet(ps)
        /\ Held' = Held \ ToSet(ps) /\ Unused' = Unused
    BY <1>3, <2>2, <2>3, <2>4, <2>5, DeallocMoves DEF DeallocPages, DeallocSeq
  <2>7. Pool!Return
    <3>1. ToSet(ps) \in SUBSET Held
      BY <2>3
    <3> QED BY <1>3, <2>6, <3>1 DEF Pool!Return, DeallocPages
  <2> QED BY <2>6, <2>7
<1>4. ASSUME NEW p \in PPN, ForgetPage(p)
      PROVE  Inv' /\ Pool!Forget
  <2>1. /\ Held' = Held \ {p} /\ p \in Held
        /\ \A q \in PPN : handles'[q] \in {0, 1}
        /\ handles' \in [PPN -> Nat]
    BY <1>4, HeldMoves DEF ForgetPage
  <2>2. Recycled' = Recycled /\ Unused' = Unused /\ FirstUnused' = FirstUnused
    BY <1>4 DEF ForgetPage, Recycled, Unused, FirstUnused
  <2>3. TypeOK'
    BY <1>4, <2>1 DEF ForgetPage, Inv, TypeOK
  <2>4. OnePlace'
    BY <1>4, <2>1, <2>2 DEF ForgetPage, Inv, OnePlace
  <2>5. Pool!Forget
    BY <1>4, <2>1, <2>2 DEF Pool!Forget, ForgetPage
  <2> QED BY <2>3, <2>4, <2>5 DEF Inv
<1>5. CASE UNCHANGED vars
  <2>1. Recycled' = Recycled /\ Unused' = Unused /\ FirstUnused' = FirstUnused /\ Held' = Held
    BY <1>5 DEF vars, Recycled, Unused, FirstUnused, Held
  <2>2. Inv'
    BY <1>5, <2>1 DEF vars, Inv, TypeOK, OnePlace
  <2> QED BY <1>5, <2>1, <2>2 DEF vars
<1> QED BY <1>1, <1>2, <1>3, <1>4, <1>5 DEF Next

-----------------------------------------------------------------------------
\* The page number of an address times the page size is the address rounded
\* down to its page; multiplication by the page size keeps the order.
LEMMA PageBounds ==
    /\ \A a \in Nat : /\ PpnFromPa(a) \in Nat
                      /\ PpnFromPa(a) * PAGE_SIZE_BYTES = a - (a % PAGE_SIZE_BYTES)
                      /\ a % PAGE_SIZE_BYTES \in 0 .. PAGE_SIZE_BYTES - 1
    /\ \A p, q \in Nat : p <= q => p * PAGE_SIZE_BYTES <= q * PAGE_SIZE_BYTES
BY MemAssumption, SMT DEF PpnFromPa

\* Pages below the first unused one begin inside the kernel image.
LEMMA NoneLeftOut ==
    ASSUME Inv, NEW p \in Nat, p < FirstUnused
    PROVE  p * PAGE_SIZE_BYTES < kernel_end
PROOF
<1>1. /\ kernel_end \in Nat /\ kernel_end + PAGE_SIZE_BYTES \in Nat
      /\ PAGE_SIZE_BYTES \in Nat /\ PAGE_SIZE_BYTES > 0
      /\ FirstUnused \in Nat /\ p + 1 \in Nat /\ p + 1 <= FirstUnused
  BY PpnTypes, MemAssumption, KernelEndAssumption DEF Inv, TypeOK, FirstUnused
<1>2. /\ p * PAGE_SIZE_BYTES \in Int /\ FirstUnused * PAGE_SIZE_BYTES \in Int
      /\ p * PAGE_SIZE_BYTES + PAGE_SIZE_BYTES <= FirstUnused * PAGE_SIZE_BYTES
  <2>1. (p + 1) * PAGE_SIZE_BYTES <= FirstUnused * PAGE_SIZE_BYTES
    BY <1>1, PageBounds
  <2>2. (p + 1) * PAGE_SIZE_BYTES = p * PAGE_SIZE_BYTES + PAGE_SIZE_BYTES
    BY <1>1
  <2> QED BY <1>1, <2>1, <2>2
<1>3. CASE kernel_end % PAGE_SIZE_BYTES = 0
  <2>1. FirstUnused * PAGE_SIZE_BYTES = kernel_end
    BY <1>1, <1>3, PageBounds DEF FirstUnused, compute_first_unused_ppn
  <2> QED BY <1>1, <1>2, <2>1
<1>4. CASE kernel_end % PAGE_SIZE_BYTES # 0
  <2>1. PICK q \in Nat, r \in 1 .. PAGE_SIZE_BYTES - 1 :
          q = PpnFromPa(kernel_end) /\ q * PAGE_SIZE_BYTES = kernel_end - r
    BY <1>1, <1>4, PageBounds
  <2>2. FirstUnused * PAGE_SIZE_BYTES <= kernel_end + PAGE_SIZE_BYTES
    <3>1. FirstUnused = PpnFromPa(kernel_end + PAGE_SIZE_BYTES)
      BY <1>4 DEF FirstUnused, compute_first_unused_ppn
    <3>2. PICK k \in Nat : k = kernel_end + PAGE_SIZE_BYTES
      BY <1>1
    <3>3. /\ PpnFromPa(k) * PAGE_SIZE_BYTES = k - (k % PAGE_SIZE_BYTES)
          /\ k % PAGE_SIZE_BYTES \in 0 .. PAGE_SIZE_BYTES - 1
      BY <3>2, PageBounds
    <3>4. PICK m \in Nat : m = k % PAGE_SIZE_BYTES
      BY <3>3
    <3> QED BY <1>1, <3>1, <3>2, <3>3, <3>4
  <2>3. p * PAGE_SIZE_BYTES # kernel_end
    <3>1. CASE p <= q
      <4>1. p * PAGE_SIZE_BYTES <= q * PAGE_SIZE_BYTES
        BY <2>1, <3>1, PageBounds
      <4> QED BY <1>1, <1>2, <2>1, <4>1
    <3>2. CASE q + 1 <= p
      <4>1. (q + 1) * PAGE_SIZE_BYTES <= p * PAGE_SIZE_BYTES
        BY <2>1, <3>2, PageBounds
      <4>2. (q + 1) * PAGE_SIZE_BYTES = q * PAGE_SIZE_BYTES + PAGE_SIZE_BYTES
        BY <1>1
      <4> QED BY <1>1, <1>2, <2>1, <4>1, <4>2
    <3> QED BY <3>1, <3>2
  <2> QED BY <1>1, <1>2, <2>2, <2>3
<1> QED BY <1>3, <1>4

\* The pages the allocator manages begin behind the kernel image.
LEMMA BehindKernel ==
    ASSUME Inv, NEW p \in Unused \cup Recycled \cup Held \cup forgotten
    PROVE  /\ p * PAGE_SIZE_BYTES >= kernel_end
           /\ (p + 1) * PAGE_SIZE_BYTES <= MEM_START_PA + MEM_SIZE_BYTES
PROOF
<1>1. /\ kernel_end \in Nat /\ FirstUnused \in Nat
      /\ MEM_START_PA + MEM_SIZE_BYTES \in Nat
      /\ kernel_end + PAGE_SIZE_BYTES \in Nat
      /\ allocator.max_ppn = compute_max_ppn
      /\ PAGE_SIZE_BYTES \in Nat
  BY PpnTypes, MemAssumption, KernelEndAssumption DEF Inv, TypeOK, FirstUnused
<1>2. p \in Nat /\ p + 1 \in Nat /\ FirstUnused <= p /\ p + 1 <= compute_max_ppn
  BY <1>1, PpnTypes DEF Inv, OnePlace
<1>3. FirstUnused * PAGE_SIZE_BYTES >= kernel_end
  <2>1. CASE kernel_end % PAGE_SIZE_BYTES = 0
    <3>1. FirstUnused = PpnFromPa(kernel_end)
      BY <2>1 DEF FirstUnused, compute_first_unused_ppn
    <3>2. PpnFromPa(kernel_end) * PAGE_SIZE_BYTES = kernel_end
      BY <1>1, <2>1, PageBounds
    <3> QED BY <1>1, <3>1, <3>2
  <2>2. CASE kernel_end % PAGE_SIZE_BYTES # 0
    <3>1. FirstUnused = PpnFromPa(kernel_end + PAGE_SIZE_BYTES)
      BY <2>2 DEF FirstUnused, compute_first_unused_ppn
    <3> DEFINE k == kernel_end + PAGE_SIZE_BYTES
               m == k % PAGE_SIZE_BYTES
    <3>2. /\ PpnFromPa(k) * PAGE_SIZE_BYTES = k - m
          /\ m \in 0 .. PAGE_SIZE_BYTES - 1
      BY <1>1, PageBounds
    <3>3. k - m >= kernel_end
      <4> HIDE DEF m
      <4> QED BY <1>1, <3>2
    <3> QED BY <3>1, <3>2, <3>3
  <2> QED BY <2>1, <2>2
<1>4. FirstUnused * PAGE_SIZE_BYTES <= p * PAGE_SIZE_BYTES
  BY <1>1, <1>2, PageBounds
<1>5. (p + 1) * PAGE_SIZE_BYTES <= compute_max_ppn * PAGE_SIZE_BYTES
  BY <1>1, <1>2, PpnTypes, PageBounds
<1>6. compute_max_ppn * PAGE_SIZE_BYTES <= MEM_START_PA + MEM_SIZE_BYTES
  BY <1>1, PageBounds DEF compute_max_ppn
<1>7. /\ FirstUnused * PAGE_SIZE_BYTES \in Int
      /\ p * PAGE_SIZE_BYTES \in Int
      /\ (p + 1) * PAGE_SIZE_BYTES \in Int
      /\ compute_max_ppn * PAGE_SIZE_BYTES \in Int
  BY <1>1, <1>2, PpnTypes
<1> QED BY <1>1, <1>3, <1>4, <1>5, <1>6, <1>7

\* The invariant says which pages the allocator manages.
LEMMA InvOutsideKernel == Inv => OutsideKernel
PROOF
<1> DEFINE managed == Unused \cup Recycled \cup Held \cup forgotten
<1> SUFFICES ASSUME Inv, NEW p \in PPN \ managed
             PROVE  p * PAGE_SIZE_BYTES < kernel_end
  BY BehindKernel DEF OutsideKernel
<1>1. managed = FirstUnused .. compute_max_ppn - 1
  BY DEF Inv, TypeOK, OnePlace
<1>2. p \in Nat /\ p < compute_max_ppn /\ FirstUnused \in Nat /\ compute_max_ppn \in Nat
  BY PpnTypes DEF Inv, TypeOK, FirstUnused, PPN
<1>3. p < FirstUnused
  BY <1>1, <1>2
<1> QED BY <1>2, <1>3, NoneLeftOut

\* The allocator's record, its handles and its answers always have their
\* types: no page number outside physical memory enters the allocator.
THEOREM TypeCorrect == Spec => []TypeOK
<1>1. Inv => TypeOK
  BY DEF Inv
<1> QED BY <1>1, InitInv, NextInv, PTL DEF Spec

\* Whatever the memory, the kernel image and the order of allocations, drops
\* and batches, no page is lost and no page has two owners.
THEOREM NoLeakNoAlias == Spec => []OnePlace
<1>1. Inv => OnePlace
  BY DEF Inv
<1> QED BY <1>1, InitInv, NextInv, PTL DEF Spec

\* The allocator manages the pages behind the kernel image, all and no others.
THEOREM KernelImageSafe == Spec => []OutsideKernel
  BY InitInv, NextInv, InvOutsideKernel, PTL DEF Spec

\* The allocator refines the pool of pages: a request is refused only when
\* every page is held or forgotten.
THEOREM RefinesPool == Spec => ImplementsPool
<1>1. Init => Pool!PoolInit
  <2> SUFFICES ASSUME Init PROVE Pool!PoolInit
    OBVIOUS
  <2>1. Recycled = {} /\ Held = {} /\ forgotten = {} /\ result = NONE
    BY PpnTypes DEF Init, NewAllocator, Recycled, Held, ToSet
  <2>2. Unused \subseteq PPN
    BY InitInv, UnusedIsPpn
  <2> QED BY <2>1, <2>2 DEF Pool!PoolInit
<1> QED BY <1>1, InitInv, NextInv, PTL DEF Spec, ImplementsPool, Pool!PoolSpec
=============================================================================
