------------------------------- MODULE MCTrap -------------------------------
(***************************************************************************)
(* Two tasks with two pages of two bytes each.                             *)
(***************************************************************************)
EXTENDS Trap

Page(area, mapped) == [area |-> area, mapped |-> mapped]

Two(a, b) == [p \in {0, 1} |-> IF p = 0 THEN a ELSE b]
Lazy == Page({"R", "W"}, FALSE)

\* The first task's pages let a copy stop at the border of the pages, always or
\* only when it writes; the second task's at any page, or not at all.
MCPages ==
    {[t \in Tasks |-> IF t = 1 THEN own ELSE Two(Lazy, Lazy)] :
        own \in {Two(Page({"R", "W"}, TRUE), Page({}, FALSE)), Two(Lazy, Page({"R"}, TRUE))}}

\* A good buffer over both pages, an empty one, one that leaves user space, a
\* bad descriptor, one for which the heap is too small.
MCWriteCalls == {<<1, 0, 3>>, <<1, 2, 0>>, <<1, 2, 3>>, <<2, 0, 1>>, <<1, 0, 4>>}
MCInfoCalls  == {<<2, 1>>, <<1, 3>>}
\* The second program is shorter.
MCMaxPc      == [t \in Tasks |-> 3 - t]
MCNotUtf8    == {<<2, 2>>}
=============================================================================
