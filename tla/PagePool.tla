------------------------------ MODULE PagePool ------------------------------
(***************************************************************************)
(* What the page allocator promises: a pool of pages, each one free, used  *)
(* by exactly one owner, or forgotten for good.  A request is refused only *)
(* when no page is free.                                                   *)
(***************************************************************************)
EXTENDS Integers

CONSTANTS Pages,   \* the pool starts with some of these pages
          NONE

VARIABLES free, used, forgotten,
          result   \* what the last request returned

pvars == <<free, used, forgotten, result>>

PoolInit ==
    /\ free \in SUBSET Pages
    /\ used = {}
    /\ forgotten = {}
    /\ result = NONE

Grant ==
    /\ \E p \in free : /\ free' = free \ {p}
                       /\ used' = used \cup {p}
                       /\ result' = p
    /\ UNCHANGED forgotten

Refuse ==
    /\ free = {}
    /\ result' = NONE
    /\ UNCHANGED <<free, used, forgotten>>

Return ==
    /\ \E S \in SUBSET used : /\ free' = free \cup S
                              /\ used' = used \ S
    /\ UNCHANGED <<forgotten, result>>

Forget ==
    /\ \E p \in used : /\ used' = used \ {p}
                       /\ forgotten' = forgotten \cup {p}
    /\ UNCHANGED <<free, result>>

PoolNext == Grant \/ Refuse \/ Return \/ Forget

PoolSpec == PoolInit /\ [][PoolNext]_pvars
=============================================================================
