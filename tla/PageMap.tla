------------------------------- MODULE PageMap -------------------------------
(***************************************************************************)
(* What a page table promises its caller: a partial function from user     *)
(* pages to entries.  Mapping a page succeeds only when it is unmapped, a  *)
(* failed request changes nothing and has the cause it names, and an unmap *)
(* takes exactly the pages of its range away.                              *)
(***************************************************************************)
EXTENDS Integers

CONSTANTS UserVpns,      \* the pages of user space
          ValidFlags(_), \* the flag sets an entry may have
          NONE

VARIABLES map,  \* what each page is mapped to, NONE if nothing
          op,   \* the last request
          res   \* and its answer

mvars == <<map, op, res>>

MapInit ==
    /\ map = [v \in UserVpns |-> NONE]
    /\ op = NONE
    /\ res = "Ok"

Enter ==
    /\ op'.name = "map"
    /\ res' = "Ok"
    /\ ValidFlags(op'.flags)
    /\ map[op'.vpn] = NONE
    /\ map' = [map EXCEPT ![op'.vpn] = [ppn |-> op'.ppn, flags |-> op'.flags]]

Reject ==
    /\ op'.name = "map"
    /\ \/ res' = "InvalidPteFlags" /\ ~ValidFlags(op'.flags)
       \/ res' = "DoubleMapping" /\ map[op'.vpn] # NONE
       \/ res' = "AcquirePageFailed" /\ map[op'.vpn] = NONE
    /\ map' = map

Remove ==
    /\ op'.name = "unmap"
    /\ res' = "Ok"
    /\ map' = [v \in UserVpns |-> IF op'.first <= v /\ v < op'.end THEN NONE ELSE map[v]]

MapNext == Enter \/ Reject \/ Remove

MapSpec == MapInit /\ [][MapNext]_mvars
=============================================================================
