----------------------------- MODULE AddressSpace -----------------------------
(***************************************************************************)
(* What the kernel promises each task about its memory, page by page and   *)
(* without page tables, areas or frames: which pages it has reserved and   *)
(* with which permissions, and which of them are resident.                 *)
(***************************************************************************)
EXTENDS Integers

CONSTANTS Tasks, PAGE_SIZE_BYTES, USER_SPACE_END,
          Image,     \* the pages a task starts with: vpn -> permissions
          Loaded,    \* those that are resident from the start
          NONE

VARIABLES reserved,  \* reserved[t]: vpn -> permissions, NONE if t is not alive
          resident,  \* resident[t]: the pages that have a frame
          op         \* the last request and its answer, NONE before the first

svars == <<reserved, resident, op>>

Vpns == 0 .. (USER_SPACE_END \div PAGE_SIZE_BYTES) - 1

\* The pages that hold some byte of [addr, addr + len).
Covering(addr, len) ==
    {v \in Vpns : v * PAGE_SIZE_BYTES < addr + len /\ addr < (v + 1) * PAGE_SIZE_BYTES}

InUserSpace(addr, len) == addr < USER_SPACE_END /\ addr + len <= USER_SPACE_END

SpaceInit ==
    /\ reserved = [t \in Tasks |-> NONE]
    /\ resident = [t \in Tasks |-> {}]
    /\ op = NONE

\* The request op' is of this kind, by a live task.
Call(name) == op'.name = name /\ op'.task \in Tasks /\ reserved[op'.task] # NONE

Begin ==
    /\ op'.name = "begin" /\ op'.task \in Tasks
    /\ reserved[op'.task] = NONE
    /\ reserved' = [reserved EXCEPT ![op'.task] = Image]
    /\ resident' = [resident EXCEPT ![op'.task] = Loaded]

\* A range is reserved whole or not at all, and only if no page of it is.  An
\* empty request inside a page reserves that page.
Mmap ==
    /\ Call("mmap")
    /\ LET t     == op'.task
           pages == Covering(op'.addr, op'.len) \cup
                    (IF op'.len = 0 /\ op'.addr % PAGE_SIZE_BYTES # 0
                     THEN Covering(op'.addr, 1) ELSE {})
           fine  == /\ InUserSpace(op'.addr, op'.len) /\ op'.addr + op'.len > 0
                    /\ op'.prot \subseteq {"R", "W", "X"}
                    /\ pages # {} /\ pages \cap DOMAIN reserved[t] = {}
       IN  /\ op'.ans = IF fine THEN 0 ELSE -1
           /\ reserved' = IF fine
                          THEN [reserved EXCEPT ![t] =
                                  [v \in DOMAIN @ \cup pages |->
                                     IF v \in pages THEN op'.prot \cup {"U"} ELSE @[v]]]
                          ELSE reserved
    /\ UNCHANGED resident

\* Every page of the range goes, reserved, resident or not; no other does.
Munmap ==
    /\ Call("munmap")
    /\ LET t    == op'.task
           fine == InUserSpace(op'.addr, op'.len) /\ op'.addr + op'.len > 0
           gone == IF fine /\ op'.len > 0 THEN Covering(op'.addr, op'.len) ELSE {}
       IN  /\ op'.ans = IF fine THEN 0 ELSE -1
           /\ reserved' = [reserved EXCEPT ![t] = [v \in DOMAIN @ \ gone |-> @[v]]]
           /\ resident' = [resident EXCEPT ![t] = @ \ gone]

\* An access the reservation permits makes its page resident.
Touch ==
    /\ Call("access") /\ op'.ans = "done"
    /\ LET t == op'.task
           v == op'.va \div PAGE_SIZE_BYTES
       IN  /\ v \in DOMAIN reserved[t] /\ op'.need \subseteq reserved[t][v]
           /\ resident' = [resident EXCEPT ![t] = @ \cup {v}]
    /\ UNCHANGED reserved

\* An access that the reservation does not permit.
Barred(t, v, need) == v \notin DOMAIN reserved[t] \/ ~(need \subseteq reserved[t][v])

\* An access may fail if it is not permitted or its page is not resident: then a
\* frame or a table may be lacking, or the page is write-only, which the hardware
\* does not offer.  The promise does not say when memory is lacking.
CannotTouch(t, v, need) ==
    \/ Barred(t, v, need)
    \/ v \notin resident[t]

\* The kernel's own accesses fail without consequence ...
Fail ==
    /\ Call("access") /\ op'.ans = "failed" /\ op'.mode = "kernel"
    /\ CannotTouch(op'.task, op'.va \div PAGE_SIZE_BYTES, op'.need)
    /\ UNCHANGED <<reserved, resident>>

\* ... the task's own are its end.
End(t) ==
    /\ reserved' = [reserved EXCEPT ![t] = NONE]
    /\ resident' = [resident EXCEPT ![t] = {}]

Die ==
    /\ Call("access") /\ op'.ans = "killed" /\ op'.mode = "user"
    /\ CannotTouch(op'.task, op'.va \div PAGE_SIZE_BYTES, op'.need)
    /\ End(op'.task)

Exit == Call("exit") /\ End(op'.task)

\* The machine stops.
Halt == op'.name = "halt" /\ UNCHANGED <<reserved, resident>>

SpaceNext == Begin \/ Mmap \/ Munmap \/ Touch \/ Fail \/ Die \/ Exit \/ Halt

SpaceSpec == SpaceInit /\ [][SpaceNext]_svars
===============================================================================
