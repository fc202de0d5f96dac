------------------------------ MODULE Scheduler ------------------------------
(***************************************************************************)
(* Tasks on the single hart: os/src/task.rs, task/state.rs, task/switch.S, *)
(* trap/utrap.rs, trap/trap.S and syscall/process.rs.  Each action is a    *)
(* trap from user mode with its whole handler, from __save_u_ctx to the    *)
(* sret of __restore_u_ctx: interrupts stay off in between.                *)
(*                                                                         *)
(* run_next_task hands __switch pointers into two local TaskControlBlocks  *)
(* that it has already moved into ALL_TASKS.  What the pointers still      *)
(* reach is undefined; a build either keeps the two locals apart or gives  *)
(* them one stack slot, and layout says which.  In both cases the context  *)
(* inside ALL_TASKS stays the initial one.                                 *)
(*                                                                         *)
(* The user-visible registers are reduced to [pc, a0].                     *)
(***************************************************************************)
EXTENDS Integers, SequencesExt

CONSTANTS NumTasks,   \* applications linked into the kernel
          MaxPc,      \* bounds the length of a program
          NONE

ASSUME SchedulerAssumption ==
    /\ NumTasks \in Nat \ {0}
    /\ MaxPc \in Nat
    /\ NONE \notin Int

Tasks == 1 .. NumTasks

VARIABLES layout,     \* "separate" or "shared": the slots of the two locals
          all_tasks,  \* ALL_TASKS, in Vec order: [id, state]
          locked,     \* the lock of ALL_TASKS
          tp,         \* whose TrapContext sscratch points to, 0 before the first
          satp,       \* whose page tables are active, 0 for the kernel's
          contexts,   \* contexts[t]: the TrapContext on t's kernel stack
          regs,       \* the registers of the hart in user mode
          phase,      \* "boot", "user", "off" or "panic"
          program,    \* program[t]: the registers t would have, were it alone
          event       \* the last trap

vars == <<layout, all_tasks, locked, tp, satp, contexts, regs, phase, program, event>>

InitialRegs == [pc |-> 0, a0 |-> 0]

\* add_task has run for every application.
Init ==
    /\ layout \in {"separate", "shared"}
    /\ all_tasks = [t \in Tasks |-> [id |-> t, state |-> "Ready"]]
    /\ locked = FALSE
    /\ tp = 0
    /\ satp = 0
    /\ contexts = [t \in Tasks |-> InitialRegs]
    /\ regs = InitialRegs
    /\ phase = "boot"
    /\ program = [t \in Tasks |-> InitialRegs]
    /\ event = "start"
-----------------------------------------------------------------------------
(* The task list *)
Position(list, t) == SelectInSeq(list, LAMBDA tcb : tcb.id = t)

\* Mutant: the last TCB is popped, whichever it is.
take_task_tcb_pops_last(list, t, rand) == Front(list)

\* take_task_tcb: the TCB trades places with a random one before it leaves.
take_task_tcb(list, t, rand) ==
    LET i    == Position(list, t)
        swap == [list EXCEPT ![i] = list[rand], ![rand] = list[i]]
    IN  Front([swap EXCEPT ![rand] = Last(swap)])

\* Mutant: the last Ready task is taken, not the first.
get_next_task_id_last(list) ==
    LET i == SelectLastInSeq(list, LAMBDA tcb : tcb.state = "Ready")
    IN  IF i = 0 THEN NONE ELSE list[i].id

get_next_task_id(list) ==
    LET i == SelectInSeq(list, LAMBDA tcb : tcb.state = "Ready")
    IN  IF i = 0 THEN NONE ELSE list[i].id

\* Mutant: the TCB of a task that has ended is put back too.
PutBack_keeps_ended(list) ==
    IF tp = 0 THEN {list}
    ELSE {Append(take_task_tcb(list, tp, r), list[Position(list, tp)]) : r \in DOMAIN list}

\* The lists the current task's TCB may leave behind, when it is taken out and
\* put back at the end if it is Ready, and dropped otherwise.
PutBack(list) ==
    IF tp = 0 THEN {list}
    ELSE LET state == list[Position(list, tp)].state IN
         {IF state = "Ready" THEN Append(rest, [id |-> tp, state |-> state]) ELSE rest :
             rest \in {take_task_tcb(list, tp, r) : r \in DOMAIN list}}

\* Mutant: the state stays Ready.
SetRunning_forgets(list, t) ==
    {Append(take_task_tcb(list, t, r), [id |-> t, state |-> "Ready"]) : r \in DOMAIN list}

SetRunning(list, t) ==
    {Append(take_task_tcb(list, t, r), [id |-> t, state |-> "Running"]) : r \in DOMAIN list}

\* TaskContext::new_initial, the context every TCB in ALL_TASKS has.
Context(t) == [ra |-> "__restore_u_ctx", sp |-> t, tp |-> t, satp |-> t]

\* What __switch loads.  With one slot the save has just overwritten s0-s11,
\* ra and sp of the context it loads; tp and satp are never saved.
Loaded(curr, t) ==
    IF layout = "shared" /\ curr # 0
    THEN [Context(t) EXCEPT !.ra = "run_next_task", !.sp = curr]
    ELSE Context(t)

\* The kernel stops.
Panic == phase' = "panic" /\ UNCHANGED <<layout, all_tasks, locked, tp, satp, contexts, regs>>

\* "Attempt to switch task {task_id} but its state is running"
StillRunning(list) == tp # 0 /\ list[Position(list, tp)].state = "Running"

\* run_next_task, called with the task list `list` and the contexts `saved`,
\* to the sret of the task it picks.  If __switch returns to its caller, the
\* handler still stores `result` (NONE: nothing) in the context it was given.
run_next_task(list, saved, result) ==
    IF StillRunning(list) THEN Panic ELSE
    /\ \E rest \in PutBack(list) : \E next \in {get_next_task_id(rest)} :
         \/ /\ next = NONE
            /\ all_tasks' = rest
            /\ phase' = "off"
            /\ locked' = TRUE
            /\ contexts' = saved
            /\ UNCHANGED <<tp, satp, regs>>
         \/ /\ next # NONE
            /\ all_tasks' \in SetRunning(rest, next)
            /\ phase' = "user"
            /\ locked' = FALSE
            /\ tp' = Loaded(tp, next).tp
            /\ satp' = Loaded(tp, next).satp
            /\ contexts' = IF Loaded(tp, next).ra = "run_next_task" /\ result # NONE
                           THEN [saved EXCEPT ![tp].a0 = result] ELSE saved
            /\ regs' = contexts'[tp']
    /\ UNCHANGED layout
-----------------------------------------------------------------------------
(* Traps *)

\* exchange_current_task_state from Running, for the handlers that go on to
\* run_next_task; they panic if the current task is not Running.
Leave(new, saved, result) ==
    LET i == Position(all_tasks, tp) IN
    IF i # 0 /\ all_tasks[i].state = "Running"
    THEN \E list \in {[all_tasks EXCEPT ![i].state = new]} :
            run_next_task(list, saved, result)
    ELSE Panic

\* A trap from user mode; the handlers lock ALL_TASKS.
Trap(e) == phase = "user" /\ ~locked /\ event' = e

\* The registers as __save_u_ctx leaves them in the context; an ecall then
\* steps over its instruction.
SaveContext == [contexts EXCEPT ![tp] = regs]

\* Mutant: the saved pc is still the ecall's.
SaveEcall_same_pc == SaveContext

SaveEcall == [contexts EXCEPT ![tp] = [regs EXCEPT !.pc = @ + 1]]

start ==
    /\ phase = "boot" /\ ~locked
    /\ event' = "start"
    /\ run_next_task(all_tasks, contexts, NONE)
    /\ UNCHANGED program

\* SupervisorTimerInterrupt: sleep_task and run_next_task.
TimerInterrupt ==
    /\ Trap("timer")
    /\ Leave("Ready", SaveContext, NONE)
    /\ UNCHANGED program

\* The library passes 0 as first argument, so a0 is 0 before the ecall.
sys_yield ==
    /\ Trap("yield")
    /\ regs.pc < MaxPc
    /\ Leave("Ready", [SaveEcall EXCEPT ![tp].a0 = 0], 0)
    /\ program' = [program EXCEPT ![tp] = [pc |-> @.pc + 1, a0 |-> 0]]

sys_exit ==
    /\ Trap("exit")
    /\ Leave("Exited", SaveEcall, 0)
    /\ UNCHANGED program

\* An illegal instruction, an instruction page fault, or a load or store fault
\* that do_page_fault cannot serve: kill_task and run_next_task.
KillTask ==
    /\ Trap("kill")
    /\ Leave("Killed", SaveContext, NONE)
    /\ UNCHANGED program

\* A syscall that returns to its task: write, mmap, munmap, task_info.
Syscall(result) ==
    /\ Trap("syscall")
    /\ regs.pc < MaxPc
    /\ contexts' = [SaveEcall EXCEPT ![tp].a0 = result]
    /\ regs' = contexts'[tp]
    /\ program' = [program EXCEPT ![tp] = [pc |-> @.pc + 1, a0 |-> result]]
    /\ UNCHANGED <<layout, all_tasks, locked, tp, satp, phase>>

\* The task computes, in user mode.
Compute ==
    /\ phase = "user"
    /\ regs.pc < MaxPc
    /\ regs' = [regs EXCEPT !.pc = @ + 1]
    /\ program' = [program EXCEPT ![tp].pc = @ + 1]
    /\ event' = "compute"
    /\ UNCHANGED <<layout, all_tasks, locked, tp, satp, contexts, phase>>

\* The running task executes an instruction of its own.
Instruction == Compute \/ sys_yield \/ sys_exit \/ Syscall(-1) \/ Syscall(1)

Next == start \/ Instruction \/ TimerInterrupt \/ KillTask

\* set_next_timer_interrupt gives a task 10 ms each time it is switched to, so
\* a task that is switched to again and again executes instructions.
Fairness ==
    /\ WF_vars(start)
    /\ \A t \in Tasks : SF_vars(tp = t /\ Instruction)

Spec == Init /\ [][Next]_vars /\ Fairness
-----------------------------------------------------------------------------
Listed == {all_tasks[i].id : i \in DOMAIN all_tasks}

\* Types: between traps every listed task is Ready or Running.
TypeOK ==
    /\ layout \in {"separate", "shared"}
    /\ all_tasks \in Seq([id : Tasks, state : {"Ready", "Running"}])
    /\ locked \in BOOLEAN
    /\ tp \in 0 .. NumTasks
    /\ satp \in 0 .. NumTasks
    /\ contexts \in [Tasks -> [pc : 0 .. MaxPc + 1, a0 : Int]]
    /\ regs \in [pc : 0 .. MaxPc, a0 : Int]
    /\ phase \in {"boot", "user", "off", "panic"}

\* In user mode exactly one task is Running, and it is the one whose trap
\* context the next trap will use and whose page tables are active; a task
\* that has ended is out of the list, and no task is listed twice.
OneRunning ==
    phase = "user" =>
        /\ \A i, j \in DOMAIN all_tasks : i # j => all_tasks[i].id # all_tasks[j].id
        /\ tp \in Listed /\ satp = tp
        /\ \A i \in DOMAIN all_tasks :
              all_tasks[i].state = IF all_tasks[i].id = tp THEN "Running" ELSE "Ready"

\* Whatever the layout and however often it was switched out, the running task
\* has exactly the registers it would have, were it the only one.
ResumesItself == phase = "user" => regs = program[tp]

\* No handler, nor run_next_task after it, finds the current task in a state it
\* does not expect.
NoPanic == phase # "panic"

\* Giving up the hart means something: a task that yields or is preempted is
\* not the next to run while another one is Ready.
OthersGoFirst ==
    [][event' \in {"timer", "yield"} /\ phase = "user" /\ Listed # {tp}
           => tp' # tp]_vars

\* A task leaves the list only by its own exit or by being killed while it runs.
OnlyTheRunningTaskLeaves ==
    [][Listed' # Listed => Listed' = Listed \ {tp} /\ event' \in {"exit", "kill"}]_vars

\* Programs that end are all run to their end, and the machine is shut down.
AllTasksEnd == <>(phase = "off" /\ all_tasks = << >>)
=============================================================================
