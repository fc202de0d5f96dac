-------------------------------- MODULE Trap --------------------------------
(***************************************************************************)
(* The trap path, in steps as fine as a trap can split it: the entry       *)
(* __stvec and the two exits of trap/trap.S, u_trap_handler and            *)
(* k_trap_handler, the copy loop of mm/uaccess.S between user and kernel   *)
(* memory, and the lock of ALL_TASKS (sync/spin.rs) they all take.         *)
(*                                                                         *)
(* A trap clears sstatus.SIE, so handler code runs undisturbed and is cut  *)
(* only where it can fault (the load and the store of __uaccess) or where  *)
(* an instruction sets SIE again (csrw sstatus in __restore_u_ctx).  The   *)
(* first context of a task has SIE set, as trap::init left it.             *)
(*                                                                         *)
(* Addresses: kernel stack s holds the slots 10s+1 .. 10s+3, the top one   *)
(* for the context of a trap from user mode; stack 0 is the boot stack.    *)
(* The general registers are sp, tp, t0, a0, a1, t5, t6.  A pc is a label  *)
(* of kernel code or the n-th instruction of the user program.             *)
(***************************************************************************)
EXTENDS Integers, Sequences

CONSTANTS NumTasks,
          MaxPc,              \* MaxPc[t] bounds the length of t's program
          PageBytes, NumPages,\* user space
          Pages,              \* what pages may be at first
          WriteCalls,         \* <<fd, buf, count>>
          InfoCalls,          \* <<task_id, data>>
          InfoLen,            \* size_of::<TaskInfo>()
          HeapBytes,          \* the largest buffer the kernel heap has
          NotUtf8,            \* the <<task, address>> whose byte is no UTF-8
          SliceCoversSwitch   \* a time slice outlasts the switch that sets it

Tasks == 1 .. NumTasks

ASSUME TrapAssumption ==
    /\ {NumTasks, PageBytes, NumPages, InfoLen} \subseteq Nat \ {0}
    /\ MaxPc \in [Tasks -> Nat] /\ HeapBytes \in Nat
    /\ Pages \subseteq [Tasks -> [0 .. NumPages - 1 -> [area : SUBSET {"R", "W"}, mapped : BOOLEAN]]]
    /\ WriteCalls \subseteq Nat \X Nat \X Nat
    /\ InfoCalls \subseteq Tasks \X Nat
    /\ SliceCoversSwitch \in BOOLEAN

UserEnd == NumPages * PageBytes
Vas     == 0 .. UserEnd - 1
PageOf(va) == va \div PageBytes

VARIABLES pc, mode,   \* where the hart is, and "U" or "S"
          x,          \* the general registers
          csr,        \* [sscratch, status: [sie, spie, spp, sum], sepc between csrw and sret]
          satp,       \* whose page tables are active, 0 for the kernel's
          cause,      \* scause and stval as the handler has read them: [name, stval]
          timer,      \* "off", "set" or "running" (in user mode since it was set)
          ctx,        \* the TrapContexts on the kernel stacks, by slot
          stacks,     \* stacks[t]: "owned", "free" or "reused"
          tasks,      \* tasks[t]: the state in ALL_TASKS, "gone" when taken out
          locked,     \* SpinLock::locked of ALL_TASKS
          layout,     \* "separate" or "shared", as in Scheduler
          pages,      \* pages[t][p]: [area: its permissions, mapped]
          mem,        \* mem[t][va]: the bytes of user memory
          kbuf,       \* the kernel's end of the copy
          call,       \* the system call in progress or last answered
          printed,    \* what the last write printed
          program     \* program[t]: [n, x] were t alone; called: a0 is an answer

hart == <<pc, mode, x, csr, satp, cause, ctx>>
vars == <<hart, timer, stacks, tasks, locked, layout, pages, mem, kbuf, call, printed, program>>
-----------------------------------------------------------------------------
(* Registers, contexts and the initial state *)

UCtx(s)    == 10 * s + 3
StackOf(a) == a \div 10
Slots      == {10 * s + i : s \in 0 .. NumTasks, i \in 1 .. 3}
Label(l)   == [at |-> l, n |-> 0]
User(n)    == [at |-> "user", n |-> n]
NoCause    == [name |-> "none", stval |-> 0]
NoCall     == [name |-> "none", task |-> 0, addr |-> 0, len |-> 0, aux |-> 0, before |-> << >>]

\* The registers a program may have set; tp may be 0 there, too.
UserX(t, tp) == [sp |-> -(10 * t), tp |-> tp, t0 |-> -(10 * t + 1), a0 |-> 0,
                 a1 |-> -(10 * t + 2), t5 |-> -(10 * t + 3), t6 |-> -(10 * t + 4)]
ZeroX == [sp |-> 0, tp |-> 0, t0 |-> 0, a0 |-> 0, a1 |-> 0, t5 |-> 0, t6 |-> 0]

\* Mutant: the bit is cleared in the register but not in the value returned.
InitialStatus_keeps_spp == [sie |-> TRUE, spie |-> FALSE, spp |-> "S", sum |-> FALSE]

\* sstatus after trap::init, with SPP cleared by set_spp_user.
InitialStatus == [sie |-> TRUE, spie |-> FALSE, spp |-> "U", sum |-> FALSE]

\* TrapContext::new_initial
new_initial(t) == [x |-> [ZeroX EXCEPT !.sp = -(10 * t)], status |-> InitialStatus,
                   sepc |-> User(0), task_id |-> t]
NoCtx == [x |-> ZeroX, status |-> InitialStatus, sepc |-> Label("none"), task_id |-> 0]

\* trap::init and the add_task of every application have run.
Init ==
    /\ pc = Label("start") /\ mode = "S"
    /\ x = [ZeroX EXCEPT !.sp = UCtx(0)]
    /\ csr = [sscratch |-> 0, sepc |-> Label("none"), status |-> InitialStatus]
    /\ satp = 0
    /\ cause = NoCause
    /\ timer = "off"
    /\ ctx = [s \in Slots |-> IF s = UCtx(StackOf(s)) /\ s # UCtx(0)
                              THEN new_initial(StackOf(s)) ELSE NoCtx]
    /\ stacks = [t \in Tasks |-> "owned"]
    /\ tasks = [t \in Tasks |-> "Ready"]
    /\ locked = FALSE
    /\ layout \in {"separate", "shared"}
    /\ pages \in Pages
    /\ mem = [t \in Tasks |-> [va \in Vas |-> IF <<t, va>> \in NotUtf8 THEN 255 ELSE 10 * t + va]]
    /\ kbuf = << >> /\ call = NoCall /\ printed = << >>
    /\ program = [t \in Tasks |-> [n |-> 0, x |-> new_initial(t).x, called |-> FALSE]]
-----------------------------------------------------------------------------
(* trap/trap.S: entry *)

\* What the hart saves in sstatus when it takes a trap.
Trapped == [sie |-> FALSE, spie |-> csr.status.sie, spp |-> mode, sum |-> csr.status.sum]

\* Mutant: x4 is saved after tp and sscratch have been exchanged.
save_u_ctx_swapped(slot) ==
    /\ ctx' = [ctx EXCEPT ![slot] = [x |-> [x EXCEPT !.tp = slot], status |-> Trapped,
                                     sepc |-> pc, task_id |-> @.task_id]]
    /\ x' = [x EXCEPT !.tp = slot, !.sp = slot, !.a0 = slot]
    /\ pc' = Label("u_trap_handler")

\* __save_u_ctx: tp now has the context's address, sscratch the user's tp.
save_u_ctx(slot) ==
    /\ ctx' = [ctx EXCEPT ![slot] = [x |-> x, status |-> Trapped, sepc |-> pc,
                                     task_id |-> @.task_id]]
    /\ x' = [x EXCEPT !.tp = slot, !.sp = slot, !.a0 = slot]
    /\ pc' = Label("u_trap_handler")

\* __save_k_ctx: the context goes below the stack pointer, tp is 0 from here.
save_k_ctx(slot) ==
    /\ ctx' = [ctx EXCEPT ![slot] = [x |-> x, status |-> Trapped, sepc |-> pc,
                                     task_id |-> 0]]
    /\ x' = [x EXCEPT !.tp = 0, !.sp = slot, !.a0 = slot]
    /\ pc' = Label("k_trap_handler")

\* A trap up to the call of its handler: __stvec looks at sscratch alone.
stvec(name, stval) ==
    /\ mode' = "S"
    /\ cause' = [name |-> name, stval |-> stval]
    /\ csr' = [sscratch |-> 0, sepc |-> Label("none"), status |-> Trapped]
    /\ IF csr.sscratch # 0 THEN save_u_ctx(csr.sscratch) ELSE save_k_ctx(x.sp - 1)
    /\ UNCHANGED satp

\* Nothing but the hart changes, apart from what the action says.
OnlyHart == UNCHANGED <<stacks, tasks, locked, layout, pages, mem, kbuf>>
-----------------------------------------------------------------------------
(* User mode *)

InUser == mode = "U" /\ pc.at = "user"
check_u_va(va) == va < UserEnd

MayAccess(t, va, need) == /\ pages[t][PageOf(va)].mapped
                          /\ need \in pages[t][PageOf(va)].area

\* The task computes and leaves all its registers changed.
Compute(tp) ==
    /\ InUser /\ pc.n < MaxPc[satp]
    /\ x' = UserX(satp, tp)
    /\ pc' = User(pc.n + 1)
    /\ program' = [program EXCEPT ![satp] = [n |-> pc.n + 1, x |-> x', called |-> FALSE]]
    /\ call' = NoCall /\ printed' = << >>
    /\ UNCHANGED <<mode, csr, satp, cause, ctx, timer>> /\ OnlyHart

Ecall(c) ==
    /\ InUser /\ pc.n < MaxPc[satp]
    /\ stvec("ecall", 0)
    /\ call' = c
    /\ printed' = << >>
    /\ program' = [program EXCEPT ![satp].n = @ + 1, ![satp].called = TRUE]
    /\ UNCHANGED <<timer, stacks, tasks, locked, layout, pages, mem, kbuf>>

\* A load or store of the task that its page does not permit; no page outside
\* user space does.  Which byte of the page it is does not matter.
Fault(va, need) ==
    /\ InUser /\ ~(check_u_va(va) /\ MayAccess(satp, va, need))
    /\ stvec(IF need = "R" THEN "load" ELSE "store", va)
    /\ call' = NoCall /\ printed' = << >>
    /\ UNCHANGED <<timer, program>> /\ OnlyHart

\* An illegal instruction or an instruction page fault, or ("other") a cause the
\* handler does not expect: a breakpoint, a misaligned access, an access fault.
Exception(name) ==
    /\ InUser
    /\ stvec(name, 0)
    /\ call' = NoCall /\ printed' = << >>
    /\ UNCHANGED <<timer, program>> /\ OnlyHart

\* The programs' system calls; yield passes 0 as its first argument.
Calls(t) ==
    {[NoCall EXCEPT !.name = "write", !.task = t, !.aux = w[1], !.addr = w[2], !.len = w[3]] :
        w \in WriteCalls}
    \cup {[NoCall EXCEPT !.name = "task_info", !.task = t, !.aux = w[1], !.addr = w[2],
                         !.len = InfoLen] : w \in InfoCalls}
    \cup {[NoCall EXCEPT !.name = n, !.task = t] : n \in {"yield", "exit", "unknown"}}

UserStep ==
    \/ \E tp \in {0, -(10 * satp + 9)} : Compute(tp)
    \/ \E c \in Calls(satp) : Ecall(c)
    \/ \E va \in {p * PageBytes : p \in 0 .. NumPages}, need \in {"R", "W"} : Fault(va, need)
    \/ \E name \in {"illegal", "other"} : Exception(name)
-----------------------------------------------------------------------------
(* The timer *)

\* The slice may end once the task is in user mode, or even before.
SliceOver == timer = "running" \/ (timer = "set" /\ ~SliceCoversSwitch)

\* A timer interrupt is taken in user mode, and in the kernel where SIE is set.
\* One that comes up while SIE is off waits, as if it came after the sret.
TimerInterrupt ==
    /\ SliceOver
    /\ mode = "U" \/ csr.status.sie
    /\ stvec("timer", 0)
    /\ call' = NoCall /\ printed' = << >>
    /\ UNCHANGED <<timer, program>> /\ OnlyHart
-----------------------------------------------------------------------------
(* Tasks *)

\* SpinLock::lock on ALL_TASKS spins until the flag is clear; a handler that
\* takes the lock and drops the guard before its end leaves it as it was.
lock == ~locked

\* Drop of a SpinGuard
unlock == locked' = FALSE

\* get_current_task_id: the context tp points to has the task's id.
Current == ctx[x.tp].task_id

Panic(why) ==
    /\ pc' = Label(why)
    /\ UNCHANGED <<mode, x, csr, satp, cause, ctx, timer, stacks, tasks, locked>>

\* The stack pointer __switch loads: with the shared layout the one it has just
\* saved, and the old task's handler goes on to __restore_u_ctx on its stack.
SwitchedSp(curr, next) == IF layout = "shared" /\ curr # 0 THEN UCtx(curr) ELSE UCtx(next)

\* run_next_task after the current task (0: none) has got the state `state`.
\* The TCB of a task that has ended is dropped with its kernel stack, on which
\* this very code runs.  `answer` is what the handler stores in the old context
\* should __switch return to it (-1: nothing).
run_next_task(curr, state, contexts, answer) ==
    LET after  == [t \in Tasks |-> IF t # curr THEN tasks[t]
                                   ELSE IF state = "Ready" THEN state ELSE "gone"]
        ready  == {t \in Tasks : after[t] = "Ready"}
        others == ready \ {curr}
    IN  /\ stacks' = [t \in Tasks |-> IF t = curr /\ state # "Ready" THEN "free" ELSE stacks[t]]
        /\ \/ /\ ready = {}
              /\ tasks' = after
              /\ pc' = Label("off")
              /\ locked' = TRUE
              /\ ctx' = contexts
              /\ UNCHANGED <<x, satp, timer>>
           \/ \E next \in IF others # {} THEN others ELSE ready :
              /\ tasks' = [after EXCEPT ![next] = "Running"]
              /\ unlock
              /\ timer' = "set"
              /\ x' = [x EXCEPT !.tp = UCtx(next), !.sp = SwitchedSp(curr, next)]
              /\ satp' = next
              /\ ctx' = IF SwitchedSp(curr, next) # UCtx(next) /\ answer # -1
                        THEN [contexts EXCEPT ![UCtx(curr)].x.a0 = answer] ELSE contexts
              /\ pc' = Label("restore_u_ctx")
        /\ UNCHANGED <<mode, csr, cause>>

\* exchange_current_task_state from Running, and run_next_task.
Leave(state, contexts, answer) ==
    /\ lock
    /\ IF tasks[Current] = "Running"
       THEN run_next_task(Current, state, contexts, answer)
       ELSE Panic("panic")

Start ==
    /\ pc.at = "start" /\ mode = "S" /\ lock
    /\ run_next_task(0, "none", ctx, -1)
    /\ UNCHANGED <<layout, pages, mem, kbuf, call, printed, program>>
-----------------------------------------------------------------------------
(* Page faults *)

\* A page of a kernel stack that is handed out again is cleared.
Reuse(taken, contexts) == [s \in Slots |-> IF StackOf(s) \in taken THEN NoCtx ELSE contexts[s]]

\* do_page_fault succeeds: under the lock, map_fault_page draws pages, perhaps
\* those of the stacks of tasks that have ended.
FaultServed(t, va, need) ==
    /\ need \in pages[t][PageOf(va)].area /\ ~pages[t][PageOf(va)].mapped
    /\ pages' = [pages EXCEPT ![t][PageOf(va)].mapped = TRUE]
    /\ \E taken \in SUBSET {s \in Tasks : stacks[s] = "free"} :
         /\ stacks' = [s \in Tasks |-> IF s \in taken THEN "reused" ELSE stacks[s]]
         /\ ctx' = Reuse(taken, ctx)

Need == IF cause.name = "load" THEN "R" ELSE "W"

UserFault == cause.name \in {"load", "store"} /\ check_u_va(cause.stval)

\* The causes of u_trap_handler other than an ecall; what is left, a fault outside
\* user space included, is trap_panic's.  do_page_fault may also fail where the
\* area permits the access: there is no page left.
u_trap_handler ==
    /\ pc.at = "u_trap_handler" /\ mode = "S" /\ cause.name # "ecall"
    /\ \/ cause.name = "timer" /\ Leave("Ready", ctx, -1) /\ UNCHANGED pages
       \/ cause.name = "illegal" /\ Leave("Killed", ctx, -1) /\ UNCHANGED pages
       \/ /\ UserFault /\ lock
          /\ FaultServed(Current, cause.stval, Need)
          /\ pc' = Label("restore_u_ctx")
          /\ UNCHANGED <<mode, x, csr, satp, cause, timer, tasks, locked>>
       \/ UserFault /\ Leave("Killed", ctx, -1) /\ UNCHANGED pages
       \/ /\ cause.name \notin {"timer", "illegal"} /\ ~UserFault
          /\ Panic("trap_panic") /\ UNCHANGED pages
    /\ UNCHANGED <<layout, mem, kbuf, call, printed, program>>
-----------------------------------------------------------------------------
(* System calls *)

\* The handler has stepped over the ecall; record_current_syscall has taken
\* the lock and released it.
SteppedOver == [ctx EXCEPT ![x.tp].sepc = User(@.n + 1)]

\* The answer goes into the context.
Answer(contexts, a) ==
    /\ ctx' = [contexts EXCEPT ![x.tp].x.a0 = a]
    /\ pc' = Label("restore_u_ctx")

check_u_va_range(start, len) == start < UserEnd /\ start + len # 0 /\ start + len <= UserEnd

KBUF == UserEnd   \* the address of kbuf, outside user space

\* copy_from_user and copy_to_user up to the first test of the loop, with the
\* frame of the syscall on the stack.
Uaccess(src, dst, len) ==
    /\ csr' = [csr EXCEPT !.status.sum = TRUE]
    /\ x' = [x EXCEPT !.sp = x.tp - 1, !.a0 = src, !.a1 = dst, !.t5 = src + len]
    /\ pc' = Label(IF len = 0 THEN "done" ELSE "lb")

\* vec![0; count] does not return if the heap is too small.
sys_write ==
    LET good == call.aux = 1 /\ check_u_va_range(call.addr, call.len) IN
    /\ call.name = "write"
    /\ \/ /\ ~good
          /\ Answer(SteppedOver, -1)
          /\ UNCHANGED <<csr, x, kbuf, call>>
       \/ /\ good /\ call.len > HeapBytes
          /\ pc' = Label("refused")
          /\ UNCHANGED <<ctx, csr, x, kbuf, call>>
       \/ /\ good /\ call.len <= HeapBytes
          /\ kbuf' = [i \in 1 .. call.len |-> 0]
          /\ call' = [call EXCEPT !.before = kbuf']
          /\ Uaccess(call.addr, KBUF, call.len)
          /\ ctx' = SteppedOver
    /\ UNCHANGED <<satp, timer, stacks, tasks, locked>>

\* The bytes of a TaskInfo; what they are depends on the task's state.
TaskInfo(t) == [i \in 1 .. InfoLen |-> IF tasks[t] = "Running" THEN 100 * t + i ELSE 200 * t + i]

\* Mutant: the guard of ALL_TASKS lives until the copy is done.
get_task_info_keeps_guard == locked' = TRUE

\* get_task_info takes the lock and drops the guard when it returns.
get_task_info == unlock

sys_task_info ==
    LET good == check_u_va_range(call.addr, call.len) /\ tasks[call.aux] # "gone" IN
    /\ call.name = "task_info"
    /\ \/ /\ ~good
          /\ Answer(SteppedOver, -1)
          /\ UNCHANGED <<csr, x, kbuf, call, locked>>
       \/ /\ good
          /\ get_task_info
          /\ kbuf' = TaskInfo(call.aux)
          /\ call' = [call EXCEPT !.before = [i \in 1 .. call.len |-> mem[satp][call.addr + i - 1]]]
          /\ Uaccess(KBUF, call.addr, call.len)
          /\ ctx' = SteppedOver
    /\ UNCHANGED <<satp, timer, stacks, tasks>>

sys_yield == call.name = "yield" /\ Leave("Ready", SteppedOver, 0) /\ UNCHANGED <<kbuf, call>>

sys_exit == call.name = "exit" /\ Leave("Exited", SteppedOver, 0) /\ UNCHANGED <<kbuf, call>>

\* The last arm of syscall_handler.
UnknownSyscall == call.name = "unknown" /\ Panic("unknown_syscall") /\ UNCHANGED <<kbuf, call>>

syscall_handler ==
    /\ pc.at = "u_trap_handler" /\ mode = "S" /\ lock
    /\ cause.name = "ecall"
    /\ sys_write \/ sys_task_info \/ sys_yield \/ sys_exit \/ UnknownSyscall
    /\ UNCHANGED <<mode, cause, layout, pages, mem, printed, program>>
-----------------------------------------------------------------------------
(* mm/uaccess.S *)

IsUser(a) == a < UserEnd

\* The kernel reads and writes user pages only while SUM is set.
Reaches(a, need) == IsUser(a) => csr.status.sum /\ MayAccess(satp, a, need)

ByteAt(a) == IF IsUser(a) THEN mem[satp][a] ELSE kbuf[a - KBUF + 1]

InCopy(label) == pc.at = label /\ mode = "S"

\* __uaccess_lb
LoadByte ==
    /\ InCopy("lb")
    /\ \/ /\ Reaches(x.a0, "R")
          /\ x' = [x EXCEPT !.t6 = ByteAt(x.a0)]
          /\ pc' = Label("sb")
          /\ UNCHANGED <<mode, csr, satp, cause, ctx>>
       \/ /\ ~Reaches(x.a0, "R")
          /\ stvec("load", x.a0)
    /\ UNCHANGED <<timer, call, printed, program>> /\ OnlyHart

\* __uaccess_sb, the increments and the test of the loop
StoreByte ==
    /\ InCopy("sb")
    /\ \/ /\ Reaches(x.a1, "W")
          /\ IF IsUser(x.a1)
             THEN mem' = [mem EXCEPT ![satp][x.a1] = x.t6] /\ UNCHANGED kbuf
             ELSE kbuf' = [kbuf EXCEPT ![x.a1 - KBUF + 1] = x.t6] /\ UNCHANGED mem
          /\ x' = [x EXCEPT !.a0 = @ + 1, !.a1 = @ + 1]
          /\ pc' = Label(IF x'.a0 >= x.t5 THEN "done" ELSE "lb")
          /\ UNCHANGED <<mode, csr, satp, cause, ctx>>
       \/ /\ ~Reaches(x.a1, "W")
          /\ stvec("store", x.a1)
          /\ UNCHANGED <<mem, kbuf>>
    /\ UNCHANGED <<timer, stacks, tasks, locked, layout, pages, call, printed, program>>

\* Mutant: the bit is cleared in the value only, not in the register.
set_sum_deny_unwritten == csr

set_sum_deny == [csr EXCEPT !.status.sum = FALSE]

\* Done, and set_sum_deny after the return
CopyDone ==
    /\ InCopy("done")
    /\ x' = [x EXCEPT !.a0 = x.t5 - x.a0, !.sp = x.tp]
    /\ csr' = set_sum_deny
    /\ pc' = Label("copied")
    /\ UNCHANGED <<mode, satp, cause, ctx, timer, call, printed, program>> /\ OnlyHart

\* Mutant: what has been copied is printed, the failure reported after.
Printed_first == IF call.name = "write" THEN SubSeq(kbuf, 1, call.len - x.a0) ELSE << >>

\* What sys_write prints when x.a0 bytes could not be copied.
Printed == IF call.name = "write" /\ x.a0 = 0 THEN kbuf ELSE << >>

\* The rest of sys_write and of sys_task_info.
Copied ==
    /\ InCopy("copied")
    /\ IF call.name = "write" /\ x.a0 = 0 /\ 255 \in {kbuf[i] : i \in DOMAIN kbuf}
       THEN pc' = Label("refused") /\ UNCHANGED <<ctx, printed>>
       ELSE /\ Answer(ctx, IF x.a0 # 0 THEN -1 ELSE IF call.name = "write" THEN call.len ELSE 0)
            /\ printed' = Printed
    /\ kbuf' = << >>
    /\ UNCHANGED <<mode, x, csr, satp, cause, timer, stacks, tasks, locked, layout, pages,
                   mem, call, program>>
-----------------------------------------------------------------------------
(* trap/ktrap.rs and the exits of trap/trap.S *)

\* Mutant: the fault is never repaired, the copy goes on behind it.
Fixed_skips == Label("sb")

\* get_uaccess_fix: __uaccess_fix jumps to Done.
Fixed == Label("done")

\* Only the load and the store of __uaccess may fault, with a task running.
k_trap_handler ==
    LET saved  == ctx[x.sp]
        at     == IF cause.name = "load" THEN "lb" ELSE "sb"
        expect == cause.name \in {"load", "store"} /\ saved.x.tp # 0 /\ saved.sepc.at = at
        t      == ctx[saved.x.tp].task_id
        fixed  == [ctx EXCEPT ![x.sp].sepc = Fixed]
    IN  /\ pc.at = "k_trap_handler" /\ mode = "S"
        /\ IF ~expect THEN Panic("panic") /\ UNCHANGED pages
           ELSE /\ lock
                /\ \/ FaultServed(t, cause.stval, Need)
                   \/ ctx' = fixed /\ UNCHANGED <<stacks, pages>>
                /\ pc' = Label("restore_k_ctx")
                /\ UNCHANGED <<mode, x, csr, satp, cause, timer, tasks, locked>>
        /\ UNCHANGED <<layout, mem, kbuf, call, printed, program>>

\* What sret makes of sstatus.
Returned(status) == [status EXCEPT !.sie = status.spie, !.spie = TRUE, !.spp = "U"]

\* Mutant: sscratch gets the context's address, as on the way to user mode.
KernelScratch_context == x.sp

\* csrw sscratch, x0
KernelScratch == 0

\* __restore_k_ctx; SIE is off in the contexts it restores, so it is one step.
\* The slot is below the stack pointer then, and dead.
restore_k_ctx ==
    /\ pc.at = "restore_k_ctx" /\ mode = "S"
    /\ csr' = [sscratch |-> KernelScratch, sepc |-> Label("none"), status |-> Returned(ctx[x.sp].status)]
    /\ x' = ctx[x.sp].x
    /\ mode' = ctx[x.sp].status.spp
    /\ pc' = ctx[x.sp].sepc
    /\ ctx' = [ctx EXCEPT ![x.sp] = NoCtx]
    /\ cause' = NoCause
    /\ UNCHANGED <<satp, timer, call, printed, program>> /\ OnlyHart

\* Mutant: the address is taken from sp.
Scratch_from_sp == x.sp

\* csrw sscratch, tp: from here on a trap is taken for one from user mode.
Scratch == x.tp

\* One instruction (or run of loads) of __restore_u_ctx.
Instruction(at, next) ==
    /\ pc.at = at /\ mode = "S"
    /\ pc' = Label(next)
    /\ UNCHANGED <<mode, satp, cause, ctx, timer, call, printed, program>> /\ OnlyHart

restore_u_ctx ==
    \/ /\ Instruction("restore_u_ctx", "csrw_sstatus")
       /\ csr' = [csr EXCEPT !.sscratch = Scratch]
       /\ UNCHANGED x
    \/ /\ Instruction("csrw_sstatus", "csrw_sepc")
       /\ csr' = [csr EXCEPT !.status = ctx[x.tp].status]
       /\ UNCHANGED x
    \/ /\ Instruction("csrw_sepc", "load_xn")
       /\ csr' = [csr EXCEPT !.sepc = ctx[x.tp].sepc]
       /\ UNCHANGED x
    \/ /\ Instruction("load_xn", "load_x4")
       /\ x' = [ctx[x.tp].x EXCEPT !.tp = x.tp]
       /\ UNCHANGED csr
    \/ /\ Instruction("load_x4", "sret")
       /\ x' = [x EXCEPT !.tp = ctx[x.tp].x.tp]
       /\ UNCHANGED csr

sret ==
    /\ pc.at = "sret" /\ mode = "S"
    /\ mode' = csr.status.spp
    /\ pc' = csr.sepc
    /\ csr' = [csr EXCEPT !.status = Returned(@), !.sepc = Label("none")]
    /\ timer' = IF timer = "set" THEN "running" ELSE timer
    /\ cause' = NoCause
    /\ UNCHANGED <<x, satp, ctx, call, printed, program>> /\ OnlyHart
-----------------------------------------------------------------------------
KernelStep == \/ Start \/ u_trap_handler \/ syscall_handler \/ k_trap_handler
              \/ LoadByte \/ StoreByte \/ CopyDone \/ Copied
              \/ restore_k_ctx \/ restore_u_ctx \/ sret

Next == UserStep \/ KernelStep \/ TimerInterrupt

\* The kernel's instructions are executed: nothing stops the hart.
Spec == Init /\ [][Next]_vars /\ WF_vars(KernelStep)
-----------------------------------------------------------------------------
(* Properties *)

\* Types; code of the task runs in user mode only.
TypeOK ==
    /\ mode \in {"U", "S"}
    /\ timer \in {"off", "set", "running"}
    /\ csr.sscratch \in {0} \cup {UCtx(t) : t \in Tasks}
    /\ satp \in 0 .. NumTasks
    /\ stacks \in [Tasks -> {"owned", "free", "reused"}]
    /\ tasks \in [Tasks -> {"Ready", "Running", "gone"}]
    /\ DOMAIN ctx = Slots
    /\ pc.at = "user" => mode = "U" /\ pc.n \in 0 .. MaxPc[satp]

\* The comment in __stvec: sscratch tells a trap of the kernel (0) from a trap
\* of user code.  A handler is never given a context of the other kind.
HandlerMatchesMode ==
    /\ pc.at = "u_trap_handler" => ctx[x.tp].status.spp = "U"
    /\ pc.at = "k_trap_handler" => ctx[x.sp].status.spp = "S"

\* However many traps, switches and nested faults lie in between, a task finds
\* its pc and all its registers (a0 after a system call apart) as it left them,
\* its own page tables active, and the next trap will be saved in its own context.
ResumesExactly ==
    mode = "U" =>
        /\ pc = User(program[satp].n)
        /\ \A r \in DOMAIN ZeroX : r # "a0" => x[r] = program[satp].x[r]
        /\ ~program[satp].called => x.a0 = program[satp].x.a0
        /\ tasks[satp] = "Running"
        /\ csr.sscratch = UCtx(satp)

\* The kernel's way into user memory, which set_sum_permit opens, is open in the
\* copy and the faults nested in it and nowhere else: neither a fix-up nor a
\* restored context carries it into the rest of the handler, another task's
\* handlers or user mode.  (A panic opens it for its stack trace, and stops.)
SumOnlyInCopy ==
    csr.status.sum => pc.at \in {"lb", "sb", "done", "k_trap_handler", "restore_k_ctx"}

\* __uaccess, with faults that are served and faults that are not: it returns
\* the number of bytes that failed to copy, the bytes before them are those of
\* the source, the others are untouched, and it stopped at a byte that user
\* memory still does not give access to.
CopyExact ==
    pc.at = "copied" =>
        LET ok      == call.len - x.a0
            user    == [i \in 1 .. call.len |-> mem[call.task][call.addr + i - 1]]
            src     == IF call.name = "write" THEN user ELSE kbuf
            dst     == IF call.name = "write" THEN kbuf ELSE user
        IN  /\ ok \in 0 .. call.len
            /\ \A i \in 1 .. call.len : dst[i] = IF i <= ok THEN src[i] ELSE call.before[i]
            /\ ok < call.len =>
                 ~MayAccess(call.task, call.addr + ok, IF call.name = "write" THEN "R" ELSE "W")

\* A write prints the whole buffer and returns its length, or prints nothing
\* and returns -1, and then there was a reason: the descriptor, the range or
\* a byte that cannot be read.
WriteAllOrNothing ==
    mode = "U" /\ call.name = "write" =>
        \/ /\ x.a0 = call.len
           /\ printed = [i \in 1 .. call.len |-> mem[call.task][call.addr + i - 1]]
        \/ /\ x.a0 = -1 /\ printed = << >>
           /\ \/ call.aux # 1
              \/ ~check_u_va_range(call.addr, call.len)
              \/ \E i \in 0 .. call.len - 1 : ~MayAccess(call.task, call.addr + i, "R")

\* run_next_task gives the stack it runs on back before it switches away: no
\* page of a stack that the hart still uses, or will use for the next trap, is
\* handed out again.
StackNotReused ==
    /\ mode = "S" /\ x.sp > 0 /\ StackOf(x.sp) # 0 => stacks[StackOf(x.sp)] # "reused"
    /\ csr.sscratch # 0 => stacks[StackOf(csr.sscratch)] = "owned"

\* The stops a task can bring about: a write it may make whose buffer is larger
\* than the heap or is no UTF-8, an unknown system call, and a trap the kernel
\* does not expect or that is outside user space.
Stopped ==
    \/ /\ pc.at = "refused" /\ call.name = "write" /\ call.aux = 1
       /\ \/ call.len > HeapBytes
          \/ \E va \in call.addr .. call.addr + call.len - 1 : <<call.task, va>> \in NotUtf8
    \/ pc.at = "unknown_syscall" /\ call.name = "unknown"
    \/ pc.at = "trap_panic" /\ ctx[x.tp].status.spp = "U" /\ (cause.name = "other" \/ ~check_u_va(cause.stval))

\* No handler waits for a lock that the hart itself holds and no fault of a copy
\* repeats for ever or is unexpected: the kernel always gets back to a task,
\* powers off, or stops for one of these reasons and no other.
KernelReturns == mode = "S" ~> (mode = "U" \/ pc.at = "off" \/ Stopped)
=============================================================================
