----------------------------- MODULE TrapProofs -----------------------------
(***************************************************************************)
(* The trap path of Trap, proved for every number of tasks, every program, *)
(* every size of user memory and every buffer.                             *)
(*                                                                         *)
(* The theorems suppose SliceCoversSwitch: a timer interrupt that arrives  *)
(* between csrw sstatus and sret of __restore_u_ctx breaks the properties, *)
(* as a run of the model shows.                                            *)
(***************************************************************************)
EXTENDS Trap, TLAPS

-----------------------------------------------------------------------------
(* Types.                                                                  *)

Restoring == {"restore_u_ctx", "csrw_sstatus", "csrw_sepc", "load_xn", "load_x4", "sret"}
Copying   == {"lb", "sb", "done"}
Labels    == Restoring \cup Copying \cup
             {"none", "start", "user", "u_trap_handler", "k_trap_handler", "restore_k_ctx",
              "copied", "off", "panic", "refused", "trap_panic", "unknown_syscall"}

Regs   == [sp : Int, tp : Int, t0 : Int, a0 : Int, a1 : Int, t5 : Int, t6 : Int]
Status == [sie : BOOLEAN, spie : BOOLEAN, spp : {"U", "S"}, sum : BOOLEAN]
Places == [at : Labels, n : Nat]
Ctxs   == [x : Regs, status : Status, sepc : Places, task_id : 0 .. NumTasks]
Progs  == [n : Nat, x : Regs, called : BOOLEAN]
PageTypes == [area : SUBSET {"R", "W"}, mapped : BOOLEAN]
Causes == [name : {"none", "ecall", "load", "store", "illegal", "other", "timer"}, stval : Int]
CallRecords ==
    [name : {"none", "write", "task_info", "yield", "exit", "unknown"}, task : 0 .. NumTasks,
     addr : Nat, len : Nat, aux : Nat, before : Seq(Int)]

HartTypes ==
    /\ pc \in Places
    /\ x \in Regs
    /\ csr \in [sscratch : Int, sepc : Places, status : Status]
    /\ satp \in 0 .. NumTasks
    /\ cause \in Causes
    /\ timer \in {"off", "set", "running"}
    /\ ctx \in [Slots -> Ctxs]

MemoryTypes ==
    /\ stacks \in [Tasks -> {"owned", "free", "reused"}]
    /\ tasks \in [Tasks -> {"Ready", "Running", "gone"}]
    /\ layout \in {"separate", "shared"}
    /\ pages \in [Tasks -> [0 .. NumPages - 1 -> PageTypes]]
    /\ mem \in [Tasks -> [Vas -> Int]]
    /\ kbuf \in Seq(Int)
    /\ call \in CallRecords
    /\ program \in [Tasks -> Progs]
    /\ \A t \in Tasks : program[t].n <= MaxPc[t] /\ program[t].x.sp < 0

-----------------------------------------------------------------------------
(* The hart.                                                               *)

\* Registers are those of a program, a0 after a system call apart.
Matches(r, p) ==
    /\ r.sp = p.x.sp /\ r.tp = p.x.tp /\ r.t0 = p.x.t0
    /\ r.a1 = p.x.a1 /\ r.t5 = p.x.t5 /\ r.t6 = p.x.t6
    /\ ~p.called => r.a0 = p.x.a0

\* A context from which __restore_u_ctx resumes the task t.
Saved(c, p, t) ==
    /\ c.task_id = t
    /\ c.status.spp = "U" /\ c.status.sum = FALSE
    /\ c.sepc = User(p.n)
    /\ Matches(c.x, p)

\* The stack of a task is its own until its TCB is dropped; a task that waits
\* can be resumed.
TasksOK ==
    \A t \in Tasks :
        /\ tasks[t] # "gone" <=> stacks[t] = "owned"
        /\ tasks[t] = "Ready" => Saved(ctx[UCtx(t)], program[t], t)

\* The task whose page tables are active is the one that runs.
RunsOK ==
    /\ satp \in Tasks
    /\ \A t \in Tasks : tasks[t] = "Running" <=> t = satp

\* The code of the kernel, interrupts off.
Quiet == csr.sscratch = 0 /\ csr.status.sie = FALSE

\* The context of the running task, when it was entered by a trap.
CurrentOK ==
    /\ Saved(ctx[UCtx(satp)], program[satp], satp)
    /\ ctx[UCtx(satp)].status.sie = FALSE
    /\ program[satp].called = TRUE

StartOK ==
    /\ csr.sscratch = 0 /\ timer = "off"
    /\ x.sp = UCtx(0) /\ satp = 0
    /\ \A t \in Tasks : tasks[t] = "Ready"

UserOK ==
    /\ csr.sscratch = UCtx(satp) /\ csr.status.sum = FALSE
    /\ pc = User(program[satp].n)
    /\ Matches(x, program[satp])
    /\ ctx[UCtx(satp)].task_id = satp

\* An ecall has not been stepped over yet, though its program has.
TrapOK ==
    LET c == ctx[UCtx(satp)]
        p == program[satp]
    IN  /\ Quiet /\ csr.status.sum = FALSE
        /\ x.tp = UCtx(satp) /\ x.sp = UCtx(satp)
        /\ c.task_id = satp
        /\ c.status.spp = "U" /\ c.status.sum = FALSE /\ c.status.sie = FALSE
        /\ IF cause.name = "ecall"
           THEN p.called = TRUE /\ p.n = c.sepc.n + 1 /\ c.sepc.at = "user"
           ELSE c.sepc = User(p.n)
        /\ Matches(c.x, p)
        /\ cause.name # "none"

CopyOK ==
    /\ Quiet /\ csr.status.sum = TRUE
    /\ x.tp = UCtx(satp) /\ x.sp = UCtx(satp) - 1
    /\ CurrentOK

CopiedOK ==
    /\ Quiet /\ csr.status.sum = FALSE
    /\ x.tp = UCtx(satp) /\ x.sp = UCtx(satp)
    /\ CurrentOK

\* A fault of the copy: its context lies below the frame of the system call.
KTrapOK ==
    LET k == ctx[UCtx(satp) - 2] IN
    /\ Quiet
    /\ x.sp = UCtx(satp) - 2
    /\ CurrentOK
    /\ k.status.sie = FALSE /\ k.status.spie = FALSE
    /\ k.status.spp = "S" /\ k.status.sum = TRUE
    /\ k.x.tp = UCtx(satp) /\ k.x.sp = UCtx(satp) - 1
    /\ k.sepc.at \in Copying
    /\ pc.at = "k_trap_handler" =>
          \/ cause.name = "load" /\ k.sepc.at = "lb"
          \/ cause.name = "store" /\ k.sepc.at = "sb"

\* The way out to user mode.  SIE may be set, but only where the slice that
\* would interrupt it has just begun.
RestoreOK ==
    LET c == ctx[UCtx(satp)] IN
    /\ Saved(c, program[satp], satp)
    /\ c.status.sie => timer = "set"
    /\ csr.status.sie => timer = "set"
    /\ csr.sscratch = IF pc.at = "restore_u_ctx" THEN 0 ELSE UCtx(satp)
    /\ pc.at \notin {"restore_u_ctx", "csrw_sstatus"} => csr.status = c.status
    /\ pc.at \in {"load_xn", "load_x4", "sret"} => csr.sepc = c.sepc
    /\ pc.at # "sret" => x.tp = UCtx(satp)
    /\ pc.at \notin {"load_x4", "sret"} => \E s \in Tasks : x.sp = UCtx(s) /\ stacks[s] # "reused"
    /\ pc.at = "load_x4" => x = [c.x EXCEPT !.tp = UCtx(satp)]
    /\ pc.at = "sret" => x = c.x

\* The machine is off, or the kernel has stopped at a request.
StoppedOK ==
    /\ Quiet
    /\ \E s \in Tasks : x.sp = UCtx(s) /\ stacks[s] # "reused"

HInv ==
    /\ HartTypes
    /\ MemoryTypes
    /\ pc.at \notin {"none", "panic"}
    /\ mode = IF pc.at = "user" THEN "U" ELSE "S"
    /\ TasksOK
    /\ pc.at \notin {"start", "off"} => RunsOK
    /\ pc.at = "start" => StartOK
    /\ pc.at = "user" => UserOK
    /\ pc.at = "u_trap_handler" => TrapOK
    /\ pc.at \in Copying => CopyOK
    /\ pc.at = "copied" => CopiedOK
    /\ pc.at \in {"k_trap_handler", "restore_k_ctx"} => KTrapOK
    /\ pc.at \in Restoring => RestoreOK
    /\ pc.at \in {"off", "refused", "trap_panic", "unknown_syscall"} => StoppedOK

-----------------------------------------------------------------------------
(* The bytes.                                                              *)

IsWrite   == call.name = "write"
UserByte(i) == mem[call.task][call.addr + i - 1]
Src       == IF IsWrite THEN call.addr ELSE KBUF
Dst       == IF IsWrite THEN KBUF ELSE call.addr
SrcByte(i) == IF IsWrite THEN UserByte(i) ELSE kbuf[i]
DstByte(i) == IF IsWrite THEN kbuf[i] ELSE UserByte(i)
Blocked(k) == ~MayAccess(call.task, call.addr + k, IF IsWrite THEN "R" ELSE "W")

\* The first k bytes have been copied.
CopiedTo(k) ==
    /\ k \in 0 .. call.len
    /\ \A i \in 1 .. call.len : DstByte(i) = IF i <= k THEN SrcByte(i) ELSE call.before[i]

\* The registers of __uaccess at the label `at`.
Progress(r, at) ==
    LET k == r.a0 - Src IN
    /\ CopiedTo(k)
    /\ r.a1 = Dst + k /\ r.t5 = Src + call.len
    /\ at \in {"lb", "sb"} => k < call.len
    /\ at = "sb" => r.t6 = SrcByte(k + 1)
    /\ at = "done" /\ k < call.len => Blocked(k)

\* The system call that copies.
InCall ==
    /\ call.name \in {"write", "task_info"}
    /\ call.task = satp
    /\ call.addr + call.len <= UserEnd
    /\ Len(kbuf) = call.len
    /\ printed = << >>

Faulted ==
    LET k == ctx[x.sp] IN
    /\ Progress(k.x, k.sepc.at)
    /\ pc.at = "k_trap_handler" => /\ Blocked(k.x.a0 - Src)
                                   /\ IsWrite <=> k.sepc.at = "lb"

\* WriteAllOrNothing of the answer a.
Outcome(a) ==
    \/ /\ a = call.len
       /\ printed = [i \in 1 .. call.len |-> UserByte(i)]
    \/ /\ a = -1 /\ printed = << >>
       /\ \/ call.aux # 1
          \/ ~check_u_va_range(call.addr, call.len)
          \/ \E i \in 0 .. call.len - 1 : ~MayAccess(call.task, call.addr + i, "R")

AnswerOf == IF pc.at \in {"load_x4", "sret", "user"} THEN x.a0 ELSE ctx[UCtx(satp)].x.a0

DInv ==
    /\ pc.at = "start" => call = NoCall
    /\ pc.at = "u_trap_handler" =>
          /\ printed = << >>
          /\ IF cause.name = "ecall" THEN call \in Calls(satp) ELSE call = NoCall
    /\ pc.at \in Copying => InCall /\ Progress(x, pc.at)
    /\ pc.at \in {"k_trap_handler", "restore_k_ctx"} => InCall /\ Faulted
    /\ pc.at = "copied" => /\ InCall /\ CopiedTo(call.len - x.a0)
                           /\ x.a0 # 0 => Blocked(call.len - x.a0)
    /\ pc.at \in Restoring \cup {"user"} => (IsWrite => call.task = satp /\ Outcome(AnswerOf))

-----------------------------------------------------------------------------
(* Slots and constants.                                                    *)

\* The stack of a slot.
LEMMA StackFacts ==
    ASSUME NEW t \in Nat, NEW i \in 1 .. 3
    PROVE  StackOf(10 * t + i) = t
PROOF BY DEF StackOf

\* The slots of different stacks are different.
LEMMA SlotFacts ==
    ASSUME NEW t \in Tasks
    PROVE  /\ t \in Nat /\ t > 0 /\ t \in 0 .. NumTasks
           /\ UCtx(t) \in Slots /\ UCtx(t) - 1 \in Slots /\ UCtx(t) - 2 \in Slots
           /\ UCtx(t) \in Int /\ UCtx(t) > 3
           /\ StackOf(UCtx(t)) = t /\ StackOf(UCtx(t) - 1) = t /\ StackOf(UCtx(t) - 2) = t
PROOF
<1>1. t \in Nat /\ t > 0 /\ t \in 0 .. NumTasks
  BY TrapAssumption DEF Tasks
<1>2. UCtx(t) = 10 * t + 3 /\ UCtx(t) - 1 = 10 * t + 2 /\ UCtx(t) - 2 = 10 * t + 1
  BY <1>1 DEF UCtx
<1>3. {1, 2, 3} = 1 .. 3
  OBVIOUS
<1>4. \A i \in 1 .. 3 : 10 * t + i \in Slots
  BY <1>1 DEF Slots
<1>5. \A i \in 1 .. 3 : StackOf(10 * t + i) = t
  BY <1>1, StackFacts
<1> QED BY <1>1, <1>2, <1>4, <1>5

\* No slot of one task's stack is the context of another.
LEMMA SlotsApart ==
    ASSUME NEW t \in Tasks, NEW s \in Tasks, t # s
    PROVE  UCtx(t) # UCtx(s) /\ UCtx(t) # UCtx(s) - 1 /\ UCtx(t) # UCtx(s) - 2
PROOF BY SlotFacts

\* Addresses of user memory.
LEMMA UserEndFacts == UserEnd \in Nat /\ KBUF = UserEnd /\ Vas = 0 .. UserEnd - 1
PROOF BY TrapAssumption DEF UserEnd, KBUF, Vas

-----------------------------------------------------------------------------
(* What the steps leave alone.                                             *)

\* Steps of the running task, or of the kernel for it.
LEMMA OthersKept ==
    ASSUME HInv, RunsOK, tasks' = tasks, stacks' = stacks,
           \A t \in Tasks \ {satp} : ctx'[UCtx(t)] = ctx[UCtx(t)] /\ program'[t] = program[t]
    PROVE  TasksOK'
PROOF BY DEF HInv, TasksOK, RunsOK

\* What TrapContext::new_initial and an unused slot hold.
LEMMA InitTypes ==
    ASSUME NEW t \in Tasks
    PROVE  /\ ZeroX \in Regs /\ InitialStatus \in Status /\ NoCtx \in Ctxs
           /\ new_initial(t) \in Ctxs
           /\ new_initial(t).x \in Regs /\ new_initial(t).x.sp = -(10 * t)
           /\ new_initial(t).task_id = t /\ new_initial(t).sepc = User(0)
           /\ new_initial(t).status = InitialStatus
PROOF
<1>1. ZeroX \in Regs
  BY DEF ZeroX, Regs
<1>2. InitialStatus \in Status
  BY DEF InitialStatus, Status
<1>3. Label("none") \in Places /\ User(0) \in Places
  BY DEF Label, User, Places, Labels, Restoring, Copying
<1>4. 0 \in 0 .. NumTasks /\ t \in 0 .. NumTasks /\ -(10 * t) \in Int
  BY SlotFacts, TrapAssumption DEF Tasks
<1>5. NoCtx \in Ctxs
  BY <1>1, <1>2, <1>3, <1>4 DEF NoCtx, Ctxs
<1>6. PICK a \in Int : a = -(10 * t)
  BY <1>4
<1>7. [ZeroX EXCEPT !.sp = a] \in Regs /\ [ZeroX EXCEPT !.sp = a].sp = a
  BY <1>1 DEF Regs
<1> QED BY <1>1, <1>2, <1>3, <1>4, <1>5, <1>6, <1>7 DEF new_initial, Ctxs

\* trap::init and add_task leave every task ready to be resumed.
LEMMA InitHInv == Init => HInv
PROOF
<1> SUFFICES ASSUME Init PROVE HInv
  OBVIOUS
<1> USE DEF Init
<1>1. Label("start") \in Places /\ Label("none") \in Places /\ Label("start").at = "start"
  BY DEF Label, Places, Labels, Restoring, Copying
<1>2. 1 \in Tasks /\ 0 \in 0 .. NumTasks
  BY TrapAssumption DEF Tasks
<1>3. x \in Regs /\ x.sp = UCtx(0)
  <2>1. UCtx(0) \in Int
    BY DEF UCtx
  <2> QED BY <1>2, <2>1, InitTypes DEF Regs
<1>4. ctx \in [Slots -> Ctxs]
  <2>1. ASSUME NEW s \in Slots, s = UCtx(StackOf(s)), s # UCtx(0) PROVE StackOf(s) \in Tasks
    <3>1. PICK t \in 0 .. NumTasks, i \in 1 .. 3 : s = 10 * t + i
      BY <2>1 DEF Slots
    <3>2. t \in Nat
      BY <3>1, TrapAssumption
    <3>3. StackOf(10 * t + i) = t
      BY <3>1, <3>2, StackFacts
    <3> QED BY <2>1, <3>1, <3>2, <3>3, TrapAssumption DEF Tasks
  <2>2. \A s \in Slots : (IF s = UCtx(StackOf(s)) /\ s # UCtx(0)
                          THEN new_initial(StackOf(s)) ELSE NoCtx) \in Ctxs
    BY <1>2, <2>1, InitTypes
  <2> QED BY <2>2
<1>5. HartTypes
  <2>1. csr \in [sscratch : Int, sepc : Places, status : Status] /\ cause \in Causes
    BY <1>1, <1>2, InitTypes DEF Causes, NoCause
  <2> QED BY <1>1, <1>2, <1>3, <1>4, <2>1 DEF HartTypes
<1>6. MemoryTypes
  <2>1. pages \in [Tasks -> [0 .. NumPages - 1 -> PageTypes]]
    BY TrapAssumption DEF PageTypes
  <2>2. mem \in [Tasks -> [Vas -> Int]]
    <3>1. \A t \in Tasks, va \in Vas : 10 * t + va \in Int
      BY SlotFacts, UserEndFacts
    <3> QED BY <3>1
  <2>3. call \in CallRecords /\ kbuf \in Seq(Int)
    BY <1>2 DEF NoCall, CallRecords
  <2>4. program \in [Tasks -> Progs]
    BY InitTypes DEF Progs
  <2>5. \A t \in Tasks : program[t].n <= MaxPc[t] /\ program[t].x.sp < 0
    BY InitTypes, SlotFacts, TrapAssumption, SMTT(20)
  <2> QED BY <2>1, <2>2, <2>3, <2>4, <2>5 DEF MemoryTypes
<1>7. TasksOK
  <2> SUFFICES ASSUME NEW t \in Tasks
               PROVE  Saved(ctx[UCtx(t)], program[t], t)
    BY DEF TasksOK
  <2>1. UCtx(t) # UCtx(0)
    BY SlotFacts DEF UCtx
  <2>2. ctx[UCtx(t)] = new_initial(t)
    BY <2>1, SlotFacts
  <2> QED BY <2>2, InitTypes DEF Saved, Matches, InitialStatus
<1>8. StartOK
  BY <1>3 DEF StartOK
<1>9. pc.at = "start"
  BY DEF Label
<1> QED BY <1>5, <1>6, <1>7, <1>8, <1>9 DEF HInv, Copying, Restoring

-----------------------------------------------------------------------------
(* User mode.                                                              *)

\* A trap from user mode saves the task's state in its own context.
LEMMA UserTrap ==
    ASSUME HInv, pc.at = "user",
           NEW name \in {"ecall", "load", "store", "illegal", "other", "timer"}, NEW stval \in Int,
           stvec(name, stval), timer' = timer
    PROVE  LET u == UCtx(satp) IN
           /\ HartTypes'
           /\ pc' = Label("u_trap_handler") /\ mode' = "S" /\ satp' = satp
           /\ csr'.sscratch = 0 /\ csr'.status.sie = FALSE /\ csr'.status.sum = FALSE
           /\ x'.tp = u /\ x'.sp = u /\ cause'.name = name
           /\ ctx'[u].x = x /\ ctx'[u].sepc = pc /\ ctx'[u].task_id = satp
           /\ ctx'[u].status.spp = "U" /\ ctx'[u].status.sum = FALSE /\ ctx'[u].status.sie = FALSE
           /\ \A t \in Tasks \ {satp} : ctx'[UCtx(t)] = ctx[UCtx(t)]
PROOF
<1> DEFINE u == UCtx(satp)
           c == [x |-> x, status |-> Trapped, sepc |-> pc, task_id |-> ctx[u].task_id]
<1>1. /\ satp \in Tasks /\ csr.sscratch = u /\ csr.status.sum = FALSE
      /\ ctx[u].task_id = satp /\ mode = "U" /\ HartTypes
  BY DEF HInv, RunsOK, UserOK
<1>2. u \in Slots /\ u \in Int /\ u # 0 /\ satp \in 0 .. NumTasks
  BY <1>1, SlotFacts
<1>3. /\ mode' = "S" /\ satp' = satp /\ cause' = [name |-> name, stval |-> stval]
      /\ csr' = [sscratch |-> 0, sepc |-> Label("none"), status |-> Trapped]
      /\ ctx' = [ctx EXCEPT ![u] = c]
      /\ x' = [x EXCEPT !.tp = u, !.sp = u, !.a0 = u]
      /\ pc' = Label("u_trap_handler")
  BY <1>1, <1>2 DEF stvec, save_u_ctx
<1>4. /\ Trapped \in Status /\ Trapped.sie = FALSE /\ Trapped.spp = "U" /\ Trapped.sum = FALSE
  <2>1. csr.status \in Status
    BY <1>1 DEF HartTypes
  <2> QED BY <1>1, <2>1 DEF Trapped, Status
<1>5. /\ c \in Ctxs /\ c.x = x /\ c.status = Trapped /\ c.sepc = pc /\ c.task_id = satp
  BY <1>1, <1>2, <1>4 DEF HartTypes, Ctxs
<1> HIDE DEF c, u
<1>6. ctx' \in [Slots -> Ctxs] /\ ctx'[u] = c
  BY <1>1, <1>2, <1>3, <1>5 DEF HartTypes
<1>7. \A t \in Tasks \ {satp} : ctx'[UCtx(t)] = ctx[UCtx(t)]
  <2> SUFFICES ASSUME NEW t \in Tasks \ {satp} PROVE ctx'[UCtx(t)] = ctx[UCtx(t)]
    OBVIOUS
  <2>1. UCtx(t) \in Slots /\ UCtx(t) # u
    BY <1>1, SlotFacts, SlotsApart DEF u
  <2> QED BY <1>1, <1>3, <2>1 DEF HartTypes
<1>8. Label("u_trap_handler") \in Places /\ Label("none") \in Places
  BY DEF Label, Places, Labels, Restoring, Copying
<1>9. csr' \in [sscratch : Int, sepc : Places, status : Status]
  BY <1>3, <1>4, <1>8
<1>10. x' \in Regs /\ x'.tp = u /\ x'.sp = u
  BY <1>1, <1>2, <1>3 DEF HartTypes, Regs
<1>11. cause' \in Causes /\ cause'.name = name
  BY <1>3 DEF Causes
<1>12. HartTypes'
  BY <1>1, <1>3, <1>6, <1>8, <1>9, <1>10, <1>11 DEF HartTypes
<1> QED BY <1>3, <1>4, <1>5, <1>6, <1>7, <1>10, <1>11, <1>12 DEF u

\* The program of the running task, in user mode.
LEMMA InUserFacts ==
    ASSUME HInv, InUser
    PROVE  /\ pc.at = "user" /\ satp \in Tasks /\ RunsOK /\ UserOK
           /\ pc = User(program[satp].n) /\ pc.n = program[satp].n
           /\ program[satp] \in Progs
PROOF BY DEF HInv, InUser, RunsOK, UserOK, User, MemoryTypes

\* The causes other than an ecall.
LEMMA TrapStep ==
    ASSUME HInv, InUser,
           NEW name \in {"load", "store", "illegal", "other", "timer"}, NEW stval \in Int,
           stvec(name, stval), call' = NoCall,
           UNCHANGED <<timer, program, stacks, tasks, locked, layout, pages, mem, kbuf>>
    PROVE  HInv'
PROOF
<1>1. /\ pc.at = "user" /\ satp \in Tasks /\ RunsOK /\ UserOK
  BY InUserFacts
<1> DEFINE u == UCtx(satp)
<1>2. /\ HartTypes'
      /\ pc' = Label("u_trap_handler") /\ mode' = "S" /\ satp' = satp
      /\ csr'.sscratch = 0 /\ csr'.status.sie = FALSE /\ csr'.status.sum = FALSE
      /\ x'.tp = u /\ x'.sp = u /\ cause'.name = name
      /\ ctx'[u].x = x /\ ctx'[u].sepc = pc /\ ctx'[u].task_id = satp
      /\ ctx'[u].status.spp = "U" /\ ctx'[u].status.sum = FALSE /\ ctx'[u].status.sie = FALSE
      /\ \A t \in Tasks \ {satp} : ctx'[UCtx(t)] = ctx[UCtx(t)]
  BY <1>1, UserTrap
<1>3. TasksOK'
  BY <1>1, <1>2, OthersKept
<1>4. MemoryTypes'
  <2>1. NoCall \in CallRecords
    BY TrapAssumption DEF NoCall, CallRecords
  <2> QED BY <2>1 DEF HInv, MemoryTypes
<1>5. RunsOK'
  BY <1>1, <1>2 DEF RunsOK
<1>6. TrapOK'
  BY <1>1, <1>2 DEF TrapOK, Quiet, UserOK
<1>7. pc'.at = "u_trap_handler"
  BY <1>2 DEF Label
<1> QED BY <1>2, <1>3, <1>4, <1>5, <1>6, <1>7 DEF HInv, Copying, Restoring

\* The programs' calls are of the type of call.
LEMMA CallTypes ==
    ASSUME NEW t \in Tasks, NEW c \in Calls(t)
    PROVE  /\ c \in CallRecords /\ c.task = t
           /\ c.name # "none" /\ (c.name = "task_info" => c.len = InfoLen /\ c.aux \in Tasks)
PROOF
<1>0. t \in 0 .. NumTasks /\ << >> \in Seq(Int)
  BY SlotFacts
<1>1. CASE c \in {[NoCall EXCEPT !.name = "write", !.task = t, !.aux = w[1], !.addr = w[2], !.len = w[3]] :
                    w \in WriteCalls}
  <2>1. PICK w \in WriteCalls : c = [NoCall EXCEPT !.name = "write", !.task = t, !.aux = w[1],
                                                   !.addr = w[2], !.len = w[3]]
    BY <1>1
  <2>2. w[1] \in Nat /\ w[2] \in Nat /\ w[3] \in Nat
    BY TrapAssumption
  <2> QED BY <1>0, <2>1, <2>2 DEF NoCall, CallRecords
<1>2. CASE c \in {[NoCall EXCEPT !.name = "task_info", !.task = t, !.aux = w[1], !.addr = w[2],
                                 !.len = InfoLen] : w \in InfoCalls}
  <2>1. PICK w \in InfoCalls : c = [NoCall EXCEPT !.name = "task_info", !.task = t, !.aux = w[1],
                                                  !.addr = w[2], !.len = InfoLen]
    BY <1>2
  <2>2. w[1] \in Tasks /\ w[1] \in Nat /\ w[2] \in Nat /\ InfoLen \in Nat
    BY TrapAssumption DEF Tasks
  <2> QED BY <1>0, <2>1, <2>2 DEF NoCall, CallRecords
<1>3. CASE c \in {[NoCall EXCEPT !.name = n, !.task = t] : n \in {"yield", "exit", "unknown"}}
  <2>1. PICK n \in {"yield", "exit", "unknown"} : c = [NoCall EXCEPT !.name = n, !.task = t]
    BY <1>3
  <2> QED BY <1>0, <2>1 DEF NoCall, CallRecords
<1> QED BY <1>1, <1>2, <1>3 DEF Calls

\* A system call traps with its program already one instruction further.
LEMMA EcallStep ==
    ASSUME HInv, NEW c \in Calls(satp), Ecall(c)
    PROVE  HInv'
PROOF
<1>1. /\ pc.at = "user" /\ satp \in Tasks /\ RunsOK /\ UserOK /\ InUser
      /\ pc = User(program[satp].n) /\ pc.n = program[satp].n
      /\ program[satp] \in Progs /\ pc.n < MaxPc[satp]
      /\ UNCHANGED <<timer, stacks, tasks, locked, layout, pages, mem, kbuf>>
      /\ stvec("ecall", 0) /\ call' = c
      /\ program' = [program EXCEPT ![satp].n = @ + 1, ![satp].called = TRUE]
  BY InUserFacts DEF Ecall
<1> DEFINE u == UCtx(satp)
           p == [program[satp] EXCEPT !.n = @ + 1, !.called = TRUE]
<1>2. /\ HartTypes'
      /\ pc' = Label("u_trap_handler") /\ mode' = "S" /\ satp' = satp
      /\ csr'.sscratch = 0 /\ csr'.status.sie = FALSE /\ csr'.status.sum = FALSE
      /\ x'.tp = u /\ x'.sp = u /\ cause'.name = "ecall"
      /\ ctx'[u].x = x /\ ctx'[u].sepc = pc /\ ctx'[u].task_id = satp
      /\ ctx'[u].status.spp = "U" /\ ctx'[u].status.sum = FALSE /\ ctx'[u].status.sie = FALSE
      /\ \A t \in Tasks \ {satp} : ctx'[UCtx(t)] = ctx[UCtx(t)]
  <2>1. 0 \in Int
    OBVIOUS
  <2> QED BY <1>1, <2>1, UserTrap
<1>3. program \in [Tasks -> Progs] /\ \A t \in Tasks : program[t].n <= MaxPc[t] /\ program[t].x.sp < 0
  BY DEF HInv, MemoryTypes
<1>4. program' = [program EXCEPT ![satp] = p]
  BY <1>1, <1>3
<1>5. p \in Progs /\ p.n = program[satp].n + 1 /\ p.x = program[satp].x /\ p.called = TRUE
  <2>1. PICK n \in Nat : n = program[satp].n + 1
    BY <1>1 DEF Progs
  <2>2. p = [program[satp] EXCEPT !.n = n, !.called = TRUE]
    BY <2>1
  <2> QED BY <1>1, <2>1, <2>2 DEF Progs
<1> HIDE DEF p
<1>6. program' \in [Tasks -> Progs] /\ program'[satp] = p /\ \A t \in Tasks \ {satp} : program'[t] = program[t]
  BY <1>1, <1>3, <1>4, <1>5
<1>7. \A t \in Tasks : program'[t].n <= MaxPc[t] /\ program'[t].x.sp < 0
  <2> TAKE t \in Tasks
  <2>1. program[satp].n \in Nat /\ MaxPc[satp] \in Nat
    BY <1>1, TrapAssumption DEF Progs
  <2>2. program[satp].n + 1 <= MaxPc[satp]
    BY <1>1, <2>1
  <2> QED BY <1>1, <1>3, <1>5, <1>6, <2>2
<1>8. TasksOK'
  BY <1>1, <1>2, <1>6, OthersKept
<1>9. MemoryTypes'
  BY <1>1, <1>6, <1>7, CallTypes DEF HInv, MemoryTypes
<1>10. RunsOK'
  BY <1>1, <1>2 DEF RunsOK
<1>11. TrapOK'
  BY <1>1, <1>2, <1>5, <1>6 DEF TrapOK, Quiet, UserOK, Matches, User
<1>12. pc'.at = "u_trap_handler"
  BY <1>2 DEF Label
<1> QED BY <1>2, <1>8, <1>9, <1>10, <1>11, <1>12 DEF HInv, Copying, Restoring

\* Computing changes the registers of the program and of the hart alike.
LEMMA ComputeStep ==
    ASSUME HInv, NEW tp \in {0, -(10 * satp + 9)}, Compute(tp)
    PROVE  HInv'
PROOF
<1>1. /\ pc.at = "user" /\ satp \in Tasks /\ RunsOK /\ UserOK /\ InUser
      /\ pc = User(program[satp].n) /\ pc.n = program[satp].n
      /\ program[satp] \in Progs /\ pc.n < MaxPc[satp]
  BY InUserFacts DEF Compute
<1>2. /\ UNCHANGED <<timer, stacks, tasks, locked, layout, pages, mem, kbuf, mode, csr, satp, cause, ctx>>
      /\ x' = UserX(satp, tp) /\ pc' = User(pc.n + 1) /\ call' = NoCall
  BY DEF Compute, OnlyHart
<1> DEFINE p == [n |-> pc.n + 1, x |-> x', called |-> FALSE]
<1>3. program' = [program EXCEPT ![satp] = p]
  BY DEF Compute
<1>4. x' \in Regs /\ x'.sp < 0
  <2>1. satp \in Nat /\ satp > 0 /\ tp \in Int
    BY <1>1, SlotFacts
  <2>2. /\ -(10 * satp) \in Int /\ -(10 * satp) < 0 /\ -(10 * satp + 1) \in Int /\ -(10 * satp + 2) \in Int
        /\ -(10 * satp + 3) \in Int /\ -(10 * satp + 4) \in Int
    BY <2>1
  <2> QED BY <1>2, <2>1, <2>2 DEF UserX, Regs
<1>5. program \in [Tasks -> Progs] /\ \A t \in Tasks : program[t].n <= MaxPc[t] /\ program[t].x.sp < 0
  BY DEF HInv, MemoryTypes
<1>6. pc.n + 1 \in Nat /\ pc.n + 1 <= MaxPc[satp]
  BY <1>1, TrapAssumption DEF Progs
<1>7. p \in Progs /\ p.n = pc.n + 1 /\ p.x = x' /\ p.called = FALSE
  BY <1>4, <1>6 DEF Progs
<1> HIDE DEF p
<1>8. program' \in [Tasks -> Progs] /\ program'[satp] = p /\ \A t \in Tasks \ {satp} : program'[t] = program[t]
  BY <1>1, <1>3, <1>5, <1>7
<1>9. \A t \in Tasks : program'[t].n <= MaxPc[t] /\ program'[t].x.sp < 0
  BY <1>4, <1>5, <1>6, <1>7, <1>8
<1>10. TasksOK'
  BY <1>1, <1>2, <1>8, OthersKept
<1>11. MemoryTypes'
  <2>1. NoCall \in CallRecords
    BY TrapAssumption DEF NoCall, CallRecords
  <2> QED BY <1>2, <1>8, <1>9, <2>1 DEF HInv, MemoryTypes
<1>12. RunsOK'
  BY <1>1, <1>2 DEF RunsOK
<1>13. UserOK'
  BY <1>1, <1>2, <1>7, <1>8 DEF UserOK, Matches
<1>14. pc' \in Places /\ pc'.at = "user"
  BY <1>2, <1>6 DEF User, Places, Labels
<1>15. HartTypes'
  BY <1>2, <1>4, <1>14 DEF HInv, HartTypes
<1>16. mode' = "U"
  BY <1>2 DEF HInv, Compute, InUser
<1> QED BY <1>10, <1>11, <1>12, <1>13, <1>14, <1>15, <1>16 DEF HInv, Copying, Restoring

\* Every step of user mode, traps included, keeps the invariant of the hart.
LEMMA UserSteps ==
    ASSUME HInv, UserStep
    PROVE  HInv'
PROOF
<1>1. CASE \E tp \in {0, -(10 * satp + 9)} : Compute(tp)
  BY <1>1, ComputeStep
<1>2. CASE \E c \in Calls(satp) : Ecall(c)
  BY <1>2, EcallStep
<1>3. ASSUME NEW va \in {p * PageBytes : p \in 0 .. NumPages}, NEW need \in {"R", "W"},
             Fault(va, need)
      PROVE  HInv'
  <2>1. va \in Int
    BY TrapAssumption
  <2>2. (IF need = "R" THEN "load" ELSE "store") \in {"load", "store", "illegal", "other", "timer"}
    OBVIOUS
  <2> QED BY <1>3, <2>1, <2>2, TrapStep DEF Fault, OnlyHart
<1>4. ASSUME NEW name \in {"illegal", "other"}, Exception(name) PROVE HInv'
  <2>1. 0 \in Int
    OBVIOUS
  <2> QED BY <1>4, <2>1, TrapStep DEF Exception, OnlyHart
<1> QED BY <1>1, <1>2, <1>3, <1>4 DEF UserStep

\* With SliceCoversSwitch the timer interrupts user mode only.
LEMMA TimerStep ==
    ASSUME SliceCoversSwitch, HInv, TimerInterrupt
    PROVE  HInv'
PROOF
<1>1. timer = "running"
  BY DEF TimerInterrupt, SliceOver
<1>2. CASE mode = "U"
  <2>1. InUser /\ 0 \in Int
    BY <1>2 DEF HInv, InUser
  <2> QED BY <2>1, TrapStep DEF TimerInterrupt, OnlyHart
<1>3. CASE mode # "U"
  <2>1. csr.status.sie /\ pc.at # "user"
    BY <1>3 DEF TimerInterrupt, HInv
  <2>2. pc.at \in Labels
    BY DEF HInv, HartTypes, Places
  <2> QED BY <1>1, <2>1, <2>2 DEF HInv, Labels, Restoring, Copying, StartOK, TrapOK, CopyOK,
                                  CopiedOK, KTrapOK, RestoreOK, StoppedOK, Quiet
<1> QED BY <1>2, <1>3

-----------------------------------------------------------------------------
(* Switching tasks.                                                        *)

\* The contexts of all tasks but t are untouched.
OthersIn(contexts, t) ==
    \A s \in Tasks : s # t => contexts[UCtx(s)] = ctx[UCtx(s)]

\* `new` is the context c with the answer a stored in it.
Answered(new, c, a) ==
    /\ new \in Ctxs
    /\ new.status = c.status /\ new.sepc = c.sepc /\ new.task_id = c.task_id
    /\ new.x.a0 = a
    /\ new.x.sp = c.x.sp /\ new.x.tp = c.x.tp /\ new.x.t0 = c.x.t0
    /\ new.x.a1 = c.x.a1 /\ new.x.t5 = c.x.t5 /\ new.x.t6 = c.x.t6

\* Storing an answer in a table of contexts.
LEMMA AnswerFacts ==
    ASSUME NEW contexts \in [Slots -> Ctxs], NEW slot \in Slots, NEW a \in Int,
           NEW new, new = [contexts EXCEPT ![slot].x.a0 = a]
    PROVE  /\ new \in [Slots -> Ctxs]
           /\ Answered(new[slot], contexts[slot], a)
           /\ \A s \in Slots : s # slot => new[s] = contexts[s]
PROOF
<1>1. contexts[slot] \in Ctxs
  OBVIOUS
<1>2. contexts[slot].x \in Regs
  BY <1>1 DEF Ctxs
<1>3. PICK r : r = [contexts[slot].x EXCEPT !.a0 = a]
  OBVIOUS
<1>4. /\ r \in Regs /\ r.a0 = a /\ r.sp = contexts[slot].x.sp /\ r.tp = contexts[slot].x.tp
      /\ r.t0 = contexts[slot].x.t0 /\ r.a1 = contexts[slot].x.a1
      /\ r.t5 = contexts[slot].x.t5 /\ r.t6 = contexts[slot].x.t6
  BY <1>2, <1>3 DEF Regs
<1>5. PICK c : c = [contexts[slot] EXCEPT !.x = r]
  OBVIOUS
<1>6. /\ c \in Ctxs /\ c.x = r /\ c.status = contexts[slot].status
      /\ c.sepc = contexts[slot].sepc /\ c.task_id = contexts[slot].task_id
  BY <1>1, <1>4, <1>5 DEF Ctxs
<1>7. new = [contexts EXCEPT ![slot] = c]
  BY <1>3, <1>5
<1>8. Answered(c, contexts[slot], a)
  BY <1>4, <1>6 DEF Answered
<1> QED BY <1>6, <1>7, <1>8

\* The answer to a system call does not change what the task resumes with.
LEMMA AnsweredSaved ==
    ASSUME NEW new, NEW c, NEW a, NEW p, NEW t, Answered(new, c, a), Saved(c, p, t), p.called
    PROVE  Saved(new, p, t)
PROOF BY DEF Answered, Saved, Matches

\* run_next_task, in both layouts and with both outcomes of __switch: the task
\* it picks can be resumed, and the stack it runs on is not handed out yet.
LEMMA RunNext ==
    ASSUME HInv, NEW curr, NEW state \in {"none", "Ready", "Exited", "Killed"},
           NEW contexts \in [Slots -> Ctxs], NEW answer \in Int,
           \/ curr = 0 /\ StartOK /\ answer = -1
           \/ curr = satp /\ RunsOK /\ Quiet /\ x.sp = UCtx(satp),
           OthersIn(contexts, curr),
           curr # 0 /\ state = "Ready" => Saved(contexts[UCtx(curr)], program[curr], curr),
           answer # -1 => program[curr].called = TRUE,
           UNCHANGED <<layout, pages, mem, kbuf, call, program>>,
           pc.at # "user",
           run_next_task(curr, state, contexts, answer)
    PROVE  HInv'
PROOF
<1> DEFINE after == [t \in Tasks |-> IF t # curr THEN tasks[t]
                                     ELSE IF state = "Ready" THEN state ELSE "gone"]
           ready == {t \in Tasks : after[t] = "Ready"}
<1>0. HartTypes /\ MemoryTypes /\ TasksOK /\ mode = "S"
  BY DEF HInv
<1>1. /\ stacks' = [t \in Tasks |-> IF t = curr /\ state # "Ready" THEN "free" ELSE stacks[t]]
      /\ UNCHANGED <<mode, csr, cause>>
  BY DEF run_next_task
<1>2. \/ /\ ready = {}
         /\ tasks' = after
         /\ pc' = Label("off")
         /\ ctx' = contexts
         /\ UNCHANGED <<x, satp, timer>>
      \/ \E next \in ready :
         /\ tasks' = [after EXCEPT ![next] = "Running"]
         /\ timer' = "set"
         /\ x' = [x EXCEPT !.tp = UCtx(next), !.sp = SwitchedSp(curr, next)]
         /\ satp' = next
         /\ ctx' = IF SwitchedSp(curr, next) # UCtx(next) /\ answer # -1
                   THEN [contexts EXCEPT ![UCtx(curr)].x.a0 = answer] ELSE contexts
         /\ pc' = Label("restore_u_ctx")
  BY DEF run_next_task
<1>3. /\ tasks \in [Tasks -> {"Ready", "Running", "gone"}]
      /\ stacks \in [Tasks -> {"owned", "free", "reused"}]
  BY <1>0 DEF MemoryTypes
<1>4. /\ after \in [Tasks -> {"Ready", "gone"}]
      /\ stacks' \in [Tasks -> {"owned", "free", "reused"}]
      /\ \A t \in Tasks : after[t] # "gone" <=> stacks'[t] = "owned"
  <2>1. \A t \in Tasks : t # curr => tasks[t] # "Running"
    BY DEF RunsOK, StartOK
  <2>2. curr \in Tasks => tasks[curr] = "Running"
    BY SlotFacts DEF RunsOK
  <2> QED BY <1>0, <1>1, <1>3, <2>1, <2>2 DEF TasksOK
<1>5. \A t \in Tasks : after[t] = "Ready" => Saved(contexts[UCtx(t)], program[t], t)
  BY <1>0, SlotFacts DEF TasksOK, OthersIn
<1>6. curr = satp => curr \in Tasks \/ StartOK
  BY DEF RunsOK
<1>7. MemoryTypes' <=> tasks' \in [Tasks -> {"Ready", "Running", "gone"}]
  BY <1>0, <1>4 DEF MemoryTypes
<1> HIDE DEF after
<1>8. CASE ready = {} /\ tasks' = after /\ pc' = Label("off") /\ ctx' = contexts
           /\ UNCHANGED <<x, satp, timer>>
  <2>1. curr = satp /\ RunsOK /\ Quiet /\ x.sp = UCtx(satp)
    <3>1. 1 \in Tasks
      BY TrapAssumption DEF Tasks
    <3>2. ~StartOK \/ curr # 0
      <4> SUFFICES ASSUME StartOK, curr = 0 PROVE FALSE
        OBVIOUS
      <4>1. 1 # curr /\ tasks[1] = "Ready"
        BY <3>1 DEF StartOK
      <4>2. after[1] = "Ready"
        BY <3>1, <4>1 DEF after
      <4> QED BY <1>8, <3>1, <4>2
    <3> QED BY <3>2
  <2>2. Label("off") \in Places /\ Label("off").at = "off"
    BY DEF Label, Places, Labels
  <2>3. HartTypes'
    BY <1>0, <1>1, <1>8, <2>2 DEF HartTypes
  <2>4. MemoryTypes'
    BY <1>4, <1>7, <1>8
  <2>5. TasksOK'
    BY <1>4, <1>5, <1>8 DEF TasksOK
  <2>6. StoppedOK'
    <3>1. satp \in Tasks /\ stacks'[satp] # "reused"
      BY <1>0, <1>1, <1>3, <2>1 DEF RunsOK, TasksOK
    <3> QED BY <1>1, <1>8, <2>1, <3>1 DEF StoppedOK, Quiet
  <2>7. pc'.at = "off" /\ mode' = "S"
    BY <1>0, <1>1, <1>8, <2>2
  <2> QED BY <2>3, <2>4, <2>5, <2>6, <2>7 DEF HInv, Copying, Restoring
<1>9. ASSUME NEW next \in ready,
             tasks' = [after EXCEPT ![next] = "Running"],
             timer' = "set",
             x' = [x EXCEPT !.tp = UCtx(next), !.sp = SwitchedSp(curr, next)],
             satp' = next,
             ctx' = IF SwitchedSp(curr, next) # UCtx(next) /\ answer # -1
                    THEN [contexts EXCEPT ![UCtx(curr)].x.a0 = answer] ELSE contexts,
             pc' = Label("restore_u_ctx")
      PROVE  HInv'
  <2>1. next \in Tasks /\ after[next] = "Ready" /\ UCtx(next) \in Int /\ UCtx(next) \in Slots
    BY SlotFacts
  <2>2. Label("restore_u_ctx") \in Places /\ Label("restore_u_ctx").at = "restore_u_ctx"
    BY DEF Label, Places, Labels, Restoring
  <2>3. tasks' \in [Tasks -> {"Ready", "Running", "gone"}]
    BY <1>4, <1>9
  <2>4. RunsOK'
    BY <1>4, <1>9, <2>1 DEF RunsOK
  <2>5. /\ ctx' \in [Slots -> Ctxs]
        /\ \A t \in Tasks : after[t] = "Ready" => Saved(ctx'[UCtx(t)], program[t], t)
    <3>1. CASE ctx' = contexts
      BY <1>5, <3>1
    <3>2. CASE ctx' # contexts
      <4>1. SwitchedSp(curr, next) # UCtx(next) /\ answer # -1
            /\ ctx' = [contexts EXCEPT ![UCtx(curr)].x.a0 = answer]
        BY <1>9, <3>2
      <4>2. curr \in Tasks /\ UCtx(curr) \in Slots
        BY <4>1, SlotFacts DEF RunsOK
      <4>3. PICK new : new = ctx'
        OBVIOUS
      <4>4. /\ ctx' \in [Slots -> Ctxs]
            /\ Answered(ctx'[UCtx(curr)], contexts[UCtx(curr)], answer)
            /\ \A s \in Slots : s # UCtx(curr) => ctx'[s] = contexts[s]
        BY <4>1, <4>2, <4>3, AnswerFacts
      <4>5. ASSUME NEW t \in Tasks, after[t] = "Ready" PROVE Saved(ctx'[UCtx(t)], program[t], t)
        <5>1. CASE t = curr
          BY <1>5, <4>1, <4>4, <4>5, <5>1, AnsweredSaved
        <5>2. CASE t # curr
          <6>1. UCtx(t) # UCtx(curr) /\ UCtx(t) \in Slots
            BY <4>2, <5>2, SlotFacts, SlotsApart
          <6> QED BY <1>5, <4>4, <4>5, <6>1
        <5> QED BY <5>1, <5>2
      <4> QED BY <4>4, <4>5
    <3> QED BY <3>1, <3>2
  <2>6. TasksOK'
    BY <1>4, <1>9, <2>1, <2>5 DEF TasksOK
  <2>7. PICK sp \in Tasks : SwitchedSp(curr, next) = UCtx(sp) /\ stacks'[sp] # "reused"
    <3>1. CASE SwitchedSp(curr, next) = UCtx(next)
      BY <1>4, <2>1, <3>1
    <3>2. CASE SwitchedSp(curr, next) # UCtx(next)
      <4>1. SwitchedSp(curr, next) = UCtx(curr) /\ curr # 0
        BY <3>2 DEF SwitchedSp
      <4>2. curr \in Tasks /\ stacks'[curr] # "reused"
        BY <1>0, <1>1, <1>3, <4>1 DEF RunsOK, TasksOK
      <4> QED BY <4>1, <4>2
    <3> QED BY <3>1, <3>2
  <2>8. x' \in Regs /\ x'.tp = UCtx(next) /\ x'.sp = UCtx(sp)
    <3>1. UCtx(sp) \in Int
      BY SlotFacts
    <3> QED BY <1>0, <1>9, <2>1, <2>7, <3>1 DEF HartTypes, Regs
  <2>9. HartTypes'
    <3>1. next \in 0 .. NumTasks
      BY <2>1, SlotFacts
    <3> QED BY <1>0, <1>1, <1>9, <2>2, <2>5, <2>8, <3>1 DEF HartTypes
  <2>10. csr'.sscratch = 0
    BY <1>1 DEF StartOK, Quiet
  <2>11. RestoreOK'
    BY <1>9, <2>1, <2>2, <2>5, <2>7, <2>8, <2>10 DEF RestoreOK
  <2>12. pc'.at = "restore_u_ctx" /\ mode' = "S"
    BY <1>0, <1>1, <1>9, <2>2
  <2> QED BY <1>7, <2>3, <2>4, <2>6, <2>9, <2>11, <2>12 DEF HInv, Copying, Restoring
<1> QED BY <1>2, <1>8, <1>9

\* The first run_next_task, from the boot stack.
LEMMA StartStep ==
    ASSUME HInv, Start
    PROVE  HInv'
PROOF
<1>1. /\ pc.at = "start" /\ run_next_task(0, "none", ctx, -1)
      /\ UNCHANGED <<layout, pages, mem, kbuf, call, program>>
  BY DEF Start
<1>2. StartOK /\ ctx \in [Slots -> Ctxs] /\ -1 \in Int
  BY <1>1 DEF HInv, HartTypes
<1>3. OthersIn(ctx, 0)
  BY DEF OthersIn
<1> QED BY <1>1, <1>2, <1>3, RunNext

\* exchange_current_task_state finds the current task Running: no panic.
LEMMA LeaveFacts ==
    ASSUME HInv, pc.at = "u_trap_handler", NEW state \in {"Ready", "Exited", "Killed"},
           NEW contexts \in [Slots -> Ctxs], NEW answer \in Int,
           OthersIn(contexts, satp),
           state = "Ready" => Saved(contexts[UCtx(satp)], program[satp], satp),
           answer # -1 => program[satp].called = TRUE,
           UNCHANGED <<layout, pages, mem, kbuf, call, program>>,
           Leave(state, contexts, answer)
    PROVE  HInv' /\ pc'.at \in {"off", "restore_u_ctx"}
PROOF
<1>1. /\ satp \in Tasks /\ RunsOK /\ Quiet /\ x.sp = UCtx(satp) /\ Current = satp
      /\ tasks[satp] = "Running"
  BY DEF HInv, TrapOK, RunsOK, Current
<1>2. run_next_task(satp, state, contexts, answer)
  BY <1>1 DEF Leave
<1>3. HInv'
  <2>1. PICK curr : curr = satp
    OBVIOUS
  <2>2. /\ OthersIn(contexts, curr)
        /\ state = "Ready" => Saved(contexts[UCtx(curr)], program[curr], curr)
        /\ answer # -1 => program[curr].called = TRUE
        /\ run_next_task(curr, state, contexts, answer)
    BY <1>2, <2>1
  <2>3. state \in {"none", "Ready", "Exited", "Killed"} /\ pc.at # "user"
    OBVIOUS
  <2> QED BY <1>1, <2>1, <2>2, <2>3, RunNext
<1>4. pc'.at \in {"off", "restore_u_ctx"}
  <2>1. pc' = Label("off") \/ pc' = Label("restore_u_ctx")
    BY <1>2 DEF run_next_task
  <2> QED BY <2>1 DEF Label
<1> QED BY <1>3, <1>4

\* The pages that do_page_fault draws are not those of a live task's stack.
LEMMA FaultFacts ==
    ASSUME HInv, NEW t, NEW va, NEW need, FaultServed(t, va, need)
    PROVE  /\ stacks' \in [Tasks -> {"owned", "free", "reused"}]
           /\ pages' \in [Tasks -> [0 .. NumPages - 1 -> PageTypes]]
           /\ ctx' \in [Slots -> Ctxs]
           /\ \A s \in Tasks : (stacks'[s] = "owned" <=> stacks[s] = "owned")
           /\ \A s \in Slots : StackOf(s) \in Tasks /\ stacks[StackOf(s)] = "owned" => ctx'[s] = ctx[s]
PROOF
<1>1. PICK taken \in SUBSET {s \in Tasks : stacks[s] = "free"} :
        /\ stacks' = [s \in Tasks |-> IF s \in taken THEN "reused" ELSE stacks[s]]
        /\ ctx' = Reuse(taken, ctx)
  BY DEF FaultServed
<1>2. NoCtx \in Ctxs
  <2>1. 1 \in Tasks
    BY TrapAssumption DEF Tasks
  <2> QED BY <2>1, InitTypes
<1>3. /\ stacks \in [Tasks -> {"owned", "free", "reused"}] /\ ctx \in [Slots -> Ctxs]
      /\ pages \in [Tasks -> [0 .. NumPages - 1 -> PageTypes]]
  BY DEF HInv, HartTypes, MemoryTypes
<1>4. pages' \in [Tasks -> [0 .. NumPages - 1 -> PageTypes]]
  <2> DEFINE p == PageOf(va)
             e == [pages[t][p] EXCEPT !.mapped = TRUE]
             f == [pages[t] EXCEPT ![p] = e]
  <2>1. pages' = [pages EXCEPT ![t] = f]
    BY DEF FaultServed
  <2>2. t \in Tasks /\ p \in 0 .. NumPages - 1 => e \in PageTypes
    <3>1. t \in Tasks /\ p \in 0 .. NumPages - 1 => pages[t][p] \in PageTypes
      BY <1>3
    <3> QED BY <3>1 DEF PageTypes
  <2> HIDE DEF e, p
  <2>3. t \in Tasks => f \in [0 .. NumPages - 1 -> PageTypes]
    <3> SUFFICES ASSUME t \in Tasks PROVE f \in [0 .. NumPages - 1 -> PageTypes]
      OBVIOUS
    <3>1. PICK g \in [0 .. NumPages - 1 -> PageTypes] : g = pages[t]
      BY <1>3
    <3>2. p \in 0 .. NumPages - 1 => e \in PageTypes
      BY <2>2
    <3>3. [g EXCEPT ![p] = e] \in [0 .. NumPages - 1 -> PageTypes]
      BY <3>2
    <3> QED BY <3>1, <3>3
  <2> HIDE DEF f
  <2> QED BY <1>3, <2>1, <2>3
<1> QED BY <1>1, <1>2, <1>3, <1>4 DEF Reuse

\* A fault of the running task leaves every live context alone.
LEMMA FaultKeeps ==
    ASSUME HInv, RunsOK, NEW t, NEW va, NEW need, FaultServed(t, va, need),
           tasks' = tasks, program' = program
    PROVE  /\ TasksOK'
           /\ ctx'[UCtx(satp)] = ctx[UCtx(satp)] /\ ctx'[UCtx(satp) - 2] = ctx[UCtx(satp) - 2]
           /\ stacks'[satp] = "owned"
PROOF
<1>1. \A s \in Tasks : tasks[s] # "gone" <=> stacks[s] = "owned"
  BY DEF HInv, TasksOK
<1>2. \A s \in Tasks : stacks[s] = "owned" =>
        ctx'[UCtx(s)] = ctx[UCtx(s)] /\ ctx'[UCtx(s) - 2] = ctx[UCtx(s) - 2]
  BY FaultFacts, SlotFacts
<1>3. TasksOK'
  BY <1>1, <1>2, FaultFacts DEF HInv, TasksOK
<1> QED BY <1>1, <1>2, <1>3, FaultFacts DEF RunsOK

\* The kernel stops where it is, on the stack of the running task.
LEMMA StopStep ==
    ASSUME HInv, pc.at \in {"u_trap_handler", "copied"},
           NEW why \in {"refused", "trap_panic", "unknown_syscall"}, pc' = Label(why),
           UNCHANGED <<mode, x, csr, satp, cause, ctx, timer, stacks, tasks, program>>,
           MemoryTypes'
    PROVE  HInv' /\ pc'.at = why
PROOF
<1>1. /\ RunsOK /\ HartTypes /\ mode = "S" /\ Quiet /\ x.sp = UCtx(satp)
  BY DEF HInv, TrapOK, CopiedOK
<1>2. pc' \in Places /\ pc'.at = why
  BY DEF Label, Places, Labels
<1>3. HartTypes'
  BY <1>1, <1>2 DEF HartTypes
<1>4. TasksOK' /\ RunsOK'
  BY <1>1 DEF HInv, TasksOK, RunsOK
<1>5. StoppedOK'
  BY <1>1 DEF StoppedOK, Quiet, HInv, TasksOK, RunsOK
<1> QED BY <1>1, <1>2, <1>3, <1>4, <1>5 DEF HInv, Copying, Restoring

\* u_trap_handler for the causes other than an ecall: a switch, the end of the
\* task, a fault that is served and resumes it, or trap_panic.
LEMMA HandlerStep ==
    ASSUME HInv, u_trap_handler
    PROVE  HInv' /\ pc'.at \in {"off", "restore_u_ctx", "trap_panic"}
PROOF
<1>1. /\ pc.at = "u_trap_handler" /\ TrapOK /\ RunsOK /\ satp \in Tasks
      /\ UNCHANGED <<layout, mem, kbuf, call, program>>
      /\ ctx \in [Slots -> Ctxs] /\ -1 \in Int
  BY DEF u_trap_handler, HInv, HartTypes, RunsOK
<1>2. cause.name # "ecall" => Saved(ctx[UCtx(satp)], program[satp], satp)
  BY <1>1 DEF TrapOK, Saved
<1>3. ASSUME NEW state \in {"Ready", "Killed"}, cause.name # "ecall", Leave(state, ctx, -1),
             pages' = pages
      PROVE  HInv' /\ pc'.at \in {"off", "restore_u_ctx"}
  <2>1. OthersIn(ctx, satp)
    BY DEF OthersIn
  <2> QED BY <1>1, <1>2, <1>3, <2>1, LeaveFacts
<1>4. ASSUME cause.name \in {"load", "store"},
             FaultServed(Current, cause.stval, Need), pc' = Label("restore_u_ctx"),
             UNCHANGED <<mode, x, csr, satp, cause, timer, tasks, locked>>
      PROVE  HInv' /\ pc'.at \in {"off", "restore_u_ctx"}
  <2>1. /\ TasksOK' /\ ctx'[UCtx(satp)] = ctx[UCtx(satp)] /\ stacks'[satp] = "owned"
    BY <1>1, <1>4, FaultKeeps
  <2>2. pc' \in Places /\ pc'.at = "restore_u_ctx"
    BY <1>4 DEF Label, Places, Labels, Restoring
  <2>3. HartTypes' /\ MemoryTypes'
    BY <1>1, <1>4, <2>2, FaultFacts DEF HInv, HartTypes, MemoryTypes
  <2>4. RunsOK' /\ mode' = "S"
    BY <1>1, <1>4 DEF HInv, RunsOK
  <2>5. RestoreOK'
    BY <1>1, <1>2, <1>4, <2>1, <2>2 DEF RestoreOK, TrapOK, Quiet
  <2> QED BY <2>1, <2>2, <2>3, <2>4, <2>5 DEF HInv, Copying, Restoring
<1>5. ASSUME Panic("trap_panic"), pages' = pages PROVE HInv' /\ pc'.at = "trap_panic"
  <2>1. MemoryTypes'
    BY <1>1, <1>5 DEF HInv, MemoryTypes, Panic
  <2> QED BY <1>1, <1>5, <2>1, StopStep DEF Panic
<1> QED BY <1>3, <1>4, <1>5 DEF u_trap_handler, UserFault

-----------------------------------------------------------------------------
(* System calls.                                                           *)

\* The context when the ecall has been stepped over.
LEMMA SteppedFacts ==
    ASSUME HInv, pc.at = "u_trap_handler", cause.name = "ecall"
    PROVE  /\ SteppedOver \in [Slots -> Ctxs]
           /\ Saved(SteppedOver[UCtx(satp)], program[satp], satp)
           /\ SteppedOver[UCtx(satp)].status.sie = FALSE
           /\ OthersIn(SteppedOver, satp)
           /\ x.tp = UCtx(satp) /\ satp \in Tasks /\ program[satp].called = TRUE
PROOF
<1> DEFINE u == UCtx(satp)
           c == [ctx[u] EXCEPT !.sepc = User(@.n + 1)]
<1>1. /\ TrapOK /\ satp \in Tasks /\ ctx \in [Slots -> Ctxs] /\ x.tp = u /\ u \in Slots
      /\ program[satp].called = TRUE
  BY SlotFacts DEF HInv, HartTypes, RunsOK, TrapOK
<1>2. SteppedOver = [ctx EXCEPT ![u] = c]
  BY <1>1 DEF SteppedOver
<1>3. ctx[u] \in Ctxs /\ ctx[u].sepc \in Places /\ ctx[u].sepc.n \in Nat
  <2>1. ctx[u] \in Ctxs
    BY <1>1
  <2>2. ctx[u].sepc \in Places
    BY <2>1 DEF Ctxs
  <2> QED BY <2>1, <2>2 DEF Places
<1>4. PICK n \in Nat : n = ctx[u].sepc.n + 1
  BY <1>3
<1>5. n = program[satp].n /\ c = [ctx[u] EXCEPT !.sepc = User(n)]
  BY <1>1, <1>4 DEF TrapOK
<1>6. User(n) \in Places
  BY DEF User, Places, Labels
<1>7. /\ c \in Ctxs /\ c.sepc = User(n) /\ c.x = ctx[u].x /\ c.status = ctx[u].status
      /\ c.task_id = ctx[u].task_id
  BY <1>3, <1>5, <1>6 DEF Ctxs
<1> HIDE DEF c
<1>8. SteppedOver \in [Slots -> Ctxs] /\ SteppedOver[u] = c
  BY <1>1, <1>2, <1>7
<1>9. Saved(c, program[satp], satp) /\ c.status.sie = FALSE
  BY <1>1, <1>5, <1>7 DEF TrapOK, Saved
<1>10. ASSUME NEW t \in Tasks, t # satp PROVE SteppedOver[UCtx(t)] = ctx[UCtx(t)]
  <2>1. UCtx(t) # u /\ UCtx(t) \in Slots
    BY <1>1, <1>10, SlotFacts, SlotsApart
  <2> QED BY <1>1, <1>2, <2>1
<1> QED BY <1>1, <1>8, <1>9, <1>10 DEF OthersIn

\* A system call is answered: the task is resumed with the answer.
LEMMA AnswerStep ==
    ASSUME HInv, RunsOK, NEW contexts \in [Slots -> Ctxs], NEW a \in Int,
           Saved(contexts[UCtx(satp)], program[satp], satp),
           contexts[UCtx(satp)].status.sie = FALSE,
           OthersIn(contexts, satp),
           program[satp].called = TRUE,
           x.tp = UCtx(satp), x.sp = UCtx(satp), Quiet, mode = "S",
           Answer(contexts, a),
           UNCHANGED <<mode, x, csr, satp, cause, timer, stacks, tasks, layout, program>>,
           MemoryTypes'
    PROVE  HInv' /\ ctx'[UCtx(satp)].x.a0 = a /\ pc'.at = "restore_u_ctx"
PROOF
<1> DEFINE u == UCtx(satp)
<1>1. satp \in Tasks /\ u \in Slots
  BY SlotFacts DEF RunsOK
<1>2. ctx' = [contexts EXCEPT ![u].x.a0 = a] /\ pc' = Label("restore_u_ctx")
  BY DEF Answer
<1>3. PICK new : new = ctx'
  OBVIOUS
<1>4. /\ ctx' \in [Slots -> Ctxs]
      /\ Answered(ctx'[u], contexts[u], a)
      /\ \A s \in Slots : s # u => ctx'[s] = contexts[s]
  BY <1>1, <1>2, <1>3, AnswerFacts
<1>5. Saved(ctx'[u], program[satp], satp)
  BY <1>4, AnsweredSaved
<1>6. ASSUME NEW t \in Tasks \ {satp} PROVE ctx'[UCtx(t)] = ctx[UCtx(t)]
  <2>1. UCtx(t) # u /\ UCtx(t) \in Slots
    BY <1>1, <1>6, SlotFacts, SlotsApart
  <2> QED BY <1>4, <2>1 DEF OthersIn
<1>7. TasksOK'
  BY <1>6, OthersKept
<1>8. pc' \in Places /\ pc'.at = "restore_u_ctx"
  BY <1>2 DEF Label, Places, Labels, Restoring
<1>9. HartTypes'
  BY <1>4, <1>8 DEF HInv, HartTypes
<1>10. RunsOK' /\ stacks'[satp] # "reused"
  BY DEF HInv, RunsOK, TasksOK
<1>11. RestoreOK'
  BY <1>1, <1>4, <1>5, <1>8, <1>10 DEF RestoreOK, Quiet, Answered
<1>12. HInv'
  BY <1>7, <1>8, <1>9, <1>10, <1>11 DEF HInv, Copying, Restoring
<1> QED BY <1>4, <1>8, <1>12 DEF Answered

\* copy_from_user and copy_to_user begin.
LEMMA UaccessStep ==
    ASSUME HInv, pc.at = "u_trap_handler", cause.name = "ecall",
           NEW src \in Int, NEW dst \in Int, NEW len \in Int,
           Uaccess(src, dst, len), ctx' = SteppedOver,
           UNCHANGED <<mode, satp, cause, timer, stacks, tasks, program>>,
           MemoryTypes'
    PROVE  /\ HInv' /\ x'.a0 = src /\ x'.a1 = dst /\ x'.t5 = src + len
           /\ pc'.at = IF len = 0 THEN "done" ELSE "lb"
PROOF
<1> DEFINE u == UCtx(satp)
<1>1. /\ satp \in Tasks /\ RunsOK /\ TrapOK /\ HartTypes /\ u \in Int /\ x.tp = u /\ mode = "S"
  BY SlotFacts DEF HInv, RunsOK, TrapOK
<1>2. /\ csr' = [csr EXCEPT !.status.sum = TRUE]
      /\ x' = [x EXCEPT !.sp = u - 1, !.a0 = src, !.a1 = dst, !.t5 = src + len]
      /\ pc' = Label(IF len = 0 THEN "done" ELSE "lb")
  BY <1>1 DEF Uaccess
<1>3. /\ csr' \in [sscratch : Int, sepc : Places, status : Status]
      /\ csr'.sscratch = csr.sscratch /\ csr'.status.sum = TRUE /\ csr'.status.sie = csr.status.sie
  <2> DEFINE st == [csr.status EXCEPT !.sum = TRUE]
  <2>1. csr.status \in Status /\ csr \in [sscratch : Int, sepc : Places, status : Status]
    BY <1>1 DEF HartTypes
  <2>2. st \in Status /\ st.sum = TRUE /\ st.sie = csr.status.sie
    BY <2>1 DEF Status
  <2>3. csr' = [csr EXCEPT !.status = st]
    BY <1>2
  <2> HIDE DEF st
  <2> QED BY <2>1, <2>2, <2>3
<1>4. /\ x' \in Regs /\ x'.sp = u - 1 /\ x'.tp = u
      /\ x'.a0 = src /\ x'.a1 = dst /\ x'.t5 = src + len
  <2>1. PICK e \in Int, f \in Int : e = u - 1 /\ f = src + len
    BY <1>1
  <2>2. x' = [x EXCEPT !.sp = e, !.a0 = src, !.a1 = dst, !.t5 = f]
    BY <1>2, <2>1
  <2> QED BY <1>1, <2>1, <2>2 DEF HartTypes, Regs
<1>5. pc' \in Places /\ pc'.at = (IF len = 0 THEN "done" ELSE "lb") /\ pc'.at \in Copying
  BY <1>2 DEF Label, Places, Labels, Copying
<1>6. HartTypes'
  BY <1>1, <1>3, <1>4, <1>5, SteppedFacts DEF HartTypes
<1>7. TasksOK'
  BY <1>1, SteppedFacts, OthersKept DEF OthersIn
<1>8. RunsOK'
  BY <1>1 DEF RunsOK
<1>9. CopyOK'
  BY <1>1, <1>3, <1>4, SteppedFacts DEF CopyOK, CurrentOK, Quiet, TrapOK
<1> QED BY <1>1, <1>4, <1>5, <1>6, <1>7, <1>8, <1>9 DEF HInv, Copying, Restoring

\* A sequence written as a function.
LEMMA BytesAreSeq ==
    ASSUME NEW n \in Nat, NEW f \in [1 .. n -> Int]
    PROVE  f \in Seq(Int) /\ Len(f) = n
PROOF OBVIOUS

\* sys_write and sys_task_info give the buffer and the record of the call.
LEMMA CallKept ==
    ASSUME NEW c \in CallRecords, NEW b \in Seq(Int), NEW new, new = [c EXCEPT !.before = b]
    PROVE  /\ new \in CallRecords /\ new.before = b
           /\ new.name = c.name /\ new.task = c.task /\ new.addr = c.addr
           /\ new.len = c.len /\ new.aux = c.aux
PROOF BY DEF CallRecords

\* What sys_write and sys_task_info have when the copy begins.
LEMMA BuffersTyped ==
    ASSUME HInv, RunsOK
    PROVE  /\ [i \in 1 .. call.len |-> 0] \in [1 .. call.len -> Int]
           /\ call.len = InfoLen => TaskInfo(call.aux) \in [1 .. call.len -> Int]
           /\ check_u_va_range(call.addr, call.len) =>
                [i \in 1 .. call.len |-> mem[satp][call.addr + i - 1]] \in [1 .. call.len -> Int]
           /\ call.addr \in Nat /\ call.len \in Nat /\ call.aux \in Nat /\ call \in CallRecords
PROOF
<1>1. call \in CallRecords /\ mem \in [Tasks -> [Vas -> Int]] /\ satp \in Tasks
  BY DEF HInv, MemoryTypes, RunsOK
<1>2. call.addr \in Nat /\ call.len \in Nat /\ call.aux \in Nat
  BY <1>1 DEF CallRecords
<1>3. 0 \in Int
  OBVIOUS
<1>4. [i \in 1 .. call.len |-> 0] \in [1 .. call.len -> Int]
  BY <1>3
<1>5. call.len = InfoLen => TaskInfo(call.aux) \in [1 .. call.len -> Int]
  <2>1. \A i \in 1 .. call.len : 100 * call.aux + i \in Int /\ 200 * call.aux + i \in Int
    BY <1>2
  <2> QED BY <2>1 DEF TaskInfo
<1>6. ASSUME check_u_va_range(call.addr, call.len)
      PROVE  [i \in 1 .. call.len |-> mem[satp][call.addr + i - 1]] \in [1 .. call.len -> Int]
  <2>1. \A i \in 1 .. call.len : call.addr + i - 1 \in Vas
    BY <1>2, <1>6, UserEndFacts DEF check_u_va_range
  <2> QED BY <1>1, <2>1
<1> QED BY <1>1, <1>2, <1>4, <1>5, <1>6

\* sys_write answers at once, stops for want of heap, or begins to copy.
LEMMA WriteStep ==
    ASSUME HInv, pc.at = "u_trap_handler", cause.name = "ecall", sys_write,
           UNCHANGED <<mode, cause, layout, pages, mem, program>>
    PROVE  HInv'
PROOF
<1>1. /\ RunsOK /\ TrapOK /\ MemoryTypes /\ HartTypes /\ mode = "S" /\ x.sp = UCtx(satp)
      /\ UNCHANGED <<satp, timer, stacks, tasks, locked>> /\ Quiet
  BY DEF HInv, sys_write, TrapOK
<1>2. -1 \in Int
  OBVIOUS
<1>3. CASE Answer(SteppedOver, -1) /\ UNCHANGED <<csr, x, kbuf, call>>
  <2>1. MemoryTypes'
    BY <1>1, <1>3 DEF MemoryTypes
  <2>2. UNCHANGED <<mode, x, csr, satp, cause, timer, stacks, tasks, layout, program>>
    BY <1>1, <1>3
  <2> QED BY <1>1, <1>2, <1>3, <2>1, <2>2, SteppedFacts, AnswerStep
<1>4. CASE pc' = Label("refused") /\ UNCHANGED <<ctx, csr, x, kbuf, call>>
  <2>1. MemoryTypes'
    BY <1>1, <1>4 DEF MemoryTypes
  <2> QED BY <1>1, <1>4, <2>1, StopStep
<1>5. CASE /\ kbuf' = [i \in 1 .. call.len |-> 0]
           /\ call' = [call EXCEPT !.before = kbuf']
           /\ Uaccess(call.addr, KBUF, call.len)
           /\ ctx' = SteppedOver
  <2>1. call.addr \in Int /\ call.len \in Int /\ KBUF \in Int
    BY <1>1, BuffersTyped, UserEndFacts
  <2>2. kbuf' \in Seq(Int)
    BY <1>1, <1>5, BuffersTyped, BytesAreSeq
  <2>3. PICK new : new = call'
    OBVIOUS
  <2>4. PICK b : b = kbuf'
    OBVIOUS
  <2>5. call' \in CallRecords
    BY <1>1, <1>5, <2>2, <2>3, <2>4, CallKept DEF MemoryTypes
  <2>6. MemoryTypes'
    BY <1>1, <1>5, <2>2, <2>5 DEF MemoryTypes
  <2> QED BY <1>1, <1>5, <2>1, <2>6, UaccessStep
<1> QED BY <1>3, <1>4, <1>5 DEF sys_write

\* sys_task_info answers at once or begins to copy.
LEMMA InfoStep ==
    ASSUME HInv, pc.at = "u_trap_handler", cause.name = "ecall", call \in Calls(satp), sys_task_info,
           UNCHANGED <<mode, cause, layout, pages, mem, program>>
    PROVE  HInv'
PROOF
<1>1. /\ RunsOK /\ TrapOK /\ MemoryTypes /\ HartTypes /\ mode = "S" /\ x.sp = UCtx(satp)
      /\ UNCHANGED <<satp, timer, stacks, tasks>> /\ Quiet /\ call.name = "task_info"
  BY DEF HInv, sys_task_info, TrapOK
<1>2. -1 \in Int /\ call.len = InfoLen
  BY <1>1, CallTypes DEF RunsOK
<1>3. CASE Answer(SteppedOver, -1) /\ UNCHANGED <<csr, x, kbuf, call, locked>>
  <2>1. MemoryTypes'
    BY <1>1, <1>3 DEF MemoryTypes
  <2>2. UNCHANGED <<mode, x, csr, satp, cause, timer, stacks, tasks, layout, program>>
    BY <1>1, <1>3
  <2> QED BY <1>1, <1>2, <1>3, <2>1, <2>2, SteppedFacts, AnswerStep
<1>4. CASE /\ check_u_va_range(call.addr, call.len)
           /\ kbuf' = TaskInfo(call.aux)
           /\ call' = [call EXCEPT !.before = [i \in 1 .. call.len |-> mem[satp][call.addr + i - 1]]]
           /\ Uaccess(KBUF, call.addr, call.len)
           /\ ctx' = SteppedOver
  <2>1. call.addr \in Int /\ call.len \in Int /\ KBUF \in Int
    BY <1>1, BuffersTyped, UserEndFacts
  <2>2. kbuf' \in Seq(Int)
    BY <1>1, <1>2, <1>4, BuffersTyped, BytesAreSeq
  <2>3. PICK new : new = call'
    OBVIOUS
  <2>4. PICK b : b = [i \in 1 .. call.len |-> mem[satp][call.addr + i - 1]]
    OBVIOUS
  <2>5. b \in Seq(Int)
    BY <1>1, <1>4, <2>4, BuffersTyped, BytesAreSeq
  <2>6. call' \in CallRecords
    BY <1>1, <1>4, <2>3, <2>4, <2>5, CallKept DEF MemoryTypes
  <2>7. MemoryTypes'
    BY <1>1, <1>4, <2>2, <2>6 DEF MemoryTypes
  <2> QED BY <1>1, <1>4, <2>1, <2>7, UaccessStep
<1> QED BY <1>3, <1>4 DEF sys_task_info

\* The system calls.
LEMMA SyscallStep ==
    ASSUME HInv, DInv, syscall_handler
    PROVE  HInv'
PROOF
<1>1. /\ pc.at = "u_trap_handler" /\ cause.name = "ecall"
      /\ UNCHANGED <<mode, cause, layout, pages, mem, program>>
  BY DEF syscall_handler
<1>2. call \in Calls(satp)
  BY <1>1 DEF DInv
<1>3. ASSUME NEW state \in {"Ready", "Exited"}, Leave(state, SteppedOver, 0), UNCHANGED <<kbuf, call>>
      PROVE  HInv'
  <2>1. 0 \in Int /\ state \in {"Ready", "Exited", "Killed"}
    OBVIOUS
  <2> QED BY <1>1, <1>3, <2>1, SteppedFacts, LeaveFacts
<1>4. CASE UnknownSyscall
  <2>1. MemoryTypes'
    BY <1>1, <1>4 DEF HInv, MemoryTypes, UnknownSyscall, Panic
  <2> QED BY <1>1, <1>4, <2>1, StopStep DEF UnknownSyscall, Panic
<1> QED BY <1>1, <1>2, <1>3, <1>4, WriteStep, InfoStep DEF syscall_handler, sys_yield, sys_exit

-----------------------------------------------------------------------------
(* The copy.                                                               *)

\* Where the copy is: its registers point into user memory or the buffer.
LEMMA CopyRange ==
    ASSUME HInv, DInv, pc.at \in {"lb", "sb"}
    PROVE  /\ satp \in Tasks /\ call.task = satp /\ call \in CallRecords
           /\ call.addr \in Nat /\ call.len \in Nat /\ Len(kbuf) = call.len /\ kbuf \in Seq(Int)
           /\ x.a0 - Src \in 0 .. call.len - 1
           /\ IF IsWrite THEN x.a0 \in Vas /\ ~(x.a1 < UserEnd) /\ x.a1 - KBUF + 1 \in 1 .. call.len
                         ELSE x.a1 \in Vas /\ ~(x.a0 < UserEnd) /\ x.a0 - KBUF + 1 \in 1 .. call.len
PROOF
<1>1. InCall /\ Progress(x, pc.at) /\ RunsOK /\ MemoryTypes /\ HartTypes
  BY DEF DInv, HInv, Copying
<1>2. call \in CallRecords /\ satp \in Tasks /\ kbuf \in Seq(Int) /\ x \in Regs
  BY <1>1 DEF MemoryTypes, RunsOK, HartTypes
<1>3. call.addr \in Nat /\ call.len \in Nat /\ x.a0 \in Int /\ x.a1 \in Int
  BY <1>2 DEF CallRecords, Regs
<1>4. /\ call.task = satp /\ call.addr + call.len <= UserEnd /\ Len(kbuf) = call.len
  BY <1>1 DEF InCall
<1>5. /\ x.a0 - Src \in 0 .. call.len /\ x.a1 = Dst + (x.a0 - Src) /\ x.a0 - Src < call.len
  BY <1>1 DEF Progress, CopiedTo
<1>6. Src \in Int
  BY <1>3, UserEndFacts DEF Src
<1>7. x.a0 - Src \in 0 .. call.len - 1
  BY <1>3, <1>5, <1>6
<1>8. ASSUME IsWrite
      PROVE  x.a0 \in Vas /\ ~(x.a1 < UserEnd) /\ x.a1 - KBUF + 1 \in 1 .. call.len
  <2>1. Src = call.addr /\ Dst = UserEnd
    BY <1>8, UserEndFacts DEF Src, Dst
  <2>2. PICK k \in 0 .. call.len - 1 : k = x.a0 - Src
    BY <1>7
  <2>3. x.a0 = Src + k /\ x.a1 = Dst + k
    BY <1>3, <1>5, <1>6, <2>2
  <2> QED BY <1>3, <1>4, <2>1, <2>3, UserEndFacts
<1>9. ASSUME ~IsWrite
      PROVE  x.a1 \in Vas /\ ~(x.a0 < UserEnd) /\ x.a0 - KBUF + 1 \in 1 .. call.len
  <2>1. Src = UserEnd /\ Dst = call.addr
    BY <1>9, UserEndFacts DEF Src, Dst
  <2>2. PICK k \in 0 .. call.len - 1 : k = x.a0 - Src
    BY <1>7
  <2>3. x.a0 = Src + k /\ x.a1 = Dst + k
    BY <1>3, <1>5, <1>6, <2>2
  <2> QED BY <1>3, <1>4, <2>1, <2>3, UserEndFacts
<1> QED BY <1>2, <1>3, <1>4, <1>7, <1>8, <1>9

\* A fault of the copy is saved below the frame of the system call, and the
\* context of the task stays as it is.
LEMMA CopyFault ==
    ASSUME HInv, pc.at \in Copying, NEW name, NEW stval \in Int,
           \/ name = "load" /\ pc.at = "lb"
           \/ name = "store" /\ pc.at = "sb",
           stvec(name, stval),
           UNCHANGED <<timer, stacks, tasks, locked, layout, pages, mem, kbuf, call, program>>
    PROVE  /\ HInv' /\ pc'.at = "k_trap_handler" /\ satp' = satp /\ x'.sp = UCtx(satp) - 2
           /\ ctx'[x'.sp].x = x /\ ctx'[x'.sp].sepc = pc /\ cause'.name = name /\ cause'.stval = stval
PROOF
<1> DEFINE u == UCtx(satp)
           k == [x |-> x, status |-> Trapped, sepc |-> pc, task_id |-> 0]
<1>1. /\ satp \in Tasks /\ RunsOK /\ CopyOK /\ HartTypes /\ MemoryTypes /\ mode = "S"
  BY DEF HInv, RunsOK, Copying
<1>2. u \in Slots /\ u - 2 \in Slots /\ u \in Int /\ x.sp = u - 1 /\ x.sp - 1 = u - 2
  BY <1>1, SlotFacts DEF CopyOK
<1>3. /\ mode' = "S" /\ satp' = satp /\ cause' = [name |-> name, stval |-> stval]
      /\ csr' = [sscratch |-> 0, sepc |-> Label("none"), status |-> Trapped]
      /\ ctx' = [ctx EXCEPT ![u - 2] = k]
      /\ x' = [x EXCEPT !.tp = 0, !.sp = u - 2, !.a0 = u - 2]
      /\ pc' = Label("k_trap_handler")
  BY <1>1, <1>2 DEF stvec, save_k_ctx, CopyOK, Quiet
<1>4. /\ Trapped \in Status /\ Trapped.sie = FALSE /\ Trapped.spie = FALSE
      /\ Trapped.spp = "S" /\ Trapped.sum = TRUE
  <2>1. csr.status \in Status
    BY <1>1 DEF HartTypes
  <2> QED BY <1>1, <2>1 DEF Trapped, Status, CopyOK, Quiet
<1>5. /\ k \in Ctxs /\ k.x = x /\ k.status = Trapped /\ k.sepc = pc
  BY <1>1, <1>4, TrapAssumption DEF HartTypes, Ctxs
<1> HIDE DEF k
<1>6. ctx' \in [Slots -> Ctxs] /\ ctx'[u - 2] = k
  BY <1>1, <1>2, <1>3, <1>5 DEF HartTypes
<1>7. \A t \in Tasks : ctx'[UCtx(t)] = ctx[UCtx(t)]
  <2> SUFFICES ASSUME NEW t \in Tasks PROVE ctx'[UCtx(t)] = ctx[UCtx(t)]
    OBVIOUS
  <2>1. UCtx(t) \in Slots /\ UCtx(t) # u - 2
    <3>1. CASE t = satp
      BY <1>2, <3>1
    <3>2. CASE t # satp
      BY <1>1, <3>2, SlotFacts, SlotsApart
    <3> QED BY <3>1, <3>2
  <2> QED BY <1>1, <1>3, <2>1 DEF HartTypes
<1>8. Label("k_trap_handler") \in Places /\ Label("none") \in Places
  BY DEF Label, Places, Labels, Restoring, Copying
<1>9. csr' \in [sscratch : Int, sepc : Places, status : Status]
  BY <1>3, <1>4, <1>8
<1>10. x' \in Regs /\ x'.sp = u - 2
  <2>1. PICK e \in Int : e = u - 2
    BY <1>2
  <2>2. x' = [x EXCEPT !.tp = 0, !.sp = e, !.a0 = e] /\ 0 \in Int
    BY <1>3, <2>1
  <2> QED BY <1>1, <2>1, <2>2 DEF HartTypes, Regs
<1>11. cause' \in Causes /\ cause'.name = name /\ cause'.stval = stval
  BY <1>3 DEF Causes
<1>12. HartTypes'
  BY <1>1, <1>3, <1>6, <1>8, <1>9, <1>10, <1>11 DEF HartTypes
<1>13. MemoryTypes'
  BY <1>1 DEF MemoryTypes
<1>14. TasksOK' /\ RunsOK'
  BY <1>1, <1>3, <1>7 DEF HInv, TasksOK, RunsOK
<1>15. CurrentOK'
  BY <1>1, <1>3, <1>7 DEF CopyOK, CurrentOK
<1>16. pc'.at = "k_trap_handler"
  BY <1>3 DEF Label
<1>17. KTrapOK'
  BY <1>1, <1>2, <1>3, <1>4, <1>5, <1>6, <1>10, <1>11, <1>15 DEF KTrapOK, Quiet, CopyOK, Copying
<1>18. HInv'
  BY <1>3, <1>12, <1>13, <1>14, <1>16, <1>17 DEF HInv, Copying, Restoring
<1> QED BY <1>3, <1>5, <1>6, <1>10, <1>11, <1>16, <1>18

\* A step of the copy that does not fault.
LEMMA CopyGoesOn ==
    ASSUME HInv, pc.at \in Copying, NEW at \in Copying, pc' = Label(at), x' \in Regs,
           x'.sp = x.sp, x'.tp = x.tp,
           UNCHANGED <<mode, csr, satp, cause, ctx, timer, stacks, tasks, program>>,
           MemoryTypes'
    PROVE  HInv' /\ pc'.at = at
PROOF
<1>1. /\ satp \in Tasks /\ RunsOK /\ CopyOK /\ HartTypes /\ mode = "S"
  BY DEF HInv, RunsOK, Copying
<1>2. pc' \in Places /\ pc'.at = at
  BY DEF Label, Places, Labels, Copying
<1>3. HartTypes'
  BY <1>1, <1>2 DEF HartTypes
<1>4. TasksOK' /\ RunsOK'
  BY <1>1 DEF HInv, TasksOK, RunsOK
<1>5. CopyOK'
  BY <1>1 DEF CopyOK, Quiet, CurrentOK
<1> QED BY <1>1, <1>2, <1>3, <1>4, <1>5 DEF HInv, Copying, Restoring

\* __uaccess_lb
LEMMA LoadStep ==
    ASSUME HInv, DInv, LoadByte
    PROVE  HInv'
PROOF
<1>1. /\ pc.at = "lb" /\ pc.at \in Copying
      /\ UNCHANGED <<timer, stacks, tasks, locked, layout, pages, mem, kbuf, call, program>>
  BY DEF LoadByte, InCopy, OnlyHart, Copying
<1>2. x \in Regs /\ x.a0 \in Int /\ MemoryTypes
  BY DEF HInv, HartTypes, Regs
<1>3. CASE /\ x' = [x EXCEPT !.t6 = ByteAt(x.a0)]
           /\ pc' = Label("sb")
           /\ UNCHANGED <<mode, csr, satp, cause, ctx>>
  <2>1. ByteAt(x.a0) \in Int
    <3>1. mem \in [Tasks -> [Vas -> Int]]
      BY <1>2 DEF MemoryTypes
    <3> QED BY <1>1, <3>1, CopyRange, UserEndFacts DEF ByteAt, IsUser
  <2>2. PICK b \in Int : b = ByteAt(x.a0)
    BY <2>1
  <2>3. x' \in Regs /\ x'.sp = x.sp /\ x'.tp = x.tp
    BY <1>2, <1>3, <2>2 DEF Regs
  <2>4. MemoryTypes'
    BY <1>1, <1>2 DEF MemoryTypes
  <2>5. "sb" \in Copying
    BY DEF Copying
  <2> QED BY <1>1, <1>3, <2>3, <2>4, <2>5, CopyGoesOn
<1>4. CASE stvec("load", x.a0)
  BY <1>1, <1>2, <1>4, CopyFault
<1> QED BY <1>3, <1>4 DEF LoadByte

\* __uaccess_sb
LEMMA StoreStep ==
    ASSUME HInv, DInv, StoreByte
    PROVE  HInv'
PROOF
<1>1. /\ pc.at = "sb" /\ pc.at \in Copying
      /\ UNCHANGED <<timer, stacks, tasks, locked, layout, pages, call, program>>
  BY DEF StoreByte, InCopy, Copying
<1>2. x \in Regs /\ x.a0 \in Int /\ x.a1 \in Int /\ x.t6 \in Int /\ MemoryTypes
  BY DEF HInv, HartTypes, Regs
<1>3. CASE /\ IF IsUser(x.a1)
              THEN mem' = [mem EXCEPT ![satp][x.a1] = x.t6] /\ UNCHANGED kbuf
              ELSE kbuf' = [kbuf EXCEPT ![x.a1 - KBUF + 1] = x.t6] /\ UNCHANGED mem
           /\ x' = [x EXCEPT !.a0 = @ + 1, !.a1 = @ + 1]
           /\ pc' = Label(IF x'.a0 >= x.t5 THEN "done" ELSE "lb")
           /\ UNCHANGED <<mode, csr, satp, cause, ctx>>
  <2>1. mem' \in [Tasks -> [Vas -> Int]] /\ kbuf' \in Seq(Int)
    <3>1. mem \in [Tasks -> [Vas -> Int]] /\ kbuf \in Seq(Int)
      BY <1>2 DEF MemoryTypes
    <3>2. CASE IsUser(x.a1)
      <4>1. PICK v : v = [mem[satp] EXCEPT ![x.a1] = x.t6]
        OBVIOUS
      <4>2. satp \in Tasks /\ mem[satp] \in [Vas -> Int]
        BY <1>1, <3>1, CopyRange
      <4>3. v \in [Vas -> Int]
        BY <1>2, <4>1, <4>2
      <4>4. mem' = [mem EXCEPT ![satp] = v]
        BY <1>3, <3>2, <4>1
      <4> QED BY <1>3, <3>1, <3>2, <4>3, <4>4
    <3>3. CASE ~IsUser(x.a1)
      <4>1. PICK n : n = x.a1 - KBUF + 1
        OBVIOUS
      <4>2. kbuf' = [kbuf EXCEPT ![n] = x.t6]
        BY <1>3, <3>3, <4>1
      <4>3. n \in 1 .. Len(kbuf)
        BY <1>1, <3>3, <4>1, CopyRange, UserEndFacts DEF IsUser
      <4>4. kbuf' \in Seq(Int)
        BY <1>2, <3>1, <4>2, <4>3
      <4> QED BY <1>3, <3>1, <3>3, <4>4
    <3> QED BY <3>2, <3>3
  <2>2. x' \in Regs /\ x'.sp = x.sp /\ x'.tp = x.tp
    <3>1. PICK e \in Int, f \in Int : e = x.a0 + 1 /\ f = x.a1 + 1
      BY <1>2
    <3>2. x' = [x EXCEPT !.a0 = e, !.a1 = f]
      BY <1>3, <3>1
    <3> QED BY <1>2, <3>2 DEF Regs
  <2>3. MemoryTypes'
    BY <1>1, <1>2, <2>1 DEF MemoryTypes
  <2>4. (IF x'.a0 >= x.t5 THEN "done" ELSE "lb") \in Copying
    BY DEF Copying
  <2> QED BY <1>1, <1>3, <2>2, <2>3, <2>4, CopyGoesOn
<1>4. CASE stvec("store", x.a1) /\ UNCHANGED <<mem, kbuf>>
  BY <1>1, <1>2, <1>4, CopyFault
<1> QED BY <1>3, <1>4 DEF StoreByte

\* The end of __uaccess: SUM is cleared.
LEMMA DoneStep ==
    ASSUME HInv, CopyDone
    PROVE  HInv' /\ pc'.at = "copied" /\ x'.a0 = x.t5 - x.a0
PROOF
<1>1. /\ pc.at = "done" /\ CopyOK /\ RunsOK /\ HartTypes /\ MemoryTypes /\ mode = "S"
      /\ UNCHANGED <<mode, satp, cause, ctx, timer, call, program>>
      /\ UNCHANGED <<stacks, tasks, locked, layout, pages, mem, kbuf>>
      /\ x' = [x EXCEPT !.a0 = x.t5 - x.a0, !.sp = x.tp]
      /\ csr' = [csr EXCEPT !.status.sum = FALSE]
      /\ pc' = Label("copied")
  BY DEF HInv, CopyDone, set_sum_deny, InCopy, OnlyHart, Copying
<1>2. x \in Regs /\ x.t5 \in Int /\ x.a0 \in Int /\ x.tp \in Int
  BY <1>1 DEF HartTypes, Regs
<1>3. PICK e \in Int : e = x.t5 - x.a0
  BY <1>2
<1>4. x' \in Regs /\ x'.sp = x.tp /\ x'.tp = x.tp /\ x'.a0 = x.t5 - x.a0
  BY <1>1, <1>2, <1>3 DEF Regs
<1>5. /\ csr' \in [sscratch : Int, sepc : Places, status : Status]
      /\ csr'.sscratch = csr.sscratch /\ csr'.status.sum = FALSE /\ csr'.status.sie = csr.status.sie
  <2> DEFINE st == [csr.status EXCEPT !.sum = FALSE]
  <2>1. csr.status \in Status /\ csr \in [sscratch : Int, sepc : Places, status : Status]
    BY <1>1 DEF HartTypes
  <2>2. st \in Status /\ st.sum = FALSE /\ st.sie = csr.status.sie
    BY <2>1 DEF Status
  <2>3. csr' = [csr EXCEPT !.status = st]
    BY <1>1
  <2> HIDE DEF st
  <2> QED BY <2>1, <2>2, <2>3
<1>6. pc' \in Places /\ pc'.at = "copied"
  BY <1>1 DEF Label, Places, Labels
<1>7. HartTypes' /\ MemoryTypes'
  BY <1>1, <1>4, <1>5, <1>6 DEF HartTypes, MemoryTypes
<1>8. TasksOK' /\ RunsOK'
  BY <1>1 DEF HInv, TasksOK, RunsOK
<1>9. CopiedOK'
  BY <1>1, <1>4, <1>5 DEF CopyOK, CopiedOK, CurrentOK, Quiet
<1> QED BY <1>1, <1>4, <1>6, <1>7, <1>8, <1>9 DEF HInv, Copying, Restoring

\* The rest of the system call: an answer, or bytes that are no UTF-8.
LEMMA CopiedStep ==
    ASSUME HInv, Copied
    PROVE  HInv'
PROOF
<1>1. /\ pc.at = "copied" /\ CopiedOK /\ RunsOK /\ HartTypes /\ MemoryTypes /\ mode = "S"
      /\ kbuf' = << >>
      /\ UNCHANGED <<mode, x, csr, satp, cause, timer, stacks, tasks, locked, layout, pages,
                   mem, call, program>>
  BY DEF HInv, Copied, InCopy
<1>2. MemoryTypes'
  BY <1>1 DEF MemoryTypes
<1>3. CASE pc' = Label("refused") /\ UNCHANGED <<ctx, printed>>
  BY <1>1, <1>2, <1>3, StopStep
<1>4. ASSUME NEW a \in Int, Answer(ctx, a) PROVE HInv'
  <2>1. ctx \in [Slots -> Ctxs] /\ OthersIn(ctx, satp)
    BY <1>1 DEF HartTypes, OthersIn
  <2> QED BY <1>1, <1>2, <1>4, <2>1, AnswerStep DEF CopiedOK, CurrentOK
<1>5. (IF x.a0 # 0 THEN -1 ELSE IF call.name = "write" THEN call.len ELSE 0) \in Int
  <2>1. call.len \in Nat
    BY <1>1 DEF MemoryTypes, CallRecords
  <2> QED BY <2>1
<1> QED BY <1>3, <1>4, <1>5 DEF Copied

-----------------------------------------------------------------------------
(* k_trap_handler and the exits.                                           *)

\* k_trap_handler meets only what it expects, and sends the copy on at the
\* byte that faulted or to its end.
LEMMA KHandlerStep ==
    ASSUME HInv, k_trap_handler
    PROVE  /\ HInv' /\ pc'.at = "restore_k_ctx"
           /\ UNCHANGED <<x, satp, cause, mem, kbuf, call, printed, program>>
           /\ \/ /\ FaultServed(satp, cause.stval, Need)
                 /\ ctx'[UCtx(satp) - 2] = ctx[UCtx(satp) - 2]
              \/ /\ UNCHANGED pages
                 /\ ctx'[UCtx(satp) - 2].x = ctx[UCtx(satp) - 2].x
                 /\ ctx'[UCtx(satp) - 2].sepc = Label("done")
PROOF
<1> DEFINE u == UCtx(satp)
           k == ctx[u - 2]
<1>1. /\ pc.at = "k_trap_handler" /\ KTrapOK /\ RunsOK /\ HartTypes /\ MemoryTypes /\ mode = "S"
      /\ satp \in Tasks /\ u \in Slots /\ u - 2 \in Slots /\ u # 0 /\ x.sp = u - 2
      /\ ctx[u].task_id = satp
      /\ UNCHANGED <<layout, mem, kbuf, call, printed, program>>
  BY SlotFacts DEF HInv, k_trap_handler, KTrapOK, RunsOK, CurrentOK, Saved
<1>2. /\ cause.name \in {"load", "store"} /\ k.x.tp = u
      /\ k.sepc.at = IF cause.name = "load" THEN "lb" ELSE "sb"
  BY <1>1 DEF KTrapOK
<1>3. /\ \/ FaultServed(satp, cause.stval, Need)
         \/ ctx' = [ctx EXCEPT ![u - 2].sepc = Fixed] /\ UNCHANGED <<stacks, pages>>
      /\ pc' = Label("restore_k_ctx")
      /\ UNCHANGED <<mode, x, csr, satp, cause, timer, tasks, locked>>
  BY <1>1, <1>2 DEF k_trap_handler
<1>4. pc' \in Places /\ pc'.at = "restore_k_ctx"
  BY <1>3 DEF Label, Places, Labels
<1>5. RunsOK'
  BY <1>1, <1>3 DEF RunsOK
<1>6. CASE FaultServed(satp, cause.stval, Need)
  <2>1. /\ TasksOK' /\ ctx'[u] = ctx[u] /\ ctx'[u - 2] = k
    BY <1>1, <1>3, <1>6, FaultKeeps
  <2>2. HartTypes' /\ MemoryTypes'
    BY <1>1, <1>3, <1>4, <1>6, FaultFacts DEF HartTypes, MemoryTypes
  <2>3. KTrapOK'
    BY <1>1, <1>3, <1>4, <2>1 DEF KTrapOK, Quiet, CurrentOK
  <2> QED BY <1>1, <1>3, <1>4, <1>5, <1>6, <2>1, <2>2, <2>3 DEF HInv, Copying, Restoring
<1>7. CASE ctx' = [ctx EXCEPT ![u - 2].sepc = Fixed] /\ UNCHANGED <<stacks, pages>>
  <2> DEFINE f == [k EXCEPT !.sepc = Fixed]
  <2>1. k \in Ctxs
    BY <1>1 DEF HartTypes
  <2>2. Fixed \in Places /\ Fixed.at = "done" /\ Fixed = Label("done")
    BY DEF Fixed, Label, Places, Labels, Copying
  <2>3. f \in Ctxs /\ f.x = k.x /\ f.status = k.status /\ f.sepc = Fixed
    BY <2>1, <2>2 DEF Ctxs
  <2>4. ctx' = [ctx EXCEPT ![u - 2] = f]
    BY <1>7
  <2> HIDE DEF f
  <2>5. ctx' \in [Slots -> Ctxs] /\ ctx'[u - 2] = f
    BY <1>1, <2>3, <2>4 DEF HartTypes
  <2>6. ASSUME NEW t \in Tasks PROVE ctx'[UCtx(t)] = ctx[UCtx(t)]
    <3>1. UCtx(t) \in Slots /\ UCtx(t) # u - 2
      BY <1>1, SlotFacts, SlotsApart
    <3> QED BY <1>1, <2>4, <3>1 DEF HartTypes
  <2>7. TasksOK'
    BY <1>1, <1>3, <1>7, <2>6 DEF HInv, TasksOK
  <2>8. HartTypes' /\ MemoryTypes'
    BY <1>1, <1>3, <1>4, <1>7, <2>5 DEF HartTypes, MemoryTypes
  <2>9. KTrapOK'
    BY <1>1, <1>3, <1>4, <2>2, <2>3, <2>5, <2>6 DEF KTrapOK, Quiet, CurrentOK, Copying
  <2> QED BY <1>1, <1>3, <1>4, <1>5, <1>7, <2>2, <2>3, <2>5, <2>7, <2>8, <2>9
          DEF HInv, Copying, Restoring
<1> QED BY <1>3, <1>6, <1>7

\* __restore_k_ctx resumes the copy with the registers of the fault.
LEMMA KReturnStep ==
    ASSUME HInv, restore_k_ctx
    PROVE  /\ HInv' /\ pc' = ctx[x.sp].sepc /\ x' = ctx[x.sp].x /\ pc'.at \in Copying
           /\ UNCHANGED <<satp, pages, mem, kbuf, call, printed>>
PROOF
<1> DEFINE u == UCtx(satp)
           k == ctx[u - 2]
<1>1. /\ pc.at = "restore_k_ctx" /\ KTrapOK /\ RunsOK /\ HartTypes /\ MemoryTypes /\ mode = "S"
      /\ satp \in Tasks /\ u \in Slots /\ u - 2 \in Slots /\ x.sp = u - 2
      /\ UNCHANGED <<satp, timer, call, printed, program>>
      /\ UNCHANGED <<stacks, tasks, locked, layout, pages, mem, kbuf>>
  BY SlotFacts DEF HInv, restore_k_ctx, KTrapOK, RunsOK, OnlyHart
<1>2. /\ csr' = [sscratch |-> 0, sepc |-> Label("none"), status |-> Returned(k.status)]
      /\ x' = k.x /\ mode' = k.status.spp /\ pc' = k.sepc
      /\ ctx' = [ctx EXCEPT ![u - 2] = NoCtx] /\ cause' = NoCause
  BY <1>1 DEF restore_k_ctx, KernelScratch
<1>3. k \in Ctxs /\ k.x \in Regs /\ k.status \in Status /\ k.sepc \in Places
  <2>1. k \in Ctxs
    BY <1>1 DEF HartTypes
  <2> QED BY <2>1 DEF Ctxs
<1>4. /\ Returned(k.status) \in Status /\ Returned(k.status).sie = FALSE
      /\ Returned(k.status).sum = TRUE
  BY <1>1, <1>3 DEF Returned, Status, KTrapOK
<1>5. csr' \in [sscratch : Int, sepc : Places, status : Status]
      /\ csr'.sscratch = 0 /\ csr'.status.sie = FALSE /\ csr'.status.sum = TRUE
  <2>1. Label("none") \in Places
    BY DEF Label, Places, Labels
  <2> QED BY <1>2, <1>4, <2>1
<1>6. cause' \in Causes
  BY <1>2 DEF Causes, NoCause
<1>7. ctx' \in [Slots -> Ctxs]
  BY <1>1, <1>2, InitTypes DEF HartTypes
<1>8. ASSUME NEW t \in Tasks PROVE ctx'[UCtx(t)] = ctx[UCtx(t)]
  <2>1. UCtx(t) \in Slots /\ UCtx(t) # u - 2
    BY <1>1, SlotFacts, SlotsApart
  <2> QED BY <1>1, <1>2, <2>1 DEF HartTypes
<1>9. HartTypes' /\ MemoryTypes'
  BY <1>1, <1>2, <1>3, <1>5, <1>6, <1>7 DEF HartTypes, MemoryTypes
<1>10. TasksOK' /\ RunsOK'
  BY <1>1, <1>8 DEF HInv, TasksOK, RunsOK
<1>11. CopyOK'
  BY <1>1, <1>2, <1>5, <1>8 DEF CopyOK, KTrapOK, CurrentOK, Quiet
<1>12. pc'.at \in Copying /\ mode' = "S"
  BY <1>1, <1>2 DEF KTrapOK
<1>13. HInv'
  BY <1>9, <1>10, <1>11, <1>12 DEF HInv, Copying, Restoring
<1> QED BY <1>1, <1>2, <1>12, <1>13

\* A label of __restore_u_ctx.
LEMMA RestoringPlace ==
    ASSUME NEW at \in Restoring
    PROVE  Label(at) \in Places /\ Label(at).at = at
PROOF BY DEF Label, Places, Labels

\* __restore_u_ctx, instruction by instruction: sscratch, sstatus, sepc and the
\* registers are loaded from the context of the task that runs.
LEMMA ReturnSteps ==
    ASSUME HInv, restore_u_ctx
    PROVE  /\ HInv' /\ pc.at \in Restoring \ {"sret"} /\ pc'.at \in Restoring \ {"restore_u_ctx"}
           /\ UNCHANGED <<satp, ctx, pages, mem, call, printed>>
PROOF
<1> DEFINE u == UCtx(satp)
           c == ctx[u]
<1>1. HartTypes /\ MemoryTypes /\ TasksOK
  BY DEF HInv
<1>2. ASSUME NEW at, NEW next \in Restoring, Instruction(at, next), at \in Restoring \ {"sret"},
             x' \in Regs, csr' \in [sscratch : Int, sepc : Places, status : Status],
             RestoreOK'
      PROVE  /\ HInv' /\ pc.at = at /\ pc'.at = next
             /\ UNCHANGED <<satp, ctx, pages, mem, call, printed>>
  <2>1. /\ pc.at = at /\ mode = "S" /\ pc' = Label(next)
        /\ UNCHANGED <<mode, satp, cause, ctx, timer, call, printed, program>>
        /\ UNCHANGED <<stacks, tasks, locked, layout, pages, mem, kbuf>>
    BY <1>2 DEF Instruction, OnlyHart
  <2>2. pc' \in Places /\ pc'.at = next
    BY <2>1, RestoringPlace
  <2>3. HartTypes' /\ MemoryTypes'
    BY <1>1, <1>2, <2>1, <2>2 DEF HartTypes, MemoryTypes
  <2>4. RunsOK
    BY <1>2, <2>1 DEF HInv, Restoring
  <2>5. TasksOK' /\ RunsOK'
    BY <1>1, <2>1, <2>4 DEF TasksOK, RunsOK
  <2> QED BY <1>2, <2>1, <2>2, <2>3, <2>5 DEF HInv, Copying, Restoring
<1>3. ASSUME pc.at \in Restoring
      PROVE  /\ RestoreOK /\ satp \in Tasks /\ u \in Slots /\ u \in Int /\ c \in Ctxs
             /\ c.x \in Regs /\ c.status \in Status /\ c.sepc \in Places /\ x \in Regs /\ x.tp \in Int
             /\ csr \in [sscratch : Int, sepc : Places, status : Status]
  <2>1. RestoreOK /\ satp \in Tasks
    BY <1>3 DEF HInv, RunsOK, Restoring
  <2>2. u \in Slots /\ u \in Int
    BY <2>1, SlotFacts
  <2>3. c \in Ctxs
    BY <1>1, <2>2 DEF HartTypes
  <2> QED BY <1>1, <2>1, <2>2, <2>3 DEF HartTypes, Ctxs, Regs
<1>4. CASE /\ Instruction("restore_u_ctx", "csrw_sstatus")
           /\ csr' = [csr EXCEPT !.sscratch = Scratch]
           /\ UNCHANGED x
  <2>1. /\ pc.at = "restore_u_ctx" /\ pc' = Label("csrw_sstatus") /\ pc.at \in Restoring
        /\ UNCHANGED <<mode, satp, ctx, timer, program, stacks>> /\ "csrw_sstatus" \in Restoring
    BY <1>4 DEF Instruction, OnlyHart, Restoring
  <2>2. pc'.at = "csrw_sstatus"
    BY <2>1, RestoringPlace
  <2>3. x.tp = u
    BY <1>3, <2>1 DEF RestoreOK
  <2>4. /\ csr' \in [sscratch : Int, sepc : Places, status : Status]
        /\ csr'.sscratch = u /\ csr'.status = csr.status
    BY <1>3, <1>4, <2>1, <2>3 DEF Scratch
  <2>5. RestoreOK'
    BY <1>3, <1>4, <2>1, <2>2, <2>3, <2>4 DEF RestoreOK
  <2> QED BY <1>2, <1>3, <1>4, <2>1, <2>4, <2>5 DEF Restoring
<1>5. CASE /\ Instruction("csrw_sstatus", "csrw_sepc")
           /\ csr' = [csr EXCEPT !.status = ctx[x.tp].status]
           /\ UNCHANGED x
  <2>1. /\ pc.at = "csrw_sstatus" /\ pc' = Label("csrw_sepc") /\ pc.at \in Restoring
        /\ UNCHANGED <<mode, satp, ctx, timer, program, stacks>> /\ "csrw_sepc" \in Restoring
    BY <1>5 DEF Instruction, OnlyHart, Restoring
  <2>2. pc'.at = "csrw_sepc"
    BY <2>1, RestoringPlace
  <2>3. x.tp = u
    BY <1>3, <2>1 DEF RestoreOK
  <2>4. /\ csr' \in [sscratch : Int, sepc : Places, status : Status]
        /\ csr'.sscratch = csr.sscratch /\ csr'.status = c.status
    BY <1>3, <1>5, <2>1, <2>3
  <2>5. RestoreOK'
    BY <1>3, <1>5, <2>1, <2>2, <2>3, <2>4 DEF RestoreOK
  <2> QED BY <1>2, <1>3, <1>5, <2>1, <2>4, <2>5 DEF Restoring
<1>6. CASE /\ Instruction("csrw_sepc", "load_xn")
           /\ csr' = [csr EXCEPT !.sepc = ctx[x.tp].sepc]
           /\ UNCHANGED x
  <2>1. /\ pc.at = "csrw_sepc" /\ pc' = Label("load_xn") /\ pc.at \in Restoring
        /\ UNCHANGED <<mode, satp, ctx, timer, program, stacks>> /\ "load_xn" \in Restoring
    BY <1>6 DEF Instruction, OnlyHart, Restoring
  <2>2. pc'.at = "load_xn"
    BY <2>1, RestoringPlace
  <2>3. x.tp = u
    BY <1>3, <2>1 DEF RestoreOK
  <2>4. /\ csr' \in [sscratch : Int, sepc : Places, status : Status]
        /\ csr'.sscratch = csr.sscratch /\ csr'.status = csr.status /\ csr'.sepc = c.sepc
    BY <1>3, <1>6, <2>1, <2>3
  <2>5. RestoreOK'
    BY <1>3, <1>6, <2>1, <2>2, <2>3, <2>4 DEF RestoreOK
  <2> QED BY <1>2, <1>3, <1>6, <2>1, <2>4, <2>5 DEF Restoring
<1>7. CASE /\ Instruction("load_xn", "load_x4")
           /\ x' = [ctx[x.tp].x EXCEPT !.tp = x.tp]
           /\ UNCHANGED csr
  <2>1. /\ pc.at = "load_xn" /\ pc' = Label("load_x4") /\ pc.at \in Restoring
        /\ UNCHANGED <<mode, satp, ctx, timer, program, stacks>> /\ "load_x4" \in Restoring
    BY <1>7 DEF Instruction, OnlyHart, Restoring
  <2>2. pc'.at = "load_x4"
    BY <2>1, RestoringPlace
  <2>3. x.tp = u
    BY <1>3, <2>1 DEF RestoreOK
  <2>4. x' = [c.x EXCEPT !.tp = u]
    BY <1>7, <2>3
  <2>5. x' \in Regs /\ x'.tp = u
    BY <1>3, <2>1, <2>4 DEF Regs
  <2>6. RestoreOK'
    BY <1>3, <1>7, <2>1, <2>2, <2>4, <2>5 DEF RestoreOK
  <2> QED BY <1>2, <1>3, <1>7, <2>1, <2>5, <2>6 DEF Restoring
<1>8. CASE /\ Instruction("load_x4", "sret")
           /\ x' = [x EXCEPT !.tp = ctx[x.tp].x.tp]
           /\ UNCHANGED csr
  <2>1. /\ pc.at = "load_x4" /\ pc' = Label("sret") /\ pc.at \in Restoring
        /\ UNCHANGED <<mode, satp, ctx, timer, program, stacks>> /\ "sret" \in Restoring
    BY <1>8 DEF Instruction, OnlyHart, Restoring
  <2>2. pc'.at = "sret"
    BY <2>1, RestoringPlace
  <2>3. x.tp = u /\ x = [c.x EXCEPT !.tp = u]
    BY <1>3, <2>1 DEF RestoreOK
  <2>4. x' = [x EXCEPT !.tp = c.x.tp]
    BY <1>8, <2>3
  <2>5. x' = c.x
    BY <1>3, <2>1, <2>3, <2>4 DEF Regs
  <2>6. RestoreOK'
    BY <1>3, <1>8, <2>1, <2>2, <2>5 DEF RestoreOK
  <2> QED BY <1>2, <1>3, <1>8, <2>1, <2>5, <2>6 DEF Restoring
<1> QED BY <1>4, <1>5, <1>6, <1>7, <1>8 DEF restore_u_ctx

\* sret resumes the task.
LEMMA SretStep ==
    ASSUME HInv, sret
    PROVE  /\ HInv' /\ pc.at = "sret" /\ pc'.at = "user"
           /\ UNCHANGED <<x, satp, pages, mem, call, printed>>
PROOF
<1> DEFINE c == ctx[UCtx(satp)]
           p == program[satp]
<1>1. /\ pc.at = "sret" /\ RestoreOK /\ RunsOK /\ HartTypes /\ MemoryTypes /\ satp \in Tasks
      /\ UNCHANGED <<x, satp, ctx, call, printed, program>>
      /\ UNCHANGED <<stacks, tasks, locked, layout, pages, mem, kbuf>>
  BY DEF HInv, sret, OnlyHart, RunsOK, Restoring
<1>2. /\ mode' = csr.status.spp /\ pc' = csr.sepc
      /\ csr' = [csr EXCEPT !.status = Returned(@), !.sepc = Label("none")]
      /\ timer' = (IF timer = "set" THEN "running" ELSE timer) /\ cause' = NoCause
  BY DEF sret
<1>3. /\ Saved(c, p, satp) /\ csr.status = c.status /\ csr.sepc = c.sepc /\ x = c.x
      /\ csr.sscratch = UCtx(satp)
  BY <1>1 DEF RestoreOK
<1>4. mode' = "U" /\ pc' = User(p.n) /\ pc'.at = "user" /\ Matches(x, p) /\ c.task_id = satp
  BY <1>2, <1>3 DEF Saved, User
<1>5. /\ csr' \in [sscratch : Int, sepc : Places, status : Status]
      /\ csr'.sscratch = csr.sscratch /\ csr'.status.sum = FALSE
  <2>1. csr.status \in Status /\ csr \in [sscratch : Int, sepc : Places, status : Status]
    BY <1>1 DEF HartTypes
  <2>2. PICK st : st = Returned(csr.status)
    OBVIOUS
  <2>3. st \in Status /\ st.sum = csr.status.sum
    BY <2>1, <2>2 DEF Status, Returned
  <2>4. Label("none") \in Places
    BY DEF Label, Places, Labels
  <2>5. csr' = [csr EXCEPT !.status = st, !.sepc = Label("none")]
    BY <1>2, <2>2
  <2> QED BY <1>3, <2>1, <2>3, <2>4, <2>5 DEF Saved
<1>6. cause' \in Causes
  BY <1>2 DEF Causes, NoCause
<1>7. pc' \in Places
  BY <1>1, <1>2 DEF HartTypes
<1>8. HartTypes' /\ MemoryTypes'
  BY <1>1, <1>2, <1>5, <1>6, <1>7 DEF HartTypes, MemoryTypes
<1>9. TasksOK' /\ RunsOK'
  BY <1>1 DEF HInv, TasksOK, RunsOK
<1>10. UserOK'
  BY <1>1, <1>3, <1>4, <1>5 DEF UserOK
<1>11. HInv'
  BY <1>4, <1>8, <1>9, <1>10 DEF HInv, Copying, Restoring
<1> QED BY <1>1, <1>4, <1>11

\* Every step of the hart keeps its part of the invariant.
LEMMA HStep ==
    ASSUME SliceCoversSwitch, HInv, DInv, [Next]_vars
    PROVE  HInv'
PROOF
<1>1. CASE UserStep
  BY <1>1, UserSteps
<1>2. CASE KernelStep
  BY <1>2, StartStep, HandlerStep, SyscallStep, KHandlerStep, LoadStep, StoreStep, DoneStep,
     CopiedStep, KReturnStep, ReturnSteps, SretStep DEF KernelStep
<1>3. CASE TimerInterrupt
  BY <1>3, TimerStep
<1>4. CASE UNCHANGED vars
  BY <1>4 DEF vars, hart, HInv, HartTypes, MemoryTypes, TasksOK, RunsOK, Quiet, CurrentOK,
     StartOK, UserOK, TrapOK, CopyOK, CopiedOK, KTrapOK, RestoreOK, StoppedOK
<1> QED BY <1>1, <1>2, <1>3, <1>4 DEF Next

-----------------------------------------------------------------------------
(* The bytes, step by step.                                                *)

\* Before the first system call there is none.
LEMMA InitDInv == Init => DInv
PROOF BY DEF Init, DInv, Label, Copying, Restoring

\* What has been copied depends on the buffers and the call only.
LEMMA CopiedKept ==
    ASSUME UNCHANGED <<mem, kbuf, call>>, NEW k, CopiedTo(k)
    PROVE  CopiedTo(k)'
PROOF BY DEF CopiedTo, DstByte, SrcByte, UserByte, IsWrite

\* A task in user mode: its call is over, or it has just made one.
LEMMA UserBytes ==
    ASSUME HInv, DInv, HInv', UserStep \/ TimerInterrupt, SliceCoversSwitch
    PROVE  DInv'
PROOF
<1>1. ASSUME NEW tp, Compute(tp) PROVE DInv'
  <2>1. pc'.at = "user" /\ call' = NoCall
    BY <1>1 DEF Compute, User
  <2> QED BY <2>1 DEF DInv, Copying, Restoring, IsWrite, NoCall
<1>2. ASSUME NEW name, NEW stval, stvec(name, stval), mode = "U", printed' = << >>,
             IF name = "ecall" THEN call' \in Calls(satp) ELSE call' = NoCall
      PROVE  DInv'
  <2>1. csr.sscratch = UCtx(satp) /\ satp \in Tasks
    BY <1>2 DEF HInv, UserOK, RunsOK
  <2>2. csr.sscratch # 0
    BY <2>1, SlotFacts
  <2>3. pc'.at = "u_trap_handler" /\ cause'.name = name /\ satp' = satp
    BY <1>2, <2>2 DEF stvec, save_u_ctx, Label
  <2> QED BY <1>2, <2>3 DEF DInv, Copying, Restoring, Calls
<1>3. ASSUME NEW c \in Calls(satp), Ecall(c) PROVE DInv'
  BY <1>2, <1>3 DEF Ecall, InUser
<1>4. ASSUME NEW va, NEW need \in {"R", "W"}, Fault(va, need) PROVE DInv'
  <2>1. (IF need = "R" THEN "load" ELSE "store") # "ecall"
    OBVIOUS
  <2> QED BY <1>2, <1>4, <2>1 DEF Fault, InUser
<1>5. ASSUME NEW name \in {"illegal", "other"}, Exception(name) PROVE DInv'
  BY <1>2, <1>5 DEF Exception, InUser
<1>6. CASE TimerInterrupt
  <2>1. mode = "U"
    <3>1. timer = "running" /\ pc.at \in Labels
      BY <1>6 DEF TimerInterrupt, SliceOver, HInv, HartTypes, Places
    <3> QED BY <1>6, <3>1 DEF TimerInterrupt, HInv, Labels, Restoring, Copying, StartOK, TrapOK,
               CopyOK, CopiedOK, KTrapOK, RestoreOK, StoppedOK, Quiet
  <2> QED BY <1>2, <1>6, <2>1 DEF TimerInterrupt
<1> QED BY <1>1, <1>3, <1>4, <1>5, <1>6 DEF UserStep

\* Resuming a task that has made no write.
LEMMA NoWriteBytes ==
    ASSUME call.name # "write", call' = call, 
           pc'.at \in {"off", "restore_u_ctx", "trap_panic", "unknown_syscall"}
    PROVE  DInv'
PROOF BY DEF DInv, Copying, Restoring, IsWrite

\* Switches outside system calls.
LEMMA SwitchBytes ==
    ASSUME HInv, DInv, Start \/ u_trap_handler
    PROVE  DInv'
PROOF
<1>1. CASE Start
  <2>1. call.name # "write" /\ call' = call
    BY <1>1 DEF Start, DInv, NoCall
  <2>2. pc' = Label("off") \/ pc' = Label("restore_u_ctx")
    BY <1>1 DEF Start, run_next_task
  <2> QED BY <2>1, <2>2, NoWriteBytes DEF Label
<1>2. CASE u_trap_handler
  <2>1. call.name # "write" /\ call' = call
    BY <1>2 DEF u_trap_handler, DInv, NoCall
  <2> QED BY <1>2, <2>1, HandlerStep, NoWriteBytes
<1> QED BY <1>1, <1>2

\* A copy begins with nothing copied.
LEMMA CopyBegins ==
    ASSUME HInv', satp' \in Tasks, call'.name \in {"write", "task_info"}, call'.task = satp',
           call'.addr \in Nat, call'.len \in Nat,
           call'.addr + call'.len <= UserEnd, Len(kbuf') = call'.len, printed' = << >>,
           x'.a0 = Src', x'.a1 = Dst', x'.t5 = x'.a0 + call'.len,
           \A i \in 1 .. call'.len : DstByte(i)' = call'.before[i],
           pc'.at = IF call'.len = 0 THEN "done" ELSE "lb"
    PROVE  DInv'
PROOF
<1>1. InCall'
  BY DEF InCall
<1>2. Src' \in Int /\ Dst' \in Int
  BY UserEndFacts DEF Src, Dst
<1>3. PICK z : z = x'.a0 - Src'
  OBVIOUS
<1>4. z = 0
  <2>1. PICK s \in Int : s = Src'
    BY <1>2
  <2>2. x'.a0 = s /\ z = x'.a0 - s
    BY <1>3, <2>1
  <2> QED BY <2>2
<1>5. CopiedTo(z)'
  BY <1>4 DEF CopiedTo
<1>6. Progress(x, pc.at)'
  BY <1>2, <1>3, <1>4, <1>5 DEF Progress
<1> QED BY <1>1, <1>6 DEF DInv, Copying, Restoring

\* sys_write and sys_task_info up to the copy, yield and exit.
LEMMA SyscallBytes ==
    ASSUME HInv, DInv, HInv', syscall_handler
    PROVE  DInv'
PROOF
<1>1. /\ pc.at = "u_trap_handler" /\ cause.name = "ecall" /\ mode = "S"
      /\ UNCHANGED <<mode, cause, layout, pages, mem, printed, program>>
      /\ RunsOK /\ MemoryTypes /\ TrapOK /\ satp \in Tasks
  BY DEF syscall_handler, HInv, RunsOK
<1>2. call \in Calls(satp) /\ printed = << >>
  BY <1>1 DEF DInv
<1>3. call \in CallRecords /\ call.task = satp /\ (call.name = "task_info" => call.len = InfoLen)
  BY <1>1, <1>2, CallTypes
<1>4. call.addr \in Nat /\ call.len \in Nat /\ call.aux \in Nat
  BY <1>3 DEF CallRecords
<1>5. CASE sys_write
  <2>0. call.name = "write" /\ UNCHANGED <<satp, timer, stacks, tasks, locked>>
    BY <1>5 DEF sys_write
  <2>1. CASE /\ ~(call.aux = 1 /\ check_u_va_range(call.addr, call.len))
             /\ Answer(SteppedOver, -1)
             /\ UNCHANGED <<csr, x, kbuf, call>>
    <3>1. -1 \in Int /\ MemoryTypes'
      BY <1>1, <2>0, <2>1 DEF HInv
    <3>2. UNCHANGED <<mode, x, csr, satp, cause, timer, stacks, tasks, layout, program>>
      BY <1>1, <2>0, <2>1
    <3>3. x.sp = UCtx(satp) /\ Quiet
      BY <1>1 DEF TrapOK
    <3>4. ctx'[UCtx(satp)].x.a0 = -1 /\ pc'.at = "restore_u_ctx"
      BY <1>1, <2>1, <3>1, <3>2, <3>3, SteppedFacts, AnswerStep
    <3>5. Outcome(-1)'
      BY <1>1, <1>2, <2>0, <2>1 DEF Outcome, check_u_va_range
    <3>6. AnswerOf' = -1
      BY <2>0, <3>4 DEF AnswerOf
    <3>7. Outcome(AnswerOf)'
      BY <3>5, <3>6 DEF Outcome
    <3> QED BY <1>3, <2>0, <2>1, <3>4, <3>7 DEF DInv, Copying, Restoring
  <2>2. CASE pc' = Label("refused")
    BY <2>2 DEF DInv, Copying, Restoring, Label
  <2>3. CASE /\ call.aux = 1 /\ check_u_va_range(call.addr, call.len)
             /\ kbuf' = [i \in 1 .. call.len |-> 0]
             /\ call' = [call EXCEPT !.before = kbuf']
             /\ Uaccess(call.addr, KBUF, call.len)
             /\ ctx' = SteppedOver
    <3>1. call.addr \in Int /\ call.len \in Int /\ KBUF \in Int /\ MemoryTypes'
      BY <1>4, UserEndFacts DEF HInv
    <3>2. /\ x'.a0 = call.addr /\ x'.a1 = KBUF /\ x'.t5 = call.addr + call.len
          /\ pc'.at = IF call.len = 0 THEN "done" ELSE "lb"
      BY <1>1, <2>0, <2>3, <3>1, UaccessStep
    <3>3. PICK b : b = kbuf'
      OBVIOUS
    <3>4. PICK new : new = call'
      OBVIOUS
    <3>5. kbuf' \in Seq(Int) /\ Len(kbuf') = call.len
      BY <1>1, <2>3, BuffersTyped, BytesAreSeq
    <3>6. /\ call'.before = kbuf' /\ call'.name = "write" /\ call'.task = satp
          /\ call'.addr = call.addr /\ call'.len = call.len
      BY <1>3, <2>0, <2>3, <3>3, <3>4, <3>5, CallKept
    <3>7. \A i \in 1 .. call'.len : DstByte(i)' = call'.before[i]
      BY <3>6 DEF DstByte, IsWrite
    <3>8. Src' = call.addr /\ Dst' = KBUF
      BY <3>6 DEF Src, Dst, IsWrite, KBUF
    <3>9. call.addr + call.len <= UserEnd
      BY <2>3 DEF check_u_va_range
    <3> QED BY <1>1, <1>2, <1>4, <2>0, <3>2, <3>5, <3>6, <3>7, <3>8, <3>9, CopyBegins
  <2> QED BY <1>5, <2>1, <2>2, <2>3 DEF sys_write
<1>6. CASE sys_task_info
  <2>0. call.name = "task_info" /\ UNCHANGED <<satp, timer, stacks, tasks>>
    BY <1>6 DEF sys_task_info
  <2>1. CASE Answer(SteppedOver, -1) /\ UNCHANGED <<csr, x, kbuf, call, locked>>
    BY <2>0, <2>1, NoWriteBytes DEF Answer, Label
  <2>2. CASE /\ check_u_va_range(call.addr, call.len)
             /\ kbuf' = TaskInfo(call.aux)
             /\ call' = [call EXCEPT !.before = [i \in 1 .. call.len |-> mem[satp][call.addr + i - 1]]]
             /\ Uaccess(KBUF, call.addr, call.len)
             /\ ctx' = SteppedOver
    <3>1. call.addr \in Int /\ call.len \in Int /\ KBUF \in Int /\ MemoryTypes'
      BY <1>4, UserEndFacts DEF HInv
    <3>2. /\ x'.a0 = KBUF /\ x'.a1 = call.addr /\ x'.t5 = KBUF + call.len
          /\ pc'.at = IF call.len = 0 THEN "done" ELSE "lb"
      BY <1>1, <2>0, <2>2, <3>1, UaccessStep
    <3>3. PICK b : b = [i \in 1 .. call.len |-> mem[satp][call.addr + i - 1]]
      OBVIOUS
    <3>4. PICK new : new = call'
      OBVIOUS
    <3>5. kbuf' \in Seq(Int) /\ Len(kbuf') = call.len
      BY <1>1, <1>3, <2>0, <2>2, BuffersTyped, BytesAreSeq
    <3>6. b \in Seq(Int)
      BY <1>1, <2>2, <3>3, BuffersTyped, BytesAreSeq
    <3>7. /\ call'.before = b /\ call'.name = "task_info" /\ call'.task = satp
          /\ call'.addr = call.addr /\ call'.len = call.len
      BY <1>3, <2>0, <2>2, <3>3, <3>4, <3>6, CallKept
    <3>8. \A i \in 1 .. call'.len : DstByte(i)' = call'.before[i]
      BY <1>1, <3>3, <3>7 DEF DstByte, IsWrite, UserByte
    <3>9. Src' = KBUF /\ Dst' = call.addr
      BY <3>7 DEF Src, Dst, IsWrite, KBUF
    <3>10. call.addr + call.len <= UserEnd
      BY <2>2 DEF check_u_va_range
    <3> QED BY <1>1, <1>2, <1>4, <2>0, <3>2, <3>5, <3>7, <3>8, <3>9, <3>10, CopyBegins
  <2> QED BY <1>6, <2>1, <2>2 DEF sys_task_info
<1>7. ASSUME NEW state \in {"Ready", "Exited"}, Leave(state, SteppedOver, 0), UNCHANGED <<kbuf, call>>,
             call.name # "write"
      PROVE  DInv'
  <2>1. 0 \in Int /\ state \in {"Ready", "Exited", "Killed"}
    OBVIOUS
  <2>2. pc'.at \in {"off", "restore_u_ctx"}
    BY <1>1, <1>7, <2>1, SteppedFacts, LeaveFacts
  <2> QED BY <1>7, <2>2, NoWriteBytes
<1>8. CASE UnknownSyscall
  BY <1>8, NoWriteBytes DEF UnknownSyscall, Panic, Label
<1> QED BY <1>5, <1>6, <1>7, <1>8 DEF syscall_handler, sys_yield, sys_exit

\* The facts of a copy, in numbers: k bytes have been copied.
LEMMA CopyNumbers ==
    ASSUME HInv, DInv, pc.at \in Copying
    PROVE  /\ InCall /\ Src \in Int /\ Dst \in Int /\ call.len \in Nat /\ call.addr \in Nat
           /\ x.a0 \in Int /\ x.a1 \in Int /\ x.t5 \in Int /\ x \in Regs
           /\ \E k \in 0 .. call.len :
                /\ k = x.a0 - Src /\ x.a0 = Src + k /\ x.a1 = Dst + k /\ x.t5 = Src + call.len
                /\ CopiedTo(k)
                /\ pc.at \in {"lb", "sb"} => k < call.len
                /\ pc.at = "sb" => x.t6 = SrcByte(k + 1)
                /\ pc.at = "done" /\ k < call.len => Blocked(k)
PROOF
<1>1. InCall /\ Progress(x, pc.at) /\ MemoryTypes /\ HartTypes
  BY DEF DInv, HInv
<1>2. x \in Regs /\ call \in CallRecords
  BY <1>1 DEF HartTypes, MemoryTypes
<1>3. call.len \in Nat /\ call.addr \in Nat /\ x.a0 \in Int /\ x.a1 \in Int /\ x.t5 \in Int
  BY <1>2 DEF CallRecords, Regs
<1>4. Src \in Int /\ Dst \in Int
  BY <1>3, UserEndFacts DEF Src, Dst
<1>5. PICK k : k = x.a0 - Src
  OBVIOUS
<1>6. /\ CopiedTo(k) /\ x.a1 = Dst + k /\ x.t5 = Src + call.len
      /\ pc.at \in {"lb", "sb"} => k < call.len
      /\ pc.at = "sb" => x.t6 = SrcByte(k + 1)
      /\ pc.at = "done" /\ k < call.len => Blocked(k)
  BY <1>1, <1>5 DEF Progress
<1>7. k \in 0 .. call.len
  BY <1>6 DEF CopiedTo
<1>8. x.a0 = Src + k
  BY <1>3, <1>4, <1>5
<1> QED BY <1>1, <1>2, <1>3, <1>4, <1>5, <1>6, <1>7, <1>8

\* A copy whose call and buffers stay has the same bounds.
LEMMA CallStays ==
    ASSUME InCall, UNCHANGED <<call, satp, printed>>, Len(kbuf') = Len(kbuf)
    PROVE  InCall' /\ Src' = Src /\ Dst' = Dst /\ (IsWrite' <=> IsWrite)
PROOF BY DEF InCall, Src, Dst, IsWrite, KBUF, UserEnd

\* A fault of the copy is at a byte of user memory that cannot be accessed.
LEMMA FaultBytes ==
    ASSUME HInv, DInv, HInv', NEW name, NEW stval, NEW a, NEW need,
           \/ pc.at = "lb" /\ a = x.a0 /\ need = "R" /\ name = "load"
           \/ pc.at = "sb" /\ a = x.a1 /\ need = "W" /\ name = "store",
           ~Reaches(a, need), stvec(name, stval),
           stval \in Int,
           UNCHANGED <<timer, stacks, tasks, locked, layout, pages, mem, kbuf, call, printed, program>>
    PROVE  DInv'
PROOF
<1>0. pc.at \in Copying /\ pc.at \in {"lb", "sb"}
  BY DEF Copying
<1>1. /\ pc'.at = "k_trap_handler" /\ satp' = satp
      /\ ctx'[x'.sp].x = x /\ ctx'[x'.sp].sepc = pc
  BY <1>0, CopyFault
<1>2. PICK k \in 0 .. call.len :
        /\ k = x.a0 - Src /\ x.a0 = Src + k /\ x.a1 = Dst + k /\ x.t5 = Src + call.len
        /\ CopiedTo(k) /\ k < call.len
        /\ pc.at = "sb" => x.t6 = SrcByte(k + 1)
  BY <1>0, CopyNumbers
<1>3. InCall' /\ Src' = Src /\ Dst' = Dst /\ (IsWrite' <=> IsWrite)
  BY <1>0, <1>1, CopyNumbers, CallStays
<1>4. IsUser(a) /\ ~MayAccess(satp, a, need)
  BY <1>0 DEF Reaches, HInv, CopyOK
<1>5. call.task = satp
  BY <1>0, CopyNumbers DEF InCall
<1>6. /\ IsWrite <=> pc.at = "lb"
      /\ a = call.addr + k /\ need = IF IsWrite THEN "R" ELSE "W"
  <2>1. IF IsWrite THEN ~(x.a1 < UserEnd) ELSE ~(x.a0 < UserEnd)
    BY <1>0, CopyRange
  <2>2. IsWrite <=> pc.at = "lb"
    BY <1>4, <2>1 DEF IsUser
  <2> QED BY <1>2, <2>2 DEF Src, Dst
<1>7. Blocked(k)'
  BY <1>1, <1>3, <1>4, <1>5, <1>6 DEF Blocked, MayAccess, PageOf
<1>8. PICK r, at : r = ctx'[x'.sp].x /\ at = ctx'[x'.sp].sepc.at
  OBVIOUS
<1>9. Progress(r, at)'
  <2>1. CopiedTo(k)'
    BY <1>2, CopiedKept
  <2>2. SrcByte(k + 1)' = SrcByte(k + 1)
    BY DEF SrcByte, UserByte, IsWrite
  <2>3. r.a0 - Src' = k
    BY <1>1, <1>2, <1>3, <1>8
  <2>4. at # "done" /\ r = x /\ at = pc.at
    BY <1>0, <1>1, <1>8
  <2>5. /\ r.a1 = Dst' + k /\ r.t5 = Src' + call'.len /\ k < call'.len
        /\ at = "sb" => r.t6 = SrcByte(k + 1)'
    BY <1>2, <1>3, <2>2, <2>4
  <2> QED BY <2>1, <2>3, <2>4, <2>5 DEF Progress
<1>10. Faulted'
  <2>1. Progress(ctx[x.sp].x, ctx[x.sp].sepc.at)'
    BY <1>8, <1>9
  <2>2. ctx'[x'.sp].x.a0 - Src' = k
    BY <1>1, <1>2, <1>3
  <2> QED BY <1>1, <1>3, <1>6, <1>7, <2>1, <2>2 DEF Faulted
<1> QED BY <1>1, <1>3, <1>10 DEF DInv, Copying, Restoring

\* __uaccess_lb loads the next byte of the source.
LEMMA LoadBytes ==
    ASSUME HInv, DInv, HInv', LoadByte
    PROVE  DInv'
PROOF
<1>1. /\ pc.at = "lb" /\ pc.at \in Copying
      /\ UNCHANGED <<timer, stacks, tasks, locked, layout, pages, mem, kbuf, call, printed, program>>
  BY DEF LoadByte, InCopy, OnlyHart, Copying
<1>2. CASE /\ x' = [x EXCEPT !.t6 = ByteAt(x.a0)]
           /\ pc' = Label("sb")
           /\ UNCHANGED <<mode, csr, satp, cause, ctx>>
  <2>1. PICK k \in 0 .. call.len :
          /\ k = x.a0 - Src /\ x.a0 = Src + k /\ x.a1 = Dst + k /\ x.t5 = Src + call.len
          /\ CopiedTo(k) /\ k < call.len
    BY <1>1, CopyNumbers
  <2>2. InCall' /\ Src' = Src /\ Dst' = Dst /\ (IsWrite' <=> IsWrite)
    BY <1>1, <1>2, CopyNumbers, CallStays
  <2>3. ByteAt(x.a0) = SrcByte(k + 1)
    <3>1. CASE IsWrite
      <4>1. x.a0 < UserEnd /\ call.task = satp /\ call.addr \in Nat /\ x.a0 = call.addr + k
        BY <1>1, <2>1, <3>1, CopyRange, UserEndFacts DEF Src
      <4>2. call.addr + (k + 1) - 1 = x.a0
        BY <2>1, <4>1
      <4> QED BY <3>1, <4>1, <4>2 DEF ByteAt, IsUser, SrcByte, UserByte
    <3>2. CASE ~IsWrite
      <4>1. ~(x.a0 < UserEnd) /\ x.a0 = KBUF + k /\ KBUF \in Int
        BY <1>1, <2>1, <3>2, CopyRange, UserEndFacts DEF Src
      <4>2. x.a0 - KBUF + 1 = k + 1
        BY <2>1, <4>1
      <4> QED BY <3>2, <4>1, <4>2 DEF ByteAt, IsUser, SrcByte
    <3> QED BY <3>1, <3>2
  <2>4. SrcByte(k + 1)' = SrcByte(k + 1)
    BY <1>1 DEF SrcByte, UserByte, IsWrite
  <2>5. PICK b : b = ByteAt(x.a0)
    OBVIOUS
  <2>6. x'.a0 = x.a0 /\ x'.a1 = x.a1 /\ x'.t5 = x.t5 /\ x'.t6 = b
    BY <1>1, <1>2, <2>5, CopyNumbers DEF Regs
  <2>7. CopiedTo(k)'
    BY <1>1, <2>1, CopiedKept
  <2>8. pc'.at = "sb"
    BY <1>2 DEF Label
  <2>9. x'.a0 - Src' = k /\ x'.a1 = Dst' + k /\ x'.t5 = Src' + call'.len /\ k < call'.len
    BY <1>1, <2>1, <2>2, <2>6
  <2>10. Progress(x, pc.at)'
    BY <2>3, <2>4, <2>5, <2>6, <2>7, <2>8, <2>9 DEF Progress
  <2> QED BY <2>2, <2>8, <2>10 DEF DInv, Copying, Restoring
<1>3. CASE ~Reaches(x.a0, "R") /\ stvec("load", x.a0)
  <2>1. PICK a : a = x.a0
    OBVIOUS
  <2>2. a \in Int
    BY <1>1, <2>1, CopyNumbers
  <2>3. ~Reaches(a, "R") /\ stvec("load", a)
    BY <1>3, <2>1
  <2> QED BY <1>1, <2>1, <2>2, <2>3, FaultBytes
<1> QED BY <1>2, <1>3 DEF LoadByte

\* __uaccess_sb stores it: one byte more is copied, no other is touched.
LEMMA StoreBytes ==
    ASSUME HInv, DInv, HInv', StoreByte
    PROVE  DInv'
PROOF
<1>1. /\ pc.at = "sb" /\ pc.at \in Copying
      /\ UNCHANGED <<timer, stacks, tasks, locked, layout, pages, call, printed, program>>
  BY DEF StoreByte, InCopy, Copying
<1>2. CASE /\ IF IsUser(x.a1)
              THEN mem' = [mem EXCEPT ![satp][x.a1] = x.t6] /\ UNCHANGED kbuf
              ELSE kbuf' = [kbuf EXCEPT ![x.a1 - KBUF + 1] = x.t6] /\ UNCHANGED mem
           /\ x' = [x EXCEPT !.a0 = @ + 1, !.a1 = @ + 1]
           /\ pc' = Label(IF x'.a0 >= x.t5 THEN "done" ELSE "lb")
           /\ UNCHANGED <<mode, csr, satp, cause, ctx>>
  <2>1. PICK k \in 0 .. call.len :
          /\ k = x.a0 - Src /\ x.a0 = Src + k /\ x.a1 = Dst + k /\ x.t5 = Src + call.len
          /\ CopiedTo(k) /\ k < call.len /\ x.t6 = SrcByte(k + 1)
    BY <1>1, CopyNumbers
  <2>2. /\ satp \in Tasks /\ call.task = satp /\ call.addr \in Nat /\ call.len \in Nat
        /\ Len(kbuf) = call.len /\ kbuf \in Seq(Int) /\ mem \in [Tasks -> [Vas -> Int]]
        /\ call.addr + call.len <= UserEnd
    BY <1>1, CopyRange, CopyNumbers DEF HInv, MemoryTypes, InCall
  <2>0. /\ k \in Int /\ 0 <= k /\ k < call.len /\ call.len \in Int
        /\ x.a1 = Dst + k /\ x.a0 = Src + k /\ x.t5 = Src + call.len
    <3>1. k < call.len
      BY <2>1
    <3>2. x.a1 = Dst + k /\ x.a0 = Src + k /\ x.t5 = Src + call.len
      BY <2>1
    <3>3. k \in Int /\ 0 <= k /\ call.len \in Int
      BY <2>2
    <3> QED BY <3>1, <3>2, <3>3
  <2>3. /\ Len(kbuf') = Len(kbuf)
        /\ \A i \in 1 .. call.len : DstByte(i)' = IF i = k + 1 THEN x.t6 ELSE DstByte(i)
        /\ \A i \in 1 .. call.len : SrcByte(i)' = SrcByte(i)
    <3>1. CASE IsWrite
      <4>1. ~IsUser(x.a1) /\ x.a1 = KBUF + k /\ KBUF \in Int
        BY <1>1, <2>0, <3>1, CopyRange, UserEndFacts DEF Dst, IsUser
      <4>2. PICK n : n = x.a1 - KBUF + 1
        OBVIOUS
      <4>3. n = k + 1 /\ n \in 1 .. Len(kbuf)
        BY <2>0, <2>2, <4>1, <4>2
      <4>4. kbuf' = [kbuf EXCEPT ![n] = x.t6] /\ mem' = mem
        BY <1>2, <4>1, <4>2
      <4>5. Len(kbuf') = Len(kbuf) /\ \A i \in 1 .. Len(kbuf) : kbuf'[i] = IF i = n THEN x.t6 ELSE kbuf[i]
        BY <2>2, <4>3, <4>4
      <4> QED BY <1>1, <2>2, <3>1, <4>3, <4>4, <4>5 DEF DstByte, SrcByte, UserByte, IsWrite
    <3>2. CASE ~IsWrite
      <4>1. IsUser(x.a1) /\ x.a1 = call.addr + k /\ x.a1 \in Vas
        BY <1>1, <2>0, <3>2, CopyRange, UserEndFacts DEF Dst, IsUser
      <4>2. PICK v : v = [mem[satp] EXCEPT ![x.a1] = x.t6]
        OBVIOUS
      <4>3. mem' = [mem EXCEPT ![satp] = v] /\ kbuf' = kbuf
        BY <1>2, <4>1, <4>2
      <4>4. mem'[call.task] = v
        BY <2>2, <4>3
      <4>5. \A va \in Vas : v[va] = IF va = x.a1 THEN x.t6 ELSE mem[satp][va]
        BY <2>2, <4>1, <4>2
      <4>6. ASSUME NEW i \in 1 .. call.len
            PROVE  UserByte(i)' = IF i = k + 1 THEN x.t6 ELSE UserByte(i)
        <5>1. i \in Int /\ 1 <= i /\ i <= call.len
          BY <2>2
        <5>2. call.addr + i - 1 \in Vas
          BY <2>2, <5>1, UserEndFacts, SMTT(20)
        <5>3. call.addr + i - 1 = x.a1 <=> i = k + 1
          BY <2>0, <2>2, <4>1, <5>1
        <5> QED BY <1>1, <2>2, <4>4, <4>5, <5>2, <5>3 DEF UserByte
      <4> QED BY <1>1, <3>2, <4>3, <4>6 DEF DstByte, SrcByte, IsWrite
    <3> QED BY <3>1, <3>2
  <2>4. InCall' /\ Src' = Src /\ Dst' = Dst /\ (IsWrite' <=> IsWrite)
    BY <1>1, <1>2, <2>3, CopyNumbers, CallStays
  <2>5. PICK m \in 0 .. call.len : m = k + 1
    BY <2>1, <2>2
  <2>6. CopiedTo(m)'
    <3>1. ASSUME NEW i \in 1 .. call.len
          PROVE  DstByte(i)' = IF i <= m THEN SrcByte(i)' ELSE call.before[i]
      <4>1. DstByte(i) = IF i <= k THEN SrcByte(i) ELSE call.before[i]
        BY <2>1 DEF CopiedTo
      <4>2. i <= m <=> i <= k \/ i = k + 1
        BY <2>0, <2>5
      <4> QED BY <2>1, <2>3, <4>1, <4>2
    <3> QED BY <1>1, <2>5, <3>1 DEF CopiedTo
  <2>7. PICK e \in Int, f \in Int : e = x.a0 + 1 /\ f = x.a1 + 1
    BY <1>1, CopyNumbers
  <2>8. x'.a0 = e /\ x'.a1 = f /\ x'.t5 = x.t5
    <3>1. x' = [x EXCEPT !.a0 = e, !.a1 = f]
      BY <1>2, <2>7
    <3> QED BY <1>1, <3>1, CopyNumbers DEF Regs
  <2>9. PICK s \in Int, d \in Int : s = Src /\ d = Dst
    BY <1>1, CopyNumbers
  <2>10. e = s + m /\ f = d + m
    BY <2>0, <2>5, <2>7, <2>9
  <2>11. x'.a0 - Src' = m /\ x'.a1 = Dst' + m /\ x'.t5 = Src' + call'.len
    <3>1. e - s = m
      BY <2>10
    <3> QED BY <1>1, <2>1, <2>4, <2>8, <2>9, <2>10, <3>1
  <2>12. pc'.at = IF m >= call.len THEN "done" ELSE "lb"
    <3>1. x'.a0 >= x.t5 <=> m >= call.len
      BY <2>0, <2>5, <2>8, <2>9, <2>10
    <3> QED BY <1>2, <3>1 DEF Label
  <2>13. m >= call.len <=> ~(m < call.len)
    BY <2>2
  <2>14. Progress(x, pc.at)'
    BY <1>1, <2>6, <2>11, <2>12, <2>13 DEF Progress
  <2> QED BY <2>4, <2>12, <2>14 DEF DInv, Copying, Restoring
<1>3. CASE ~Reaches(x.a1, "W") /\ stvec("store", x.a1) /\ UNCHANGED <<mem, kbuf>>
  <2>1. PICK a : a = x.a1
    OBVIOUS
  <2>2. a \in Int
    BY <1>1, <2>1, CopyNumbers
  <2>3. ~Reaches(a, "W") /\ stvec("store", a)
    BY <1>3, <2>1
  <2> QED BY <1>1, <1>3, <2>1, <2>2, <2>3, FaultBytes
<1> QED BY <1>2, <1>3 DEF StoreByte

\* The end of __uaccess returns how many bytes are left.
LEMMA DoneBytes ==
    ASSUME HInv, DInv, HInv', CopyDone
    PROVE  DInv'
PROOF
<1>1. /\ pc.at = "done" /\ pc.at \in Copying
      /\ UNCHANGED <<satp, call, printed, program, pages, mem, kbuf>>
  BY DEF CopyDone, InCopy, OnlyHart, Copying
<1>2. pc'.at = "copied" /\ x'.a0 = x.t5 - x.a0
  BY DoneStep
<1>3. PICK k \in 0 .. call.len :
        /\ k = x.a0 - Src /\ x.a0 = Src + k /\ x.t5 = Src + call.len
        /\ CopiedTo(k) /\ (k < call.len => Blocked(k))
  BY <1>1, CopyNumbers
<1>4. InCall'
  BY <1>1, CopyNumbers, CallStays
<1>5. call.len - x'.a0 = k /\ (x'.a0 # 0 => k < call.len)
  BY <1>1, <1>2, <1>3, CopyNumbers
<1>6. CopiedTo(k)'
  BY <1>1, <1>3, CopiedKept
<1>7. Blocked(k) => Blocked(k)'
  BY <1>1 DEF Blocked, MayAccess, IsWrite
<1>8. CopiedTo(call.len - x.a0)' /\ (x'.a0 # 0 => Blocked(call.len - x.a0)')
  <2>1. PICK n : n = call'.len - x'.a0
    OBVIOUS
  <2>2. n = k
    BY <1>1, <1>5, <2>1
  <2> QED BY <1>3, <1>5, <1>6, <1>7, <2>1, <2>2
<1> QED BY <1>2, <1>4, <1>8 DEF DInv, Copying, Restoring

\* sys_write prints all or nothing.
LEMMA CopiedBytes ==
    ASSUME HInv, DInv, HInv', Copied
    PROVE  DInv'
PROOF
<1>1. /\ pc.at = "copied" /\ InCall /\ CopiedTo(call.len - x.a0)
      /\ x.a0 # 0 => Blocked(call.len - x.a0)
      /\ CopiedOK /\ RunsOK /\ MemoryTypes /\ HartTypes /\ mode = "S" /\ satp \in Tasks
      /\ UNCHANGED <<mode, x, csr, satp, cause, timer, stacks, tasks, locked, layout, pages,
                   mem, call, program>>
  BY DEF Copied, InCopy, DInv, HInv, RunsOK
<1>2. call.len \in Nat /\ call.addr \in Nat /\ x.a0 \in Int /\ kbuf \in Seq(Int) /\ Len(kbuf) = call.len
  BY <1>1 DEF MemoryTypes, HartTypes, CallRecords, Regs, InCall
<1>3. CASE pc' = Label("refused")
  BY <1>3 DEF DInv, Copying, Restoring, Label
<1>4. CASE ~IsWrite /\ pc' = Label("restore_u_ctx")
  BY <1>1, <1>4, NoWriteBytes DEF Label, IsWrite
<1>5. CASE /\ IsWrite
           /\ Answer(ctx, IF x.a0 # 0 THEN -1 ELSE IF call.name = "write" THEN call.len ELSE 0)
           /\ printed' = Printed
  <2>1. PICK a \in Int : a = IF x.a0 # 0 THEN -1 ELSE call.len
    BY <1>2
  <2>2. Answer(ctx, a)
    BY <1>5, <2>1 DEF IsWrite
  <2>3. ctx \in [Slots -> Ctxs] /\ OthersIn(ctx, satp) /\ MemoryTypes'
    BY <1>1 DEF HartTypes, OthersIn, HInv
  <2>4. ctx'[UCtx(satp)].x.a0 = a /\ pc'.at = "restore_u_ctx"
    BY <1>1, <2>2, <2>3, AnswerStep DEF CopiedOK, CurrentOK
  <2>5. Outcome(a)'
    <3>1. CASE x.a0 = 0
      <4>1. PICK n : n = call.len - x.a0
        OBVIOUS
      <4>2. n = call.len /\ CopiedTo(n)
        BY <1>1, <1>2, <3>1, <4>1
      <4>3. \A i \in 1 .. call.len : kbuf[i] = UserByte(i)
        BY <1>5, <4>2 DEF CopiedTo, DstByte, SrcByte
      <4>4. kbuf = [i \in 1 .. call.len |-> UserByte(i)]
        BY <1>2, <4>3
      <4>5. printed' = kbuf /\ a = call.len
        BY <1>5, <2>1, <3>1 DEF Printed, IsWrite
      <4>6. [i \in 1 .. call.len |-> UserByte(i)]' = [i \in 1 .. call.len |-> UserByte(i)]
        BY <1>1 DEF UserByte
      <4> QED BY <1>1, <4>4, <4>5, <4>6 DEF Outcome
    <3>2. CASE x.a0 # 0
      <4>1. PICK n : n = call.len - x.a0
        OBVIOUS
      <4>2. n \in 0 .. call.len /\ Blocked(n)
        BY <1>1, <3>2, <4>1 DEF CopiedTo
      <4>3. n \in 0 .. call.len - 1
        BY <1>2, <3>2, <4>1, <4>2
      <4>4. ~MayAccess(call.task, call.addr + n, "R")'
        BY <1>1, <1>5, <4>2 DEF Blocked, MayAccess
      <4>5. printed' = << >> /\ a = -1
        BY <1>5, <2>1, <3>2 DEF Printed
      <4> QED BY <1>1, <4>3, <4>4, <4>5 DEF Outcome
    <3> QED BY <3>1, <3>2
  <2>6. AnswerOf' = a
    BY <1>1, <2>4 DEF AnswerOf
  <2>7. Outcome(AnswerOf)'
    BY <2>5, <2>6 DEF Outcome
  <2> QED BY <1>1, <2>4, <2>7 DEF DInv, Copying, Restoring, InCall
<1> QED BY <1>3, <1>4, <1>5 DEF Copied, Answer, IsWrite

\* A fault that is served, or repaired, loses no byte.
LEMMA KHandlerBytes ==
    ASSUME HInv, DInv, HInv', k_trap_handler
    PROVE  DInv'
PROOF
<1> DEFINE k == ctx[UCtx(satp) - 2]
<1>1. /\ pc.at = "k_trap_handler" /\ InCall /\ Faulted /\ KTrapOK /\ x.sp = UCtx(satp) - 2
  BY DEF k_trap_handler, DInv, HInv, KTrapOK
<1>2. /\ pc'.at = "restore_k_ctx"
      /\ UNCHANGED <<x, satp, cause, mem, kbuf, call, printed, program>>
      /\ ctx'[UCtx(satp) - 2].x = k.x
      /\ \/ ctx'[UCtx(satp) - 2].sepc = k.sepc
         \/ pages' = pages /\ ctx'[UCtx(satp) - 2].sepc = Label("done")
  BY KHandlerStep
<1>3. InCall' /\ Src' = Src /\ Dst' = Dst /\ (IsWrite' <=> IsWrite)
  BY <1>1, <1>2, CallStays
<1>4. /\ Progress(k.x, k.sepc.at) /\ Blocked(k.x.a0 - Src) /\ k.sepc.at \in {"lb", "sb"}
  BY <1>1 DEF Faulted, KTrapOK
<1>5. PICK m : m = k.x.a0 - Src
  OBVIOUS
<1>6. /\ CopiedTo(m) /\ k.x.a1 = Dst + m /\ k.x.t5 = Src + call.len /\ m < call.len
      /\ k.sepc.at = "sb" => k.x.t6 = SrcByte(m + 1)
  BY <1>4, <1>5 DEF Progress
<1>7. CopiedTo(m)' /\ SrcByte(m + 1)' = SrcByte(m + 1)
  BY <1>2, <1>6, CopiedKept DEF SrcByte, UserByte, IsWrite
<1>8. PICK r, at : r = ctx'[x'.sp].x /\ at = ctx'[x'.sp].sepc.at
  OBVIOUS
<1>9. r = k.x /\ r.a0 - Src' = m /\ r.a1 = Dst' + m /\ r.t5 = Src' + call'.len
  BY <1>1, <1>2, <1>3, <1>5, <1>6, <1>8
<1>10. \/ at = k.sepc.at
       \/ at = "done" /\ Blocked(m)'
  <2>1. pages' = pages => (Blocked(m) => Blocked(m)')
    BY <1>2 DEF Blocked, MayAccess, IsWrite
  <2>2. Label("done").at = "done"
    BY DEF Label
  <2> QED BY <1>1, <1>2, <1>4, <1>5, <1>8, <2>1, <2>2
<1>11. Progress(r, at)'
  BY <1>2, <1>4, <1>6, <1>7, <1>9, <1>10 DEF Progress
<1>12. Faulted'
  BY <1>2, <1>8, <1>11 DEF Faulted
<1> QED BY <1>2, <1>3, <1>12 DEF DInv, Copying, Restoring

\* The copy goes on with the registers it had.
LEMMA KReturnBytes ==
    ASSUME HInv, DInv, HInv', restore_k_ctx
    PROVE  DInv'
PROOF
<1>1. /\ pc.at = "restore_k_ctx" /\ InCall /\ Faulted
  BY DEF restore_k_ctx, DInv
<1>2. /\ pc' = ctx[x.sp].sepc /\ x' = ctx[x.sp].x /\ pc'.at \in Copying
      /\ UNCHANGED <<satp, pages, mem, kbuf, call, printed>>
  BY KReturnStep
<1>3. InCall' /\ Src' = Src /\ Dst' = Dst
  BY <1>1, <1>2, CallStays
<1>4. PICK r, at : r = x' /\ at = pc'.at
  OBVIOUS
<1>5. Progress(r, at)
  BY <1>1, <1>2, <1>4 DEF Faulted
<1>6. PICK m : m = r.a0 - Src
  OBVIOUS
<1>7. CopiedTo(m)' /\ SrcByte(m + 1)' = SrcByte(m + 1) /\ (Blocked(m) => Blocked(m)')
  BY <1>2, <1>5, <1>6, CopiedKept DEF Progress, SrcByte, UserByte, IsWrite, Blocked, MayAccess
<1>8. Progress(r, at)'
  BY <1>2, <1>3, <1>5, <1>6, <1>7 DEF Progress
<1>9. Progress(x, pc.at)'
  BY <1>4, <1>8
<1> QED BY <1>2, <1>3, <1>9 DEF DInv, Copying, Restoring

\* The way out keeps the answer.
LEMMA ReturnBytes ==
    ASSUME HInv, DInv, HInv', restore_u_ctx \/ sret
    PROVE  DInv'
PROOF
<1>1. /\ UNCHANGED <<satp, pages, mem, call, printed>>
      /\ pc.at \in Restoring /\ pc'.at \in (Restoring \cup {"user"}) \ {"restore_u_ctx"}
  BY ReturnSteps, SretStep DEF Restoring
<1>2. IsWrite => call.task = satp /\ Outcome(AnswerOf)
  BY <1>1 DEF DInv
<1>3. AnswerOf' = AnswerOf
  <2> DEFINE c == ctx[UCtx(satp)]
  <2>1. RestoreOK /\ c.x \in Regs
    <3>1. RestoreOK /\ satp \in Tasks /\ ctx \in [Slots -> Ctxs]
      BY <1>1 DEF HInv, HartTypes, RunsOK, Restoring
    <3>2. c \in Ctxs
      BY <3>1, SlotFacts
    <3> QED BY <3>1, <3>2 DEF Ctxs
  <2>2. AnswerOf = c.x.a0
    <3>1. CASE pc.at = "load_x4"
      <4>1. x = [c.x EXCEPT !.tp = UCtx(satp)]
        BY <2>1, <3>1 DEF RestoreOK
      <4> QED BY <2>1, <3>1, <4>1 DEF AnswerOf, Regs
    <3>2. CASE pc.at = "sret"
      BY <2>1, <3>2 DEF AnswerOf, RestoreOK
    <3>3. CASE pc.at \notin {"load_x4", "sret"}
      BY <1>1, <3>3 DEF AnswerOf, Restoring
    <3> QED BY <3>1, <3>2, <3>3
  <2>3. CASE restore_u_ctx
    <3>1. ctx' = ctx /\ pc'.at \in Restoring
      BY <2>3, ReturnSteps
    <3>2. RestoreOK'
      BY <3>1 DEF HInv, Restoring
    <3>3. CASE pc'.at = "load_x4"
      <4>1. x' = [c.x EXCEPT !.tp = UCtx(satp)]
        BY <1>1, <3>1, <3>2, <3>3 DEF RestoreOK
      <4>2. x'.a0 = c.x.a0
        BY <2>1, <4>1 DEF Regs
      <4> QED BY <2>2, <3>3, <4>2 DEF AnswerOf
    <3>4. CASE pc'.at = "sret"
      BY <1>1, <2>2, <3>1, <3>2, <3>4 DEF AnswerOf, RestoreOK
    <3>5. CASE pc'.at \notin {"load_x4", "sret"}
      BY <1>1, <2>2, <3>1, <3>5 DEF AnswerOf, Restoring
    <3> QED BY <3>3, <3>4, <3>5
  <2>4. CASE sret
    BY <2>4, SretStep DEF AnswerOf
  <2> QED BY <2>3, <2>4
<1>4. IsWrite' => call'.task = satp' /\ Outcome(AnswerOf)'
  <2>1. PICK a : a = AnswerOf
    OBVIOUS
  <2>2. Outcome(a) => Outcome(a)'
    BY <1>1 DEF Outcome, UserByte, MayAccess, check_u_va_range
  <2>3. Outcome(AnswerOf) => Outcome(a)
    BY <2>1
  <2>4. Outcome(a)' => Outcome(AnswerOf)'
    BY <1>3, <2>1 DEF Outcome
  <2> QED BY <1>1, <1>2, <2>2, <2>3, <2>4 DEF IsWrite
<1> QED BY <1>1, <1>4 DEF DInv, Copying, Restoring

\* Every step keeps the part of the invariant about the bytes.
LEMMA DStep ==
    ASSUME SliceCoversSwitch, HInv, DInv, HInv', [Next]_vars
    PROVE  DInv'
PROOF
<1>1. CASE UserStep \/ TimerInterrupt
  BY <1>1, UserBytes
<1>2. CASE KernelStep
  BY <1>2, SwitchBytes, SyscallBytes, KHandlerBytes, LoadBytes, StoreBytes, DoneBytes,
     CopiedBytes, KReturnBytes, ReturnBytes DEF KernelStep
<1>3. CASE UNCHANGED vars
  <2>1. UNCHANGED <<pc, mode, x, csr, satp, cause, ctx, pages, mem, kbuf, call, printed>>
    BY <1>3 DEF vars, hart
  <2>2. InCall => InCall'
    BY <2>1 DEF InCall
  <2>3. \A k : (CopiedTo(k) => CopiedTo(k)') /\ (Blocked(k) => Blocked(k)')
    BY <2>1 DEF CopiedTo, DstByte, SrcByte, UserByte, IsWrite, Blocked, MayAccess
  <2>4. \A r, at : Progress(r, at) => Progress(r, at)'
    BY <2>1, <2>3 DEF Progress, Src, Dst, SrcByte, UserByte, IsWrite
  <2>5. Faulted => Faulted'
    BY <2>1, <2>3, <2>4 DEF Faulted, Src, IsWrite
  <2>6. Outcome(AnswerOf) => Outcome(AnswerOf)'
    BY <2>1 DEF Outcome, AnswerOf, UserByte, MayAccess, check_u_va_range
  <2>7. Progress(x, pc.at) => Progress(x, pc.at)'
    BY <2>1, <2>4
  <2>8. /\ CopiedTo(call.len - x.a0) => CopiedTo(call.len - x.a0)'
        /\ Blocked(call.len - x.a0) => Blocked(call.len - x.a0)'
    BY <2>1, <2>3
  <2> QED BY <2>1, <2>2, <2>5, <2>6, <2>7, <2>8 DEF DInv, Calls, IsWrite
<1> QED BY <1>1, <1>2, <1>3 DEF Next

-----------------------------------------------------------------------------
(* The theorems.                                                           *)

\* The inductive invariant of the trap path, where a time slice outlasts the
\* switch that sets it.
THEOREM TrapInvariance == SliceCoversSwitch /\ Spec => [](HInv /\ DInv)
PROOF
<1>1. Init => HInv /\ DInv
  BY InitHInv, InitDInv
<1>2. SliceCoversSwitch /\ (HInv /\ DInv) /\ [Next]_vars => (HInv /\ DInv)'
  BY HStep, DStep
<1>3. SliceCoversSwitch => [](SliceCoversSwitch)
  OBVIOUS
<1> QED BY <1>1, <1>2, <1>3, PTL DEF Spec

\* Types, and user code in user mode only.
THEOREM TrapTypeCorrect == SliceCoversSwitch /\ Spec => []TypeOK
PROOF
<1>1. HInv => TypeOK
  <2> SUFFICES ASSUME HInv PROVE TypeOK
    OBVIOUS
  <2>1. HartTypes /\ MemoryTypes
    BY DEF HInv
  <2>2. csr.sscratch \in {0} \cup {UCtx(t) : t \in Tasks}
    <3>1. pc.at \in Labels
      BY <2>1 DEF HartTypes, Places
    <3> QED BY <3>1 DEF HInv, RunsOK, Labels, Restoring, Copying, StartOK, UserOK, TrapOK, CopyOK, CopiedOK,
               KTrapOK, RestoreOK, StoppedOK, Quiet
  <2>3. pc.at = "user" => mode = "U" /\ pc.n \in 0 .. MaxPc[satp]
    <3> SUFFICES ASSUME pc.at = "user" PROVE mode = "U" /\ pc.n \in 0 .. MaxPc[satp]
      OBVIOUS
    <3>1. mode = "U" /\ UserOK /\ satp \in Tasks
      BY DEF HInv, RunsOK
    <3>2. pc.n = program[satp].n
      BY <3>1 DEF UserOK, User
    <3>3. program[satp] \in Progs /\ program[satp].n <= MaxPc[satp] /\ MaxPc[satp] \in Nat
      BY <2>1, <3>1, TrapAssumption DEF MemoryTypes
    <3>4. program[satp].n \in Nat
      BY <3>3 DEF Progs
    <3> QED BY <3>1, <3>2, <3>3, <3>4
  <2>4. DOMAIN ctx = Slots /\ mode \in {"U", "S"}
    BY <2>1 DEF HartTypes, HInv
  <2> QED BY <2>1, <2>2, <2>3, <2>4 DEF TypeOK, HartTypes, MemoryTypes
<1> QED BY <1>1, TrapInvariance, PTL

\* __stvec tells traps of the kernel from traps of user code.
THEOREM HandlersMatch == SliceCoversSwitch /\ Spec => []HandlerMatchesMode
PROOF
<1>1. HInv => HandlerMatchesMode
  BY DEF HInv, HandlerMatchesMode, TrapOK, KTrapOK
<1> QED BY <1>1, TrapInvariance, PTL

\* A task always finds its pc, its registers and its page tables again.
THEOREM TasksResume == SliceCoversSwitch /\ Spec => []ResumesExactly
PROOF
<1>1. HInv => ResumesExactly
  <2> SUFFICES ASSUME HInv, mode = "U" PROVE ResumesExactly
    BY DEF ResumesExactly
  <2>1. UserOK /\ RunsOK
    BY DEF HInv
  <2>2. DOMAIN ZeroX = {"sp", "tp", "t0", "a0", "a1", "t5", "t6"}
    BY DEF ZeroX
  <2> QED BY <2>1, <2>2 DEF ResumesExactly, UserOK, Matches, RunsOK
<1> QED BY <1>1, TrapInvariance, PTL

\* Where the hart may be while the way into user memory is open.
Open == Copying \cup {"k_trap_handler", "restore_k_ctx"}

\* A step that leaves the copy finds SUM closed and leaves it alone, or ends where
\* the invariant of the hart says that it is closed.
LEMMA SumStep ==
    ASSUME HInv, HInv', SumOnlyInCopy, [Next]_vars
    PROVE  SumOnlyInCopy'
PROOF
<1>1. pc'.at \in Labels /\ pc'.at \notin {"none", "panic"}
  BY DEF HInv, HartTypes, Places
<1>2. CASE pc'.at \in Open
  BY <1>2 DEF SumOnlyInCopy, Open, Copying
<1>3. CASE pc'.at \in {"user", "u_trap_handler", "copied"}
  BY <1>3 DEF HInv, SumOnlyInCopy, UserOK, TrapOK, CopiedOK
<1>4. CASE pc'.at \in Restoring \ {"restore_u_ctx", "csrw_sstatus"}
  BY <1>4 DEF HInv, SumOnlyInCopy, RestoreOK, Saved, Restoring
<1>5. CASE pc'.at \in {"start", "off", "refused", "restore_u_ctx", "csrw_sstatus", "trap_panic",
                       "unknown_syscall"}
  <2>0. SUFFICES csr'.status = csr.status /\ pc.at \notin Open
    BY DEF SumOnlyInCopy, Open, Copying
  <2>1. CASE UserStep \/ TimerInterrupt
    <3>1. pc'.at \in {"user", "u_trap_handler", "k_trap_handler"}
      BY <2>1 DEF UserStep, Compute, Ecall, Fault, Exception, TimerInterrupt, stvec, save_u_ctx,
         save_k_ctx, Label, User
    <3> QED BY <1>5, <3>1
  <2>2. CASE Start
    BY <2>2 DEF Start, run_next_task, Open, Copying
  <2>3. CASE u_trap_handler
    BY <2>3 DEF u_trap_handler, Leave, run_next_task, Panic, Open, Copying
  <2>4. CASE syscall_handler
    <3>1. pc.at = "u_trap_handler"
      BY <2>4 DEF syscall_handler
    <3>2. CASE \E src, dst, len : Uaccess(src, dst, len)
      <4>1. pc'.at \in {"lb", "done"}
        BY <3>2 DEF Uaccess, Label
      <4> QED BY <1>5, <4>1
    <3>3. CASE ~\E src, dst, len : Uaccess(src, dst, len)
      BY <2>4, <3>1, <3>3 DEF syscall_handler, sys_write, sys_task_info, sys_yield, sys_exit,
         UnknownSyscall, Leave, run_next_task, Panic, Open, Copying
    <3> QED BY <3>2, <3>3
  <2>5. CASE k_trap_handler \/ restore_k_ctx
    BY <1>5, <2>5, KHandlerStep, KReturnStep DEF Copying
  <2>6. CASE LoadByte \/ StoreByte \/ CopyDone
    BY <1>5, <2>6 DEF LoadByte, StoreByte, CopyDone, stvec, save_u_ctx, save_k_ctx, Label
  <2>7. CASE Copied
    BY <2>7 DEF Copied, InCopy, Open, Copying
  <2>8. CASE restore_u_ctx
    BY <1>5, <2>8 DEF restore_u_ctx, Instruction, Label, Open, Copying, HInv, HartTypes
  <2>9. CASE sret
    <3>1. pc'.at = "user"
      BY <2>9 DEF sret, HInv, RestoreOK, Saved, User, Restoring
    <3> QED BY <1>5, <3>1
  <2>10. CASE UNCHANGED vars
    BY <1>5, <2>10 DEF vars, hart, Open, Copying
  <2> QED BY <2>1, <2>2, <2>3, <2>4, <2>5, <2>6, <2>7, <2>8, <2>9, <2>10 DEF Next, KernelStep
<1> QED BY <1>1, <1>2, <1>3, <1>4, <1>5 DEF Labels, Open

\* The kernel can reach user memory in the copy and the faults nested in it only.
THEOREM SumClosed == SliceCoversSwitch /\ Spec => []SumOnlyInCopy
PROOF
<1>1. Init => SumOnlyInCopy
  BY DEF Init, SumOnlyInCopy, InitialStatus
<1>2. HInv /\ HInv' /\ SumOnlyInCopy /\ [Next]_vars => SumOnlyInCopy'
  BY SumStep
<1> QED BY <1>1, <1>2, TrapInvariance, PTL DEF Spec

\* No stack in use is handed out again.
THEOREM StacksKept == SliceCoversSwitch /\ Spec => []StackNotReused
PROOF
<1>1. HInv => StackNotReused
  <2> SUFFICES ASSUME HInv PROVE StackNotReused
    OBVIOUS
  <2>1. pc.at \in Labels /\ HartTypes /\ MemoryTypes /\ TasksOK
    BY DEF HInv, HartTypes, Places
  <2>2. \A t \in Tasks : StackOf(UCtx(t)) = t /\ StackOf(UCtx(t) - 1) = t /\ StackOf(UCtx(t) - 2) = t
    BY SlotFacts
  <2>3. RunsOK => stacks[satp] = "owned"
    BY <2>1 DEF RunsOK, TasksOK
  <2>4. csr.sscratch # 0 => stacks[StackOf(csr.sscratch)] = "owned"
    <3>1. csr.sscratch = 0 \/ (RunsOK /\ csr.sscratch = UCtx(satp))
      BY <2>1 DEF HInv, RunsOK, Labels, Restoring, Copying, StartOK, UserOK, TrapOK, CopyOK, CopiedOK,
         KTrapOK, RestoreOK, StoppedOK, Quiet
    <3> QED BY <2>2, <2>3, <3>1 DEF RunsOK
  <2>5. ASSUME mode = "S", x.sp > 0, StackOf(x.sp) # 0 PROVE stacks[StackOf(x.sp)] # "reused"
    <3>1. CASE pc.at \in {"u_trap_handler", "copied", "k_trap_handler", "restore_k_ctx"} \cup Copying
      BY <2>2, <2>3, <3>1 DEF HInv, RunsOK, TrapOK, CopiedOK, KTrapOK, CopyOK, Copying
    <3>2. CASE pc.at = "start"
      <4>1. x.sp = UCtx(0)
        BY <3>2 DEF HInv, StartOK
      <4>2. StackOf(UCtx(0)) = 0
        BY DEF StackOf, UCtx
      <4> QED BY <2>5, <4>1, <4>2
    <3>3. CASE pc.at \in {"off", "refused", "trap_panic", "unknown_syscall", "restore_u_ctx", "csrw_sstatus", "csrw_sepc", "load_xn"}
      <4>1. \E s \in Tasks : x.sp = UCtx(s) /\ stacks[s] # "reused"
        BY <3>3 DEF HInv, StoppedOK, RestoreOK, Restoring
      <4> QED BY <2>2, <4>1
    <3>4. CASE pc.at \in {"load_x4", "sret"}
      <4>1. RestoreOK /\ satp \in Tasks
        BY <3>4 DEF HInv, RunsOK, Restoring
      <4>2. ctx[UCtx(satp)].x \in Regs
        <5>1. ctx[UCtx(satp)] \in Ctxs
          BY <2>1, <4>1, SlotFacts DEF HartTypes
        <5> QED BY <5>1 DEF Ctxs
      <4>3. x.sp = ctx[UCtx(satp)].x.sp
        BY <3>4, <4>1, <4>2 DEF RestoreOK, Regs
      <4>4. x.sp = program[satp].x.sp
        BY <4>1, <4>3 DEF RestoreOK, Saved, Matches
      <4>5. program[satp].x.sp < 0 /\ program[satp].x.sp \in Int
        BY <2>1, <4>1 DEF MemoryTypes, Progs, Regs
      <4> QED BY <2>5, <4>4, <4>5
    <3> QED BY <2>1, <2>5, <3>1, <3>2, <3>3, <3>4 DEF HInv, Labels, Restoring
  <2> QED BY <2>4, <2>5 DEF StackNotReused
<1> QED BY <1>1, TrapInvariance, PTL

\* __uaccess returns the number of bytes that failed to copy, and has copied
\* exactly the others.
THEOREM CopiesExactly == SliceCoversSwitch /\ Spec => []CopyExact
PROOF
<1>1. HInv /\ DInv => CopyExact
  <2> SUFFICES ASSUME HInv, DInv, pc.at = "copied" PROVE CopyExact
    BY DEF CopyExact
  <2>1. InCall /\ CopiedTo(call.len - x.a0) /\ (x.a0 # 0 => Blocked(call.len - x.a0))
    BY DEF DInv
  <2>2. PICK k : k = call.len - x.a0
    OBVIOUS
  <2>3. call.len \in Nat /\ x.a0 \in Int
    BY DEF HInv, MemoryTypes, CallRecords, HartTypes, Regs
  <2>4. k \in 0 .. call.len
    BY <2>1, <2>2 DEF CopiedTo
  <2>5. \A i \in 1 .. call.len : DstByte(i) = IF i <= k THEN SrcByte(i) ELSE call.before[i]
    BY <2>1, <2>2 DEF CopiedTo
  <2>6. k < call.len => Blocked(k)
    BY <2>1, <2>2, <2>3
  <2> QED BY <2>2, <2>4, <2>5, <2>6 DEF CopyExact, DstByte, SrcByte, UserByte, Blocked, IsWrite
<1> QED BY <1>1, TrapInvariance, PTL

\* A write prints the whole buffer or nothing, and says which.
THEOREM WritesAllOrNothing == SliceCoversSwitch /\ Spec => []WriteAllOrNothing
PROOF
<1>1. HInv /\ DInv => WriteAllOrNothing
  <2> SUFFICES ASSUME HInv, DInv, mode = "U", call.name = "write" PROVE WriteAllOrNothing
    BY DEF WriteAllOrNothing
  <2>1. pc.at = "user"
    BY DEF HInv
  <2>2. Outcome(x.a0)
    BY <2>1 DEF DInv, AnswerOf, IsWrite
  <2> QED BY <2>2 DEF Outcome, WriteAllOrNothing, UserByte
<1> QED BY <1>1, TrapInvariance, PTL
=============================================================================
