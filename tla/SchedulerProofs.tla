--------------------------- MODULE SchedulerProofs ---------------------------
(***************************************************************************)
(* The safety properties of Scheduler, proved for every number of tasks,   *)
(* every length of their programs and both layouts of the locals of        *)
(* run_next_task.                                                          *)
(***************************************************************************)
EXTENDS Scheduler, WellFoundedInduction, TLAPS

-----------------------------------------------------------------------------
(* The first element of a list with some property.                         *)

\* A set of natural numbers that is not empty has a least element.
LEMMA MinNat ==
    ASSUME NEW S \in SUBSET Nat, S # {}
    PROVE  Min(S) \in S /\ \A y \in S : Min(S) <= y
PROOF
<1>1. OpToRel(<, Nat) = {ss \in Nat \X Nat : ss[1] < ss[2]}
  BY DEF OpToRel
<1>2. PICK m \in S : \A y \in S : ~(<<y, m>> \in OpToRel(<, Nat))
  BY WFMin, NatLessThanWellFounded
<1>3. \A y \in S : ~(y < m)
  BY <1>1, <1>2
<1>4. \A y \in S : m <= y
  BY <1>3
<1> QED BY <1>4 DEF Min

TCB == [id : Tasks, state : {"Ready", "Running", "Exited", "Killed"}]
Lists == Seq(TCB)

\* No task is listed twice.
Once(list) == \A i, j \in 1 .. Len(list) : i # j => list[i].id # list[j].id

\* The elements of a list are TCBs of tasks.
LEMMA ElementFacts ==
    ASSUME NEW list \in Lists, NEW i \in 1 .. Len(list)
    PROVE  list[i] \in TCB /\ list[i].id \in Tasks
PROOF
<1>1. list[i] \in TCB
  BY DEF Lists
<1> QED BY <1>1 DEF TCB

\* Position finds the TCB of a listed task, wherever it is.
LEMMA PositionFacts ==
    ASSUME NEW list \in Lists, NEW i \in 1 .. Len(list), Once(list)
    PROVE  Position(list, list[i].id) = i
PROOF
<1> DEFINE I == {k \in 1 .. Len(list) : list[k].id = list[i].id}
<1>1. Position(list, list[i].id) = IF I # {} THEN Min(I) ELSE 0
  BY DEF Position, SelectInSeq
<1>2. I \in SUBSET Nat /\ i \in I
  OBVIOUS
<1>3. Min(I) \in I
  BY <1>2, MinNat
<1> QED BY <1>1, <1>2, <1>3 DEF Once

\* get_next_task_id returns the first Ready task, or NONE if there is none.
LEMMA NextFacts ==
    ASSUME NEW list \in Lists
    PROVE  \/ /\ get_next_task_id(list) = NONE
              /\ \A i \in 1 .. Len(list) : list[i].state # "Ready"
           \/ \E i \in 1 .. Len(list) :
                /\ list[i].state = "Ready"
                /\ get_next_task_id(list) = list[i].id
                /\ \A j \in 1 .. i - 1 : list[j].state # "Ready"
PROOF
<1> DEFINE I == {k \in 1 .. Len(list) : list[k].state = "Ready"}
           i == IF I # {} THEN Min(I) ELSE 0
<1>1. get_next_task_id(list) = IF i = 0 THEN NONE ELSE list[i].id
  BY DEF get_next_task_id, SelectInSeq
<1>2. I \in SUBSET Nat
  OBVIOUS
<1>3. CASE I = {}
  BY <1>1, <1>3
<1>4. CASE I # {}
  <2>1. i \in I /\ \A y \in I : i <= y
    BY <1>2, <1>4, MinNat
  <2>2. \A j \in 1 .. i - 1 : list[j].state # "Ready"
    BY <2>1
  <2>3. get_next_task_id(list) = list[i].id
    BY <1>1, <2>1
  <2> QED BY <2>1, <2>2, <2>3
<1> QED BY <1>3, <1>4

-----------------------------------------------------------------------------
(* Taking a TCB out of the list.                                           *)

\* `rest` has the TCBs of `list` other than the i-th, in some order.
Without(rest, list, i) ==
    \E p \in [1 .. Len(list) - 1 -> 1 .. Len(list)] :
        /\ \A k, l \in 1 .. Len(list) - 1 : k # l => p[k] # p[l]
        /\ \A k \in 1 .. Len(list) - 1 : p[k] # i /\ rest[k] = list[p[k]]
        /\ \A j \in 1 .. Len(list) : j # i => \E k \in 1 .. Len(list) - 1 : p[k] = j

\* Whatever the random place the TCB trades with, only it leaves the list.
LEMMA TakeFacts ==
    ASSUME NEW list \in Lists, NEW i \in 1 .. Len(list), Once(list),
           NEW r \in 1 .. Len(list)
    PROVE  LET rest == take_task_tcb(list, list[i].id, r) IN
           /\ rest \in Lists
           /\ Len(rest) = Len(list) - 1
           /\ Without(rest, list, i)
PROOF
<1> DEFINE n == Len(list)
           rest == take_task_tcb(list, list[i].id, r)
           swap == [list EXCEPT ![i] = list[r], ![r] = list[i]]
           put  == [swap EXCEPT ![r] = Last(swap)]
           p    == [k \in 1 .. n - 1 |-> IF k = r THEN IF i = n THEN r ELSE n
                                         ELSE IF k = i THEN r ELSE k]
<1>1. n \in Nat \ {0} /\ Position(list, list[i].id) = i
  BY PositionFacts
<1>2. rest = Front(put)
  BY <1>1, Zenon DEF take_task_tcb
<1>3. /\ swap \in Lists /\ Len(swap) = n
      /\ \A k \in 1 .. n : swap[k] = IF k = r THEN list[i] ELSE IF k = i THEN list[r] ELSE list[k]
  BY <1>1 DEF Lists
<1>4. Last(swap) = swap[n] /\ Last(swap) \in TCB
  BY <1>1, <1>3 DEF Last, Lists
<1> HIDE DEF swap
<1>5. /\ put \in Lists /\ Len(put) = n
      /\ \A k \in 1 .. n : put[k] = IF k = r THEN swap[n] ELSE swap[k]
  BY <1>1, <1>3, <1>4 DEF Lists
<1> HIDE DEF put
<1>6. /\ rest \in Lists /\ Len(rest) = n - 1
      /\ \A k \in 1 .. n - 1 : rest[k] = put[k]
  BY <1>1, <1>2, <1>5 DEF Front, Lists
<1> HIDE DEF rest
<1>7. \A k \in 1 .. n - 1 : rest[k] = list[p[k]] /\ p[k] # i /\ p[k] \in 1 .. n
  BY <1>1, <1>3, <1>5, <1>6
<1>8. \A k, l \in 1 .. n - 1 : k # l => p[k] # p[l]
  BY <1>1
<1>9. ASSUME NEW j \in 1 .. n, j # i
      PROVE  \E k \in 1 .. n - 1 : p[k] = j
  <2>1. CASE j # r /\ j # n
    <3>1. j \in 1 .. n - 1 /\ p[j] = j
      BY <1>1, <1>9, <2>1
    <3> QED BY <3>1
  <2>2. CASE j = r
    <3>1. CASE i = n
      <4>1. r \in 1 .. n - 1 /\ p[r] = r
        BY <1>1, <1>9, <2>2, <3>1
      <4> QED BY <2>2, <4>1
    <3>2. CASE i # n
      <4>1. i \in 1 .. n - 1 /\ p[i] = r
        BY <1>1, <1>9, <2>2, <3>2
      <4> QED BY <2>2, <4>1
    <3> QED BY <3>1, <3>2
  <2>3. CASE j = n /\ j # r
    <3>1. r \in 1 .. n - 1 /\ p[r] = n
      BY <1>1, <1>9, <2>3
    <3> QED BY <2>3, <3>1
  <2> QED BY <2>1, <2>2, <2>3
<1>10. p \in [1 .. n - 1 -> 1 .. n]
  BY <1>7
<1>11. Without(rest, list, i)
  BY <1>7, <1>8, <1>9, <1>10 DEF Without
<1> QED BY <1>6, <1>11 DEF rest

-----------------------------------------------------------------------------
(* Putting the current task back, and choosing the next.                   *)

Ids(list) == {list[i].id : i \in 1 .. Len(list)}

AllReady(list) == \A i \in 1 .. Len(list) : list[i].state = "Ready"

\* `list` as run_next_task finds it: the task t has just stopped Running, the
\* others are Ready.
Stopped(list, t) ==
    \E i \in 1 .. Len(list) :
        /\ list[i].id = t
        /\ list[i].state \in {"Ready", "Exited", "Killed"}
        /\ \A j \in 1 .. Len(list) : j # i => list[j].state = "Ready"

\* The tasks that have not ended.
Left(list) == {list[i].id : i \in {j \in 1 .. Len(list) : list[j].state = "Ready"}}

\* What the removal of a TCB preserves.
LEMMA WithoutFacts ==
    ASSUME NEW list \in Lists, Once(list), NEW i \in 1 .. Len(list),
           NEW rest \in Lists, Len(rest) = Len(list) - 1, Without(rest, list, i)
    PROVE  /\ Once(rest)
           /\ Ids(rest) = Ids(list) \ {list[i].id}
           /\ \A k \in 1 .. Len(rest) : \E j \in 1 .. Len(list) : j # i /\ rest[k] = list[j]
PROOF
<1> DEFINE n == Len(list)
<1>1. PICK p \in [1 .. n - 1 -> 1 .. n] :
        /\ \A k, l \in 1 .. n - 1 : k # l => p[k] # p[l]
        /\ \A k \in 1 .. n - 1 : p[k] # i /\ rest[k] = list[p[k]]
        /\ \A j \in 1 .. n : j # i => \E k \in 1 .. n - 1 : p[k] = j
  BY DEF Without
<1>2. n \in Nat
  BY DEF Lists
<1> HIDE DEF n
<1>3. Len(rest) = n - 1 /\ Len(list) = n /\ i \in 1 .. n
  BY DEF n
<1>4. Once(rest)
  <2> SUFFICES ASSUME NEW k \in 1 .. n - 1, NEW l \in 1 .. n - 1, k # l
               PROVE  rest[k].id # rest[l].id
    BY <1>3 DEF Once
  <2>1. p[k] \in 1 .. n /\ p[l] \in 1 .. n /\ p[k] # p[l]
    BY <1>1
  <2>2. list[p[k]].id # list[p[l]].id
    BY <1>3, <2>1 DEF Once
  <2> QED BY <1>1, <2>2
<1>5. \A k \in 1 .. n - 1 : rest[k].id \in Ids(list) \ {list[i].id}
  BY <1>1, <1>2, <1>3, SMTT(20) DEF Once, Ids
<1>6. \A j \in 1 .. n : list[j].id # list[i].id => list[j].id \in Ids(rest)
  <2> TAKE j \in 1 .. n
  <2> HAVE list[j].id # list[i].id
  <2>1. j # i
    OBVIOUS
  <2>2. PICK k \in 1 .. n - 1 : p[k] = j
    BY <1>1, <2>1
  <2>3. rest[k].id = list[j].id
    BY <1>1, <2>2
  <2> QED BY <1>3, <2>3 DEF Ids
<1>7. Ids(rest) = Ids(list) \ {list[i].id}
  BY <1>3, <1>5, <1>6 DEF Ids
<1> QED BY <1>1, <1>3, <1>4, <1>7

\* Appending a TCB whose id is new.
LEMMA AppendFacts ==
    ASSUME NEW rest \in Lists, Once(rest), NEW e \in TCB, e.id \notin Ids(rest)
    PROVE  LET list == Append(rest, e) IN
           /\ list \in Lists /\ Len(list) = Len(rest) + 1
           /\ Once(list)
           /\ Ids(list) = Ids(rest) \cup {e.id}
           /\ \A k \in 1 .. Len(rest) : list[k] = rest[k]
           /\ list[Len(rest) + 1] = e
PROOF
<1> DEFINE n == Len(rest)
           list == Append(rest, e)
<1>1. n \in Nat
  BY DEF Lists
<1>2. /\ list \in Lists /\ Len(list) = n + 1
      /\ \A k \in 1 .. n : list[k] = rest[k]
      /\ list[n + 1] = e
  BY DEF Lists
<1> HIDE DEF list
<1>3. \A k \in 1 .. n : rest[k].id # e.id
  BY DEF Ids
<1>4. Once(list)
  BY <1>1, <1>2, <1>3 DEF Once
<1>5. Ids(list) \subseteq Ids(rest) \cup {e.id}
  BY <1>1, <1>2 DEF Ids
<1>6. \A k \in 1 .. n : rest[k].id \in Ids(list)
  <2> TAKE k \in 1 .. n
  <2>1. k \in 1 .. Len(list) /\ list[k].id = rest[k].id
    BY <1>1, <1>2
  <2> QED BY <2>1 DEF Ids
<1>7. e.id \in Ids(list)
  <2>1. n + 1 \in 1 .. Len(list) /\ list[n + 1].id = e.id
    BY <1>1, <1>2
  <2> QED BY <2>1 DEF Ids
<1>8. Ids(list) = Ids(rest) \cup {e.id}
  BY <1>5, <1>6, <1>7 DEF Ids
<1> QED BY <1>2, <1>4, <1>8 DEF list

\* PutBack leaves the tasks that have not ended, all Ready and none twice, with
\* the current one behind the others.
LEMMA PutBackFacts ==
    ASSUME NEW list \in Lists, Once(list),
           IF tp = 0 THEN AllReady(list) ELSE Stopped(list, tp),
           NEW rest \in PutBack(list)
    PROVE  /\ rest \in Lists /\ Once(rest) /\ AllReady(rest)
           /\ Ids(rest) = Left(list)
           /\ tp # 0 /\ Ids(rest) # {tp} /\ rest # << >> => rest[1].id # tp
PROOF
<1>1. CASE tp = 0
  BY <1>1 DEF PutBack, AllReady, Ids, Left
<1>2. CASE tp # 0
  <2>1. PICK i \in 1 .. Len(list) :
          /\ list[i].id = tp
          /\ list[i].state \in {"Ready", "Exited", "Killed"}
          /\ \A j \in 1 .. Len(list) : j # i => list[j].state = "Ready"
    BY <1>2 DEF Stopped
  <2>2. Position(list, tp) = i /\ DOMAIN list = 1 .. Len(list)
    BY <2>1, PositionFacts DEF Lists
  <2>3. PICK r \in 1 .. Len(list) :
          rest = IF list[i].state = "Ready"
                 THEN Append(take_task_tcb(list, tp, r), [id |-> tp, state |-> list[i].state])
                 ELSE take_task_tcb(list, tp, r)
    BY <1>2, <2>2 DEF PutBack
  <2> DEFINE others == take_task_tcb(list, tp, r)
  <2>4. others \in Lists /\ Len(others) = Len(list) - 1 /\ Without(others, list, i)
    BY <2>1, TakeFacts
  <2> HIDE DEF others
  <2>5. /\ Once(others) /\ Ids(others) = Ids(list) \ {tp}
        /\ \A k \in 1 .. Len(others) : \E j \in 1 .. Len(list) : j # i /\ others[k] = list[j]
    BY <2>1, <2>4, WithoutFacts
  <2>6. AllReady(others)
    BY <2>1, <2>5 DEF AllReady
  <2>7. \A k \in 1 .. Len(others) : others[k].id # tp
    BY <2>5 DEF Ids
  <2>8. CASE list[i].state = "Ready"
    <3> DEFINE e == [id |-> tp, state |-> "Ready"]
    <3>1. rest = Append(others, e)
      BY <2>3, <2>8 DEF others
    <3>2. e \in TCB /\ e.id = tp /\ e.state = "Ready"
      BY <2>1, ElementFacts DEF TCB
    <3> HIDE DEF e
    <3>3. /\ rest \in Lists /\ Len(rest) = Len(others) + 1 /\ Once(rest)
          /\ Ids(rest) = Ids(others) \cup {tp}
          /\ \A k \in 1 .. Len(others) : rest[k] = others[k]
          /\ rest[Len(others) + 1] = e
      BY <2>4, <2>5, <3>1, <3>2, AppendFacts
    <3>4. AllReady(rest)
      BY <2>4, <2>6, <3>2, <3>3 DEF AllReady, Lists
    <3>5. Left(list) = Ids(list) /\ tp \in Ids(list)
      BY <2>1, <2>8 DEF Left, Ids
    <3>6. Ids(rest) # {tp} => rest[1].id # tp
      <4>1. SUFFICES ASSUME Ids(rest) # {tp} PROVE rest[1].id # tp
        OBVIOUS
      <4>2. Ids(others) # {}
        BY <3>3, <4>1
      <4>3. 1 \in 1 .. Len(others)
        BY <4>2, <2>4 DEF Ids, Lists
      <4> QED BY <4>3, <3>3, <2>7
    <3> QED BY <2>5, <3>3, <3>4, <3>5, <3>6
  <2>9. CASE list[i].state # "Ready"
    <3>1. rest = others
      BY <2>3, <2>9 DEF others
    <3>2. Left(list) = Ids(list) \ {tp}
      BY <2>1, <2>9 DEF Left, Ids, Once
    <3>3. rest # << >> => rest[1].id # tp
      BY <2>4, <2>7, <3>1 DEF Lists
    <3> QED BY <2>4, <2>5, <2>6, <3>1, <3>2, <3>3
  <2> QED BY <2>8, <2>9
<1> QED BY <1>1, <1>2

\* SetRunning makes one task of the list Running and keeps the others.
LEMMA SetRunningFacts ==
    ASSUME NEW list \in Lists, Once(list), AllReady(list), NEW i \in 1 .. Len(list),
           NEW new \in SetRunning(list, list[i].id)
    PROVE  /\ new \in Lists /\ Once(new) /\ Ids(new) = Ids(list)
           /\ \A k \in 1 .. Len(new) :
                 new[k].state = IF new[k].id = list[i].id THEN "Running" ELSE "Ready"
PROOF
<1> DEFINE t == list[i].id
           e == [id |-> t, state |-> "Running"]
<1>1. DOMAIN list = 1 .. Len(list) /\ Len(list) \in Nat
  BY DEF Lists
<1>2. PICK r \in 1 .. Len(list) : new = Append(take_task_tcb(list, t, r), e)
  BY <1>1 DEF SetRunning
<1> DEFINE rest == take_task_tcb(list, t, r)
<1>3. rest \in Lists /\ Len(rest) = Len(list) - 1 /\ Without(rest, list, i)
  BY TakeFacts
<1>4. new = Append(rest, e)
  BY <1>2
<1> HIDE DEF rest
<1>5. /\ Once(rest) /\ Ids(rest) = Ids(list) \ {t}
      /\ \A k \in 1 .. Len(rest) : \E j \in 1 .. Len(list) : j # i /\ rest[k] = list[j]
  BY <1>3, WithoutFacts, SMTT(20)
<1>6. e \in TCB /\ e.id = t /\ e.state = "Running" /\ t \in Ids(list)
  BY ElementFacts DEF TCB, Ids
<1> HIDE DEF e, t
<1>7. /\ new \in Lists /\ Len(new) = Len(rest) + 1 /\ Once(new)
      /\ Ids(new) = Ids(rest) \cup {t}
      /\ \A k \in 1 .. Len(rest) : new[k] = rest[k]
      /\ new[Len(rest) + 1] = e
  BY <1>3, <1>4, <1>5, <1>6, AppendFacts
<1>8. \A k \in 1 .. Len(rest) : rest[k].state = "Ready" /\ rest[k].id # t
  BY <1>5 DEF AllReady, Ids
<1>9. \A k \in 1 .. Len(new) : new[k].state = IF new[k].id = t THEN "Running" ELSE "Ready"
  BY <1>3, <1>6, <1>7, <1>8 DEF Lists
<1>10. Ids(new) = Ids(list)
  BY <1>5, <1>6, <1>7
<1> QED BY <1>7, <1>9, <1>10 DEF t

-----------------------------------------------------------------------------
(* The inductive invariant.                                                *)

Registers == [pc : 0 .. MaxPc, a0 : Int]
Contexts  == [Tasks -> [pc : 0 .. MaxPc + 1, a0 : Int]]
Programs  == [Tasks -> Registers]

\* Before the first switch nothing runs, and every context is the initial one.
Booting ==
    phase = "boot" => /\ tp = 0 /\ ~locked
                      /\ AllReady(all_tasks)
                      /\ \A t \in Tasks : contexts[t] = program[t]

\* In user mode the lock is free, one task runs with its own registers, and
\* those of every other task that has not ended are in its context.
InUserMode ==
    phase = "user" => /\ ~locked /\ tp # 0
                      /\ \A t \in Ids(all_tasks) \ {tp} : contexts[t] = program[t]

IInv ==
    /\ TypeOK
    /\ program \in Programs
    /\ Once(all_tasks)
    /\ Booting
    /\ InUserMode
    /\ OneRunning
    /\ ResumesItself
    /\ NoPanic

\* A list with only Ready and Running TCBs is one of TypeOK.
LEMMA ListedType ==
    ASSUME NEW list \in Lists, \A i \in 1 .. Len(list) : list[i].state \in {"Ready", "Running"}
    PROVE  list \in Seq([id : Tasks, state : {"Ready", "Running"}])
PROOF
<1> DEFINE S == [id : Tasks, state : {"Ready", "Running"}]
<1>1. \A i \in 1 .. Len(list) : list[i] \in S
  <2> TAKE i \in 1 .. Len(list)
  <2>1. list[i] \in TCB
    BY ElementFacts
  <2> QED BY <2>1 DEF TCB
<1> HIDE DEF S
<1>2. list \in Seq(S)
  BY <1>1 DEF Lists
<1> QED BY <1>2 DEF S

\* The task list of a state of the invariant, and the tasks on it.
LEMMA ListFacts ==
    ASSUME IInv
    PROVE  /\ all_tasks \in Lists /\ DOMAIN all_tasks = 1 .. Len(all_tasks)
           /\ Listed = Ids(all_tasks) /\ Ids(all_tasks) \subseteq Tasks
PROOF
<1> DEFINE S == [id : Tasks, state : {"Ready", "Running"}]
<1>1. all_tasks \in Seq(S) /\ S \subseteq TCB
  BY DEF IInv, TypeOK, TCB
<1> HIDE DEF S
<1>2. all_tasks \in Lists /\ DOMAIN all_tasks = 1 .. Len(all_tasks)
  BY <1>1 DEF Lists
<1> QED BY <1>2, ElementFacts DEF Listed, Ids

\* run_next_task, whatever the layout of its locals: the invariant holds again
\* at the sret, no task is lost but one that has ended, and the hart goes to
\* another task if there is one.
LEMMA RunNext ==
    ASSUME TypeOK,
           NEW list \in Lists, Once(list),
           IF tp = 0 THEN AllReady(list) ELSE Stopped(list, tp),
           NEW saved \in Contexts, NEW result \in {NONE, 0},
           program' \in Programs,
           \A t \in Left(list) : saved[t] = program'[t],
           result = 0 /\ tp \in Left(list) => saved[tp].a0 = 0,
           run_next_task(list, saved, result)
    PROVE  /\ IInv'
           /\ Ids(all_tasks)' = Left(list)
           /\ tp # 0 /\ Left(list) \notin {{}, {tp}} => tp' # tp
PROOF
<1>0. ~StillRunning(list)
  <2>1. CASE tp = 0
    BY <2>1 DEF StillRunning
  <2>2. CASE tp # 0
    <3>1. PICK i \in 1 .. Len(list) : list[i].id = tp /\ list[i].state # "Running"
      BY <2>2 DEF Stopped
    <3>2. Position(list, tp) = i
      BY <3>1, PositionFacts
    <3> QED BY <3>1, <3>2 DEF StillRunning
  <2> QED BY <2>1, <2>2
<1>1. PICK rest \in PutBack(list) :
        LET next == get_next_task_id(rest) IN
        \/ /\ next = NONE
           /\ all_tasks' = rest
           /\ phase' = "off"
           /\ locked' = TRUE
           /\ contexts' = saved
           /\ UNCHANGED <<tp, satp, regs>>
        \/ /\ next # NONE
           /\ all_tasks' \in SetRunning(rest, next)
           /\ phase' = "user"
           /\ locked' = FALSE
           /\ tp' = Loaded(tp, next).tp
           /\ satp' = Loaded(tp, next).satp
           /\ contexts' = IF Loaded(tp, next).ra = "run_next_task" /\ result # NONE
                          THEN [saved EXCEPT ![tp].a0 = result] ELSE saved
           /\ regs' = contexts'[tp']
  BY <1>0, Zenon DEF run_next_task
<1>2. layout' = layout
  BY <1>0 DEF run_next_task
<1>3. /\ rest \in Lists /\ Once(rest) /\ AllReady(rest)
      /\ Ids(rest) = Left(list)
      /\ tp # 0 /\ Ids(rest) # {tp} /\ rest # << >> => rest[1].id # tp
  BY PutBackFacts
<1>4. /\ rest = << >> \/ 1 \in 1 .. Len(rest)
      /\ Len(<< >>) = 0
  BY <1>3 DEF Lists
<1>5. CASE get_next_task_id(rest) = NONE
  <2>1. rest = << >>
    <3>1. \A i \in 1 .. Len(rest) : rest[i].id # NONE
      BY <1>3, ElementFacts, SchedulerAssumption DEF Tasks
    <3>2. \A i \in 1 .. Len(rest) : rest[i].state # "Ready"
      BY <1>3, <1>5, <3>1, NextFacts
    <3> QED BY <1>3, <1>4, <3>2 DEF AllReady
  <2>2. /\ all_tasks' = << >> /\ phase' = "off" /\ locked' = TRUE /\ contexts' = saved
        /\ UNCHANGED <<tp, satp, regs>>
    BY <1>1, <1>5, <2>1
  <2>3. TypeOK'
    BY <1>2, <2>2 DEF TypeOK, Contexts
  <2>4. Once(all_tasks)' /\ Ids(all_tasks)' = {} /\ Left(list) = {}
    BY <1>3, <1>4, <2>1, <2>2 DEF Once, Ids
  <2>5. IInv'
    BY <2>2, <2>3, <2>4 DEF IInv, Booting, InUserMode, OneRunning, ResumesItself, NoPanic
  <2> QED BY <2>4, <2>5
<1>6. CASE get_next_task_id(rest) # NONE
  <2>1. PICK i \in 1 .. Len(rest) :
          /\ rest[i].state = "Ready"
          /\ get_next_task_id(rest) = rest[i].id
          /\ \A j \in 1 .. i - 1 : rest[j].state # "Ready"
    BY <1>3, <1>6, NextFacts
  <2>2. i = 1
    BY <1>3, <2>1 DEF AllReady, Lists
  <2> DEFINE n == rest[1].id
  <2>3. n \in Tasks /\ get_next_task_id(rest) = n /\ n \in Left(list)
    BY <1>3, <2>1, <2>2, ElementFacts DEF Ids
  <2>4. /\ all_tasks' \in SetRunning(rest, n)
        /\ phase' = "user" /\ locked' = FALSE
        /\ tp' = n /\ satp' = n
        /\ contexts' = saved \/ (tp # 0 /\ result # NONE /\ contexts' = [saved EXCEPT ![tp].a0 = result])
        /\ regs' = contexts'[n]
    BY <1>1, <1>6, <2>3 DEF Loaded, Context
  <2>5. /\ all_tasks' \in Lists /\ Once(all_tasks') /\ Ids(all_tasks') = Ids(rest)
        /\ \A k \in 1 .. Len(all_tasks') :
              all_tasks'[k].state = IF all_tasks'[k].id = n THEN "Running" ELSE "Ready"
    BY <1>3, <2>1, <2>2, <2>4, SetRunningFacts
  <2>6. n # 0 /\ n \in 0 .. NumTasks /\ n \in Tasks
    BY <2>3, SchedulerAssumption DEF Tasks
  <2>7. tp # 0 /\ Left(list) \notin {{}, {tp}} => tp' # tp
    BY <1>3, <1>4, <2>1, <2>2, <2>4
  <2> HIDE DEF n
  <2>8. contexts' \in Contexts /\ \A t \in Left(list) : contexts'[t] = program'[t]
    <3>1. Left(list) \subseteq Tasks
      BY ElementFacts DEF Left
    <3>2. CASE contexts' = saved
      BY <3>1, <3>2
    <3>3. CASE tp # 0 /\ result # NONE /\ contexts' = [saved EXCEPT ![tp].a0 = result]
      <4>1. tp \in Tasks /\ result = 0
        BY <3>3, SchedulerAssumption DEF TypeOK, Tasks
      <4>2. contexts' = [saved EXCEPT ![tp].a0 = 0]
        BY <3>3, <4>1
      <4>3. contexts' \in Contexts
        BY <4>1, <4>2 DEF Contexts
      <4>4. ASSUME NEW t \in Left(list) PROVE contexts'[t] = saved[t]
        <5>1. CASE t # tp
          BY <3>1, <4>2, <5>1 DEF Contexts
        <5>2. CASE t = tp
          <6>1. saved[tp].a0 = 0 /\ saved[tp] \in [pc : 0 .. MaxPc + 1, a0 : Int]
            BY <4>1, <5>2 DEF Contexts
          <6>2. [saved[tp] EXCEPT !.a0 = 0] = saved[tp]
            BY <6>1
          <6>3. contexts'[tp] = [saved[tp] EXCEPT !.a0 = 0]
            BY <4>1, <4>2 DEF Contexts
          <6> QED BY <5>2, <6>2, <6>3
        <5> QED BY <5>1, <5>2
      <4> QED BY <3>1, <4>3, <4>4
    <3> QED BY <2>4, <3>2, <3>3
  <2>9. regs' = program'[n] /\ regs' \in Registers
    BY <2>3, <2>4, <2>8 DEF Programs
  <2>10. all_tasks' \in Seq([id : Tasks, state : {"Ready", "Running"}])
    BY <2>5, ListedType
  <2>11. TypeOK'
    BY <1>2, <2>4, <2>6, <2>8, <2>9, <2>10 DEF TypeOK, Contexts, Registers
  <2>12. n \in Ids(all_tasks') /\ DOMAIN all_tasks' = 1 .. Len(all_tasks')
    BY <1>3, <2>3, <2>5 DEF Lists
  <2>13. OneRunning'
    BY <2>4, <2>5, <2>12 DEF OneRunning, Listed, Ids, Once
  <2>14. InUserMode' /\ ResumesItself' /\ NoPanic' /\ Booting'
    BY <1>3, <2>4, <2>5, <2>6, <2>8, <2>9 DEF InUserMode, ResumesItself, NoPanic, Booting
  <2> QED BY <1>3, <2>5, <2>7, <2>11, <2>13, <2>14 DEF IInv
<1> QED BY <1>5, <1>6

\* A handler that gives up the hart: it finds the current task Running, so it
\* does not panic, and run_next_task does the rest.
LEMMA LeaveFacts ==
    ASSUME IInv, phase = "user",
           NEW new \in {"Ready", "Exited", "Killed"},
           NEW saved \in Contexts, NEW result \in {NONE, 0},
           program' \in Programs,
           \A t \in Ids(all_tasks) : t # tp \/ new = "Ready" => saved[t] = program'[t],
           result = 0 /\ new = "Ready" => saved[tp].a0 = 0,
           Leave(new, saved, result)
    PROVE  /\ IInv'
           /\ Ids(all_tasks)' = IF new = "Ready" THEN Ids(all_tasks) ELSE Ids(all_tasks) \ {tp}
           /\ new = "Ready" /\ Ids(all_tasks) # {tp} => tp' # tp
PROOF
<1>1. all_tasks \in Lists /\ DOMAIN all_tasks = 1 .. Len(all_tasks)
  BY ListFacts
<1>2. /\ Once(all_tasks) /\ tp # 0 /\ tp \in Ids(all_tasks)
      /\ \A i \in 1 .. Len(all_tasks) :
            all_tasks[i].state = IF all_tasks[i].id = tp THEN "Running" ELSE "Ready"
  BY <1>1 DEF IInv, OneRunning, InUserMode, Listed, Ids
<1>3. PICK i \in 1 .. Len(all_tasks) : all_tasks[i].id = tp
  BY <1>2 DEF Ids
<1>4. Position(all_tasks, tp) = i /\ i # 0 /\ all_tasks[i].state = "Running"
  BY <1>1, <1>2, <1>3, PositionFacts
<1> DEFINE list == [all_tasks EXCEPT ![i].state = new]
<1>5. run_next_task(list, saved, result)
  BY <1>4, Zenon DEF Leave
<1>6. /\ list \in Lists /\ Len(list) = Len(all_tasks)
      /\ list[i].id = tp /\ list[i].state = new
      /\ \A j \in 1 .. Len(all_tasks) : j # i => list[j] = all_tasks[j]
      /\ \A j \in 1 .. Len(all_tasks) : list[j].id = all_tasks[j].id
  <2>1. all_tasks[i] \in TCB
    BY <1>1, ElementFacts
  <2>2. [all_tasks[i] EXCEPT !.state = new] \in TCB
    BY <2>1 DEF TCB
  <2>3. [all_tasks[i] EXCEPT !.state = new].id = tp /\ [all_tasks[i] EXCEPT !.state = new].state = new
    BY <1>3, <2>1 DEF TCB
  <2>4. list = [all_tasks EXCEPT ![i] = [all_tasks[i] EXCEPT !.state = new]]
    OBVIOUS
  <2> DEFINE e == [all_tasks[i] EXCEPT !.state = new]
  <2> HIDE DEF e, list
  <2>5. list = [all_tasks EXCEPT ![i] = e] /\ e \in TCB /\ e.id = tp /\ e.state = new
    BY <2>2, <2>3, <2>4 DEF e
  <2> QED BY <1>1, <1>3, <2>5 DEF Lists
<1> HIDE DEF list
<1>7. Once(list) /\ Ids(list) = Ids(all_tasks)
  BY <1>2, <1>6 DEF Once, Ids
<1>8. \A j \in 1 .. Len(all_tasks) : j # i => list[j].state = "Ready" /\ list[j].id # tp
  BY <1>2, <1>3, <1>6 DEF Once
<1>9. Stopped(list, tp)
  BY <1>6, <1>8 DEF Stopped
<1>10. Left(list) = IF new = "Ready" THEN Ids(all_tasks) ELSE Ids(all_tasks) \ {tp}
  <2>1. Left(list) \subseteq Ids(all_tasks)
    BY <1>6 DEF Left, Ids
  <2>2. \A j \in 1 .. Len(all_tasks) : j # i => list[j].id \in Left(list)
    BY <1>6, <1>8 DEF Left
  <2>3. CASE new = "Ready"
    <3>1. list[i].id \in Left(list)
      BY <1>6, <2>3 DEF Left
    <3> QED BY <1>6, <2>1, <2>2, <2>3, <3>1 DEF Ids
  <2>4. CASE new # "Ready"
    <3>1. tp \notin Left(list)
      BY <1>6, <1>8, <2>4 DEF Left
    <3> QED BY <1>6, <2>1, <2>2, <2>4, <3>1 DEF Ids
  <2> QED BY <2>3, <2>4
<1>11. /\ \A t \in Left(list) : saved[t] = program'[t]
       /\ result = 0 /\ tp \in Left(list) => saved[tp].a0 = 0
  BY <1>10
<1>12. /\ IInv'
       /\ Ids(all_tasks)' = Left(list)
       /\ tp # 0 /\ Left(list) \notin {{}, {tp}} => tp' # tp
  BY <1>2, <1>5, <1>6, <1>7, <1>9, <1>11, RunNext DEF IInv
<1> QED BY <1>2, <1>10, <1>12

-----------------------------------------------------------------------------
(* The steps.                                                              *)

\* The invariant holds once add_task has run for every application.
LEMMA InitIInv == Init => IInv
PROOF
<1> SUFFICES ASSUME Init PROVE IInv
  OBVIOUS
<1>1. InitialRegs \in Registers /\ InitialRegs \in [pc : 0 .. MaxPc + 1, a0 : Int]
  BY SchedulerAssumption DEF InitialRegs, Registers
<1>2. /\ all_tasks = [t \in Tasks |-> [id |-> t, state |-> "Ready"]]
      /\ Tasks = 1 .. NumTasks /\ NumTasks \in Nat
  BY SchedulerAssumption DEF Init, Tasks
<1>3. \A t \in Tasks : [id |-> t, state |-> "Ready"] \in [id : Tasks, state : {"Ready", "Running"}]
  OBVIOUS
<1>4. all_tasks \in Seq([id : Tasks, state : {"Ready", "Running"}]) /\ Len(all_tasks) = NumTasks
  BY <1>2, <1>3
<1>5. \A t \in 1 .. Len(all_tasks) : all_tasks[t].id = t /\ all_tasks[t].state = "Ready"
  BY <1>2, <1>4
<1>6. Once(all_tasks) /\ AllReady(all_tasks)
  BY <1>5 DEF Once, AllReady
<1>7. TypeOK
  <2>1. contexts \in Contexts /\ regs \in Registers
    BY <1>1 DEF Init, Contexts
  <2>2. 0 \in 0 .. NumTasks
    BY <1>2
  <2> QED BY <1>4, <2>1, <2>2 DEF Init, TypeOK, Registers, Contexts
<1>8. program \in Programs
  BY <1>1 DEF Init, Programs
<1>9. Booting
  BY <1>6 DEF Init, Booting
<1> QED BY <1>6, <1>7, <1>8, <1>9 DEF Init, IInv, InUserMode, OneRunning, ResumesItself, NoPanic

\* What each step preserves: the invariant, and who is listed and who runs.
Good(t, e) ==
    /\ IInv'
    /\ e \in {"timer", "yield"} /\ phase = "user" /\ Ids(all_tasks) # {t} => tp' # t
    /\ Ids(all_tasks)' # Ids(all_tasks) =>
          Ids(all_tasks)' = Ids(all_tasks) \ {t} /\ e \in {"exit", "kill"}

\* The facts about user mode that the steps below use.
LEMMA UserFacts ==
    ASSUME IInv, phase = "user"
    PROVE  /\ tp \in Tasks /\ tp \in Ids(all_tasks)
           /\ regs = program[tp] /\ regs \in Registers
           /\ program \in Programs /\ contexts \in Contexts
           /\ \A t \in Ids(all_tasks) : t \in Tasks /\ (t # tp => contexts[t] = program[t])
PROOF
<1>1. Listed = Ids(all_tasks) /\ Ids(all_tasks) \subseteq Tasks
  BY ListFacts
<1> QED BY <1>1 DEF IInv, TypeOK, InUserMode, OneRunning, ResumesItself, Contexts, Registers

\* start: the first task is switched to.
LEMMA StartStep == IInv /\ start => Good(tp, event')
PROOF
<1> SUFFICES ASSUME IInv, start PROVE Good(tp, event')
  OBVIOUS
<1>1. /\ phase = "boot" /\ event' = "start" /\ program' = program
      /\ run_next_task(all_tasks, contexts, NONE)
  BY DEF start
<1>2. /\ tp = 0 /\ AllReady(all_tasks) /\ \A t \in Tasks : contexts[t] = program[t]
      /\ Once(all_tasks) /\ contexts \in Contexts /\ program \in Programs /\ TypeOK
  BY <1>1 DEF IInv, Booting, TypeOK, Contexts
<1>3. all_tasks \in Lists
  BY ListFacts
<1>4. Left(all_tasks) = Ids(all_tasks) /\ Left(all_tasks) \subseteq Tasks
  BY <1>2, <1>3, ElementFacts DEF Left, Ids, AllReady
<1>5. NONE # 0
  BY SchedulerAssumption
<1>6. IInv' /\ Ids(all_tasks)' = Left(all_tasks)
  BY <1>1, <1>2, <1>3, <1>4, <1>5, RunNext
<1> QED BY <1>1, <1>4, <1>6 DEF Good

\* TimerInterrupt and KillTask save the registers as they are.
LEMMA SaveFacts ==
    ASSUME IInv, phase = "user"
    PROVE  /\ SaveContext \in Contexts
           /\ \A t \in Ids(all_tasks) : SaveContext[t] = program[t]
PROOF
<1>1. regs \in [pc : 0 .. MaxPc + 1, a0 : Int]
  BY UserFacts, SchedulerAssumption DEF Registers
<1> QED BY <1>1, UserFacts DEF SaveContext, Contexts

\* sleep_task and run_next_task, on a timer interrupt.
LEMMA TimerStep == IInv /\ TimerInterrupt => Good(tp, event')
PROOF
<1> SUFFICES ASSUME IInv, TimerInterrupt PROVE Good(tp, event')
  OBVIOUS
<1>1. /\ phase = "user" /\ event' = "timer" /\ program' = program
      /\ Leave("Ready", SaveContext, NONE)
  BY DEF TimerInterrupt, Trap
<1>2. /\ SaveContext \in Contexts /\ program' \in Programs /\ NONE # 0
      /\ \A t \in Ids(all_tasks) : SaveContext[t] = program'[t]
  BY <1>1, SaveFacts, UserFacts, SchedulerAssumption
<1>3. /\ IInv' /\ Ids(all_tasks)' = Ids(all_tasks)
      /\ Ids(all_tasks) # {tp} => tp' # tp
  BY <1>1, <1>2, LeaveFacts
<1> QED BY <1>1, <1>3 DEF Good

\* kill_task and run_next_task, on a fault that cannot be served.
LEMMA KillStep == IInv /\ KillTask => Good(tp, event')
PROOF
<1> SUFFICES ASSUME IInv, KillTask PROVE Good(tp, event')
  OBVIOUS
<1>1. /\ phase = "user" /\ event' = "kill" /\ program' = program
      /\ Leave("Killed", SaveContext, NONE)
  BY DEF KillTask, Trap
<1>2. /\ SaveContext \in Contexts /\ program' \in Programs /\ NONE # 0
      /\ \A t \in Ids(all_tasks) : SaveContext[t] = program'[t]
  BY <1>1, SaveFacts, UserFacts, SchedulerAssumption
<1>3. /\ IInv' /\ Ids(all_tasks)' = Ids(all_tasks) \ {tp}
  BY <1>1, <1>2, LeaveFacts
<1> QED BY <1>1, <1>3 DEF Good

\* An ecall: the saved pc is the next instruction's.
LEMMA EcallFacts ==
    ASSUME IInv, phase = "user"
    PROVE  /\ SaveEcall \in Contexts
           /\ SaveEcall[tp] = [pc |-> program[tp].pc + 1, a0 |-> program[tp].a0]
           /\ \A t \in Ids(all_tasks) \ {tp} : SaveEcall[t] = program[t]
PROOF
<1>1. /\ tp \in Tasks /\ regs = program[tp] /\ contexts \in Contexts
      /\ regs.pc \in 0 .. MaxPc /\ regs.a0 \in Int
      /\ \A t \in Ids(all_tasks) : t \in Tasks /\ (t # tp => contexts[t] = program[t])
  BY UserFacts DEF Registers
<1>2. [regs EXCEPT !.pc = @ + 1] = [pc |-> regs.pc + 1, a0 |-> regs.a0]
  BY UserFacts DEF Registers
<1>3. [regs EXCEPT !.pc = @ + 1] \in [pc : 0 .. MaxPc + 1, a0 : Int]
  BY <1>1, <1>2, SchedulerAssumption
<1> DEFINE new == [regs EXCEPT !.pc = @ + 1]
<1>4. SaveEcall = [contexts EXCEPT ![tp] = new]
  BY DEF SaveEcall
<1>5. new \in [pc : 0 .. MaxPc + 1, a0 : Int] /\ new = [pc |-> program[tp].pc + 1, a0 |-> program[tp].a0]
  BY <1>1, <1>2, <1>3
<1> HIDE DEF new
<1> QED BY <1>1, <1>4, <1>5 DEF Contexts

\* sys_exit: the saved context is never used again, and the task is gone.
LEMMA ExitLeaves == IInv /\ sys_exit => IInv' /\ Ids(all_tasks)' = Ids(all_tasks) \ {tp}
PROOF
<1> SUFFICES ASSUME IInv, sys_exit PROVE IInv' /\ Ids(all_tasks)' = Ids(all_tasks) \ {tp}
  OBVIOUS
<1>1. /\ phase = "user" /\ program' = program
      /\ Leave("Exited", SaveEcall, 0)
  BY DEF sys_exit, Trap
<1>2. /\ SaveEcall \in Contexts /\ program' \in Programs
      /\ \A t \in Ids(all_tasks) : t # tp => SaveEcall[t] = program'[t]
  BY <1>1, EcallFacts, UserFacts
<1> QED BY <1>1, <1>2, LeaveFacts

\* sys_exit, as a step.
LEMMA ExitStep == IInv /\ sys_exit => Good(tp, event')
PROOF BY ExitLeaves DEF Good, sys_exit, Trap

\* The context of a system call that is answered, and the program it belongs to.
LEMMA AnswerFacts ==
    ASSUME IInv, phase = "user", regs.pc < MaxPc, NEW a \in Int,
           program' = [program EXCEPT ![tp] = [pc |-> @.pc + 1, a0 |-> a]]
    PROVE  /\ [SaveEcall EXCEPT ![tp].a0 = a] \in Contexts
           /\ program' \in Programs
           /\ \A t \in Ids(all_tasks) : [SaveEcall EXCEPT ![tp].a0 = a][t] = program'[t]
           /\ [SaveEcall EXCEPT ![tp].a0 = a][tp].a0 = a
           /\ program'[tp] \in Registers
PROOF
<1> DEFINE new == [pc |-> program[tp].pc + 1, a0 |-> a]
<1>1. /\ tp \in Tasks /\ program \in Programs /\ program[tp].pc + 1 \in 0 .. MaxPc
      /\ \A t \in Ids(all_tasks) : t \in Tasks
  BY UserFacts, SchedulerAssumption DEF Registers
<1>2. new \in Registers /\ new \in [pc : 0 .. MaxPc + 1, a0 : Int] /\ new.a0 = a
  BY <1>1, SchedulerAssumption DEF Registers
<1>3. program' = [program EXCEPT ![tp] = new]
  OBVIOUS
<1>4. SaveEcall \in Contexts /\ \A t \in Ids(all_tasks) \ {tp} : SaveEcall[t] = program[t]
  BY EcallFacts
<1>5. [SaveEcall[tp] EXCEPT !.a0 = a] = new
  BY EcallFacts
<1>6. [SaveEcall EXCEPT ![tp].a0 = a] = [SaveEcall EXCEPT ![tp] = new]
  BY <1>5
<1> HIDE DEF new
<1>7. program' \in Programs /\ program'[tp] = new
  BY <1>1, <1>2, <1>3 DEF Programs
<1>8. /\ [SaveEcall EXCEPT ![tp] = new] \in Contexts
      /\ [SaveEcall EXCEPT ![tp] = new][tp] = new
      /\ \A t \in Ids(all_tasks) : [SaveEcall EXCEPT ![tp] = new][t] = program'[t]
  BY <1>1, <1>2, <1>3, <1>4 DEF Contexts, Programs
<1> QED BY <1>2, <1>6, <1>7, <1>8

\* sys_yield, whose answer is stored once or twice, depending on the layout.
LEMMA YieldStep == IInv /\ sys_yield => Good(tp, event')
PROOF
<1> SUFFICES ASSUME IInv, sys_yield PROVE Good(tp, event')
  OBVIOUS
<1> DEFINE saved == [SaveEcall EXCEPT ![tp].a0 = 0]
<1>1. /\ phase = "user" /\ event' = "yield" /\ regs.pc < MaxPc
      /\ program' = [program EXCEPT ![tp] = [pc |-> @.pc + 1, a0 |-> 0]]
      /\ Leave("Ready", saved, 0)
  BY DEF sys_yield, Trap
<1>2. /\ saved \in Contexts /\ program' \in Programs /\ saved[tp].a0 = 0
      /\ \A t \in Ids(all_tasks) : saved[t] = program'[t]
  <2>1. 0 \in Int
    OBVIOUS
  <2> QED BY <1>1, <2>1, AnswerFacts
<1> HIDE DEF saved
<1>3. /\ IInv' /\ Ids(all_tasks)' = Ids(all_tasks)
      /\ Ids(all_tasks) # {tp} => tp' # tp
  BY <1>1, <1>2, LeaveFacts
<1> QED BY <1>1, <1>3 DEF Good

\* A system call that returns to its task, whatever it returns.
LEMMA SyscallStep ==
    ASSUME IInv, NEW result \in Int, Syscall(result)
    PROVE  Good(tp, event')
PROOF
<1> DEFINE saved == [SaveEcall EXCEPT ![tp].a0 = result]
<1>1. /\ phase = "user" /\ event' = "syscall" /\ regs.pc < MaxPc
      /\ program' = [program EXCEPT ![tp] = [pc |-> @.pc + 1, a0 |-> result]]
      /\ contexts' = saved /\ regs' = contexts'[tp]
      /\ UNCHANGED <<layout, all_tasks, locked, tp, satp, phase>>
  BY DEF Syscall, Trap
<1>2. /\ saved \in Contexts /\ program' \in Programs
      /\ \A t \in Ids(all_tasks) : saved[t] = program'[t]
      /\ program'[tp] \in Registers
  BY <1>1, AnswerFacts
<1> HIDE DEF saved
<1>3. regs' = program'[tp] /\ tp \in Ids(all_tasks)
  BY <1>1, <1>2, UserFacts
<1>4. TypeOK'
  BY <1>1, <1>2, <1>3 DEF IInv, TypeOK, Contexts, Registers
<1>5. OneRunning' /\ Once(all_tasks)' /\ NoPanic' /\ Booting'
  BY <1>1 DEF IInv, OneRunning, Listed, Once, NoPanic, Booting
<1>6. InUserMode' /\ ResumesItself'
  BY <1>1, <1>2, <1>3 DEF IInv, InUserMode, ResumesItself, Ids
<1>7. Ids(all_tasks)' = Ids(all_tasks)
  BY <1>1
<1> QED BY <1>1, <1>2, <1>4, <1>5, <1>6, <1>7 DEF IInv, Good

\* An instruction of the task itself.
LEMMA ComputeStep == IInv /\ Compute => Good(tp, event')
PROOF
<1> SUFFICES ASSUME IInv, Compute PROVE Good(tp, event')
  OBVIOUS
<1>1. /\ phase = "user" /\ event' = "compute" /\ regs.pc < MaxPc
      /\ regs' = [regs EXCEPT !.pc = @ + 1]
      /\ program' = [program EXCEPT ![tp].pc = @ + 1]
      /\ UNCHANGED <<layout, all_tasks, locked, tp, satp, contexts, phase>>
  BY DEF Compute
<1>2. tp \in Tasks /\ regs = program[tp] /\ regs \in Registers /\ program \in Programs
  BY <1>1, UserFacts
<1>3. regs' \in Registers
  BY <1>1, <1>2, SchedulerAssumption DEF Registers
<1>4. program' = [program EXCEPT ![tp] = regs']
  BY <1>1, <1>2
<1>5. program' \in Programs /\ program'[tp] = regs' /\ \A t \in Tasks \ {tp} : program'[t] = program[t]
  BY <1>2, <1>3, <1>4 DEF Programs
<1>6. TypeOK'
  BY <1>1, <1>3 DEF IInv, TypeOK, Registers
<1>7. OneRunning' /\ Once(all_tasks)' /\ NoPanic' /\ Booting'
  BY <1>1 DEF IInv, OneRunning, Listed, Once, NoPanic, Booting
<1>8. InUserMode' /\ ResumesItself'
  BY <1>1, <1>5, UserFacts DEF IInv, InUserMode, ResumesItself, Ids
<1>9. Ids(all_tasks)' = Ids(all_tasks)
  BY <1>1
<1> QED BY <1>1, <1>5, <1>6, <1>7, <1>8, <1>9 DEF IInv, Good

\* Every step of the hart.
LEMMA NextStep == IInv /\ Next => Good(tp, event')
PROOF
<1> SUFFICES ASSUME IInv, Next PROVE Good(tp, event')
  OBVIOUS
<1>1. ASSUME NEW a \in {-1, 1}, Syscall(a) PROVE Good(tp, event')
  BY <1>1, SyscallStep
<1> QED BY <1>1, StartStep, TimerStep, KillStep, ExitStep, YieldStep, ComputeStep
        DEF Next, Instruction

\* A step of something else.
LEMMA StutterStep == IInv /\ UNCHANGED vars => IInv'
PROOF
<1> SUFFICES ASSUME IInv, UNCHANGED vars PROVE IInv'
  OBVIOUS
<1> USE DEF vars
<1>1. TypeOK' /\ program' \in Programs
  BY DEF IInv, TypeOK
<1>2. OneRunning' /\ Once(all_tasks)' /\ NoPanic' /\ Booting'
  BY DEF IInv, OneRunning, Listed, Once, NoPanic, Booting
<1>3. InUserMode' /\ ResumesItself'
  BY DEF IInv, InUserMode, ResumesItself, Ids
<1> QED BY <1>1, <1>2, <1>3 DEF IInv

-----------------------------------------------------------------------------
(* The theorems.                                                           *)

\* The inductive invariant holds of every state the tasks can bring about.
THEOREM Invariance == Spec => []IInv
PROOF
<1>1. IInv /\ [Next]_vars => IInv'
  BY NextStep, StutterStep DEF Good
<1> QED BY InitIInv, <1>1, PTL DEF Spec

\* Types: between traps the tasks in ALL_TASKS are Ready or Running, whatever the
\* number of tasks and the length of their programs.
THEOREM TypeCorrect == Spec => []TypeOK
PROOF
<1>1. IInv => TypeOK
  BY DEF IInv
<1> QED BY <1>1, Invariance, PTL

\* In user mode exactly one task is Running in ALL_TASKS: the one whose context
\* and page tables are in use.  No task is listed twice, whatever random places
\* take_task_tcb draws.
THEOREM RunsOne == Spec => []OneRunning
PROOF
<1>1. IInv => OneRunning
  BY DEF IInv
<1> QED BY <1>1, Invariance, PTL

\* A task that is switched to always has the registers it would have alone,
\* although __switch reads and writes TCBs that have been moved away.
THEOREM ResumesCorrectly == Spec => []ResumesItself
PROOF
<1>1. IInv => ResumesItself
  BY DEF IInv
<1> QED BY <1>1, Invariance, PTL

\* exchange_current_task_state never finds the current task missing or in a
\* state it does not expect.
THEOREM NeverPanics == Spec => []NoPanic
PROOF
<1>1. IInv => NoPanic
  BY DEF IInv
<1> QED BY <1>1, Invariance, PTL

\* After sys_yield or a timer interrupt another task runs, if there is one:
\* the current one is put back behind the first Ready one.
THEOREM GivesWay == Spec => OthersGoFirst
PROOF
<1>1. IInv /\ [Next]_vars =>
        [event' \in {"timer", "yield"} /\ phase = "user" /\ Listed # {tp} => tp' # tp]_vars
  BY NextStep, ListFacts DEF Good
<1> QED BY <1>1, Invariance, PTL DEF Spec, OthersGoFirst

\* A TCB leaves ALL_TASKS for good only when its task exits or is killed while
\* it runs; shuffling the list loses none.
THEOREM LeavesByItself == Spec => OnlyTheRunningTaskLeaves
PROOF
<1>1. IInv /\ IInv' /\ [Next]_vars =>
        [Listed' # Listed => Listed' = Listed \ {tp} /\ event' \in {"exit", "kill"}]_vars
  <2> SUFFICES ASSUME IInv, IInv', Next, Listed' # Listed
               PROVE  Listed' = Listed \ {tp} /\ event' \in {"exit", "kill"}
    OBVIOUS
  <2>1. Listed = Ids(all_tasks)
    BY ListFacts
  <2>2. Listed' = Ids(all_tasks)'
    <3>1. DOMAIN all_tasks' = 1 .. Len(all_tasks')
      BY DEF IInv, TypeOK
    <3> QED BY <3>1 DEF Listed, Ids
  <2> QED BY NextStep, <2>1, <2>2 DEF Good
<1> QED BY <1>1, Invariance, PTL DEF Spec, OnlyTheRunningTaskLeaves
=============================================================================
