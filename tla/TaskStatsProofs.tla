--------------------------- MODULE TaskStatsProofs ---------------------------
(***************************************************************************)
(* The statistics of TaskStats, proved right for every number of tasks,    *)
(* every size of the syscall table and every course of mtime.  The         *)
(* scheduling below them is that of Scheduler: its inductive invariant     *)
(* says who is listed and who runs.                                        *)
(***************************************************************************)
EXTENDS TaskStats, SchedulerProofs

CallIds == SyscallIds \cup {YieldId, ExitId}
Entry   == [id : {0} \cup CallIds, calls : Nat]

Statistics ==
    [first_run_start : Nat, last_run_start : Nat, last_run_end : Nat,
     total_executed : Nat, total_waiting : Nat, switch_count : Nat,
     syscall_counts : Seq(Entry)]

Histories ==
    [out_since : Nat, waited : Nat, outs : Nat, yielded : BOOLEAN, calls : [CallIds -> Nat]]

-----------------------------------------------------------------------------
(* The table of syscall counts.                                            *)

\* The table and the true counts: an id has one slot and its exact count, the
\* slots are filled from the front, an unused one counts nothing, and a call
\* is missing only from a table that is full.
TableOK(table, calls) ==
    /\ \A i, j \in 1 .. Len(table) : i # j /\ table[i].id # 0 => table[i].id # table[j].id
    /\ \A i \in 1 .. Len(table) :
          table[i].calls = IF table[i].id = 0 THEN 0 ELSE calls[table[i].id]
    /\ \A i, j \in 1 .. Len(table) : i < j /\ table[i].id = 0 => table[j].id = 0
    /\ \A id \in CallIds : calls[id] > 0 =>
          \/ \E i \in 1 .. Len(table) : table[i].id = id
          \/ \A i \in 1 .. Len(table) : table[i].id # 0

\* No syscall has the id 0 that marks an unused slot.
LEMMA NonZeroIds == \A id \in CallIds : id \in Nat \ {0}
PROOF BY StatsAssumption DEF CallIds

\* The slot that increase_syscall_count looks for.
LEMMA SlotFacts ==
    ASSUME NEW table \in Seq(Entry), NEW id \in CallIds
    PROVE  LET i == SelectInSeq(table, LAMBDA e : e.id = id \/ e.id = 0) IN
           \/ /\ i = 0
              /\ \A j \in 1 .. Len(table) : table[j].id # id /\ table[j].id # 0
           \/ /\ i \in 1 .. Len(table)
              /\ table[i].id = id \/ table[i].id = 0
              /\ \A j \in 1 .. i - 1 : table[j].id # id /\ table[j].id # 0
PROOF
<1> DEFINE I == {k \in 1 .. Len(table) : table[k].id = id \/ table[k].id = 0}
           i == SelectInSeq(table, LAMBDA e : e.id = id \/ e.id = 0)
<1>1. i = IF I # {} THEN Min(I) ELSE 0
  BY DEF SelectInSeq
<1>2. I \in SUBSET Nat
  OBVIOUS
<1> HIDE DEF i
<1>3. CASE I = {}
  BY <1>1, <1>3 DEF i
<1>4. CASE I # {}
  <2>1. i \in I /\ \A y \in I : i <= y
    BY <1>1, <1>2, <1>4, MinNat
  <2>2. \A j \in 1 .. i - 1 : table[j].id # id /\ table[j].id # 0
    BY <2>1
  <2> QED BY <2>1, <2>2 DEF i
<1> QED BY <1>3, <1>4

\* A call of `id` is counted exactly, or the table is full of other ids.
LEMMA CountFacts ==
    ASSUME NEW table \in Seq(Entry), NEW calls \in [CallIds -> Nat], NEW id \in CallIds,
           TableOK(table, calls),
           NEW i \in 1 .. Len(table),
           table[i].id = id \/ table[i].id = 0,
           \A j \in 1 .. i - 1 : table[j].id # id /\ table[j].id # 0
    PROVE  LET new == [table EXCEPT ![i] = [id |-> id, calls |-> table[i].calls + 1]] IN
           /\ new \in Seq(Entry)
           /\ TableOK(new, [calls EXCEPT ![id] = calls[id] + 1])
PROOF
<1> DEFINE e    == [id |-> id, calls |-> table[i].calls + 1]
           new  == [table EXCEPT ![i] = e]
           true == [calls EXCEPT ![id] = calls[id] + 1]
<1>0. id # 0
  BY NonZeroIds
<1>1. \A j \in 1 .. Len(table) : table[j] \in Entry
  OBVIOUS
<1>2. \A j \in 1 .. Len(table) : table[j].id \in {0} \cup CallIds /\ table[j].calls \in Nat
  BY <1>1 DEF Entry
<1>3. e \in Entry /\ e.id = id /\ e.calls = table[i].calls + 1
  BY <1>2 DEF Entry
<1> HIDE DEF e
<1>4. /\ new \in Seq(Entry) /\ Len(new) = Len(table)
      /\ new[i] = e /\ \A j \in 1 .. Len(table) : j # i => new[j] = table[j]
  BY <1>3
<1>5. /\ true[id] = calls[id] + 1
      /\ \A k \in CallIds : k # id => true[k] = calls[k]
  OBVIOUS
<1> HIDE DEF new, true
<1>6. ASSUME NEW j \in 1 .. Len(table), j # i PROVE table[j].id # id
  <2>1. CASE table[i].id = id
    BY <1>0, <1>6, <2>1 DEF TableOK
  <2>2. CASE table[i].id = 0 /\ j < i
    BY <2>2
  <2>3. CASE table[i].id = 0 /\ i < j
    BY <1>0, <2>3 DEF TableOK
  <2> QED BY <1>6, <2>1, <2>2, <2>3
<1>7. table[i].calls = calls[id]
  <2>1. CASE table[i].id = id
    BY <1>0, <2>1 DEF TableOK
  <2>2. CASE table[i].id = 0
    <3>1. ~(calls[id] > 0)
      BY <1>0, <1>6, <2>2 DEF TableOK
    <3>2. table[i].calls = 0 /\ calls[id] \in Nat
      BY <2>2 DEF TableOK
    <3> QED BY <3>1, <3>2
  <2> QED BY <2>1, <2>2
<1>8. /\ \A j, k \in 1 .. Len(new) : j # k /\ new[j].id # 0 => new[j].id # new[k].id
      /\ \A j \in 1 .. Len(new) :
            new[j].calls = IF new[j].id = 0 THEN 0 ELSE true[new[j].id]
  <2>1. ASSUME NEW j \in 1 .. Len(new), NEW k \in 1 .. Len(new), j # k, new[j].id # 0
        PROVE  new[j].id # new[k].id
    <3>1. CASE j = i \/ k = i
      BY <1>3, <1>4, <1>6, <2>1, <3>1
    <3>2. CASE j # i /\ k # i
      BY <1>4, <2>1, <3>2 DEF TableOK
    <3> QED BY <3>1, <3>2
  <2>2. ASSUME NEW j \in 1 .. Len(new)
        PROVE  new[j].calls = IF new[j].id = 0 THEN 0 ELSE true[new[j].id]
    <3>1. CASE j = i
      BY <1>0, <1>3, <1>4, <1>5, <1>7, <3>1
    <3>2. CASE j # i
      <4>1. new[j] = table[j] /\ table[j].id # id /\ j \in 1 .. Len(table)
        BY <1>4, <1>6, <3>2
      <4> QED BY <1>2, <1>5, <4>1 DEF TableOK
    <3> QED BY <3>1, <3>2
  <2> QED BY <2>1, <2>2
<1>9. \A j, k \in 1 .. Len(new) : j < k /\ new[j].id = 0 => new[k].id = 0
  <2> SUFFICES ASSUME NEW j \in 1 .. Len(new), NEW k \in 1 .. Len(new), j < k, new[j].id = 0
               PROVE  new[k].id = 0
    OBVIOUS
  <2>1. j # i /\ table[j].id = 0
    BY <1>0, <1>3, <1>4
  <2>2. ~(j < i)
    BY <2>1, <1>4
  <2>3. k # i /\ table[k].id = 0
    BY <1>4, <2>1, <2>2 DEF TableOK
  <2> QED BY <1>4, <2>3
<1>10. ASSUME NEW k \in CallIds, true[k] > 0
       PROVE  \/ \E j \in 1 .. Len(new) : new[j].id = k
              \/ \A j \in 1 .. Len(new) : new[j].id # 0
  <2>1. CASE k = id
    BY <1>3, <1>4, <2>1
  <2>2. CASE k # id
    <3>1. calls[k] > 0
      BY <1>5, <1>10, <2>2
    <3>2. CASE \E j \in 1 .. Len(table) : table[j].id = k
      <4>1. PICK j \in 1 .. Len(table) : table[j].id = k
        BY <3>2
      <4>2. CASE j # i
        BY <1>4, <4>1, <4>2
      <4>3. CASE j = i
        BY <2>2, <4>1, <4>3, NonZeroIds
      <4> QED BY <4>2, <4>3
    <3>3. CASE \A j \in 1 .. Len(table) : table[j].id # 0
      BY <1>0, <1>3, <1>4, <3>3
    <3> QED BY <3>1, <3>2, <3>3 DEF TableOK
  <2> QED BY <2>1, <2>2
<1> QED BY <1>4, <1>8, <1>9, <1>10 DEF TableOK, new, e, true

\* increase_syscall_count keeps the table exact and changes nothing else.
LEMMA IncreaseFacts ==
    ASSUME NEW s \in Statistics, NEW calls \in [CallIds -> Nat], NEW id \in CallIds,
           TableOK(s.syscall_counts, calls)
    PROVE  LET new == increase_syscall_count(s, id) IN
           /\ new \in Statistics
           /\ TableOK(new.syscall_counts, [calls EXCEPT ![id] = calls[id] + 1])
           /\ new = [s EXCEPT !.syscall_counts = new.syscall_counts]
PROOF
<1> DEFINE table == s.syscall_counts
           i     == SelectInSeq(table, LAMBDA e : e.id = id \/ e.id = 0)
           put   == [table EXCEPT ![i] = [id |-> id, calls |-> table[i].calls + 1]]
<1>1. table \in Seq(Entry)
  BY DEF Statistics
<1>2. increase_syscall_count(s, id) = IF i = 0 THEN s ELSE [s EXCEPT !.syscall_counts = put]
  BY DEF increase_syscall_count
<1>3. \/ /\ i = 0
         /\ \A j \in 1 .. Len(table) : table[j].id # id /\ table[j].id # 0
      \/ /\ i \in 1 .. Len(table)
         /\ table[i].id = id \/ table[i].id = 0
         /\ \A j \in 1 .. i - 1 : table[j].id # id /\ table[j].id # 0
  BY <1>1, SlotFacts
<1> HIDE DEF i
<1>4. CASE i = 0
  <2>1. \A j \in 1 .. Len(table) : table[j].id # id /\ table[j].id # 0
    BY <1>3, <1>4
  <2>2. [s EXCEPT !.syscall_counts = s.syscall_counts] = s
    BY DEF Statistics
  <2>3. \A j \in 1 .. Len(table) : table[j].id \in CallIds
    <3>1. \A j \in 1 .. Len(table) : table[j] \in Entry
      BY <1>1
    <3> QED BY <2>1, <3>1 DEF Entry
  <2>4. TableOK(table, [calls EXCEPT ![id] = calls[id] + 1])
    BY <2>1, <2>3 DEF TableOK
  <2> QED BY <1>2, <1>4, <2>2, <2>4
<1>5. CASE i # 0
  <2>1. put \in Seq(Entry) /\ TableOK(put, [calls EXCEPT ![id] = calls[id] + 1])
    BY <1>1, <1>3, <1>5, CountFacts
  <2> HIDE DEF put
  <2>2. /\ [s EXCEPT !.syscall_counts = put] \in Statistics
        /\ [s EXCEPT !.syscall_counts = put].syscall_counts = put
    BY <2>1 DEF Statistics
  <2> QED BY <1>2, <1>5, <2>1, <2>2
<1> QED BY <1>4, <1>5

-----------------------------------------------------------------------------
(* One task's statistics and its history.                                  *)

\* s was recorded by the time `now`; a task that never ran has no history.
RecordOK(s, h, now) ==
    /\ s \in Statistics /\ h \in Histories
    /\ s.last_run_start <= now /\ s.last_run_end <= now /\ h.out_since <= now
    /\ s.first_run_start = 0 =>
          /\ s.total_executed = 0 /\ s.total_waiting = 0 /\ s.switch_count = 0
          /\ h.outs = 0 /\ h.waited = 0
    /\ TableOK(s.syscall_counts, h.calls)

\* TicksAccountedFor for one task, with what makes it last: the time a waiting
\* task was switched out is the end of its last run.
Accounted(s, h, runs) ==
    s.first_run_start # 0 /\ ~h.yielded =>
        /\ s.total_executed + s.total_waiting + s.first_run_start
               = IF runs THEN s.last_run_start ELSE s.last_run_end
        /\ s.switch_count = h.outs
        /\ s.total_waiting = h.waited
        /\ ~runs => h.outs > 0 /\ h.out_since = s.last_run_end

SwitchOut(h, e) == [h EXCEPT !.out_since = e, !.outs = @ + 1]

SwitchIn(h, f) == IF h.outs > 0 THEN [h EXCEPT !.waited = @ + (f - h.out_since)] ELSE h

\* Time passes.
LEMMA LaterFacts ==
    ASSUME NEW s, NEW h, NEW now \in Nat, RecordOK(s, h, now), NEW later \in Nat, now <= later
    PROVE  RecordOK(s, h, later)
PROOF
<1>1. s.last_run_start \in Nat /\ s.last_run_end \in Nat /\ h.out_since \in Nat
  BY DEF RecordOK, Statistics, Histories
<1> QED BY <1>1 DEF RecordOK

\* record_run_start: the difference it adds is not negative, and it is the time
\* the task has waited.
LEMMA StartFacts ==
    ASSUME NEW s, NEW h, NEW now \in Nat, NEW f \in Nat \ {0}, now <= f,
           RecordOK(s, h, now)
    PROVE  /\ RecordOK(record_run_start(s, f), SwitchIn(h, f), f)
           /\ record_run_start(s, f).first_run_start # 0
           /\ Accounted(s, h, FALSE) => Accounted(record_run_start(s, f), SwitchIn(h, f), TRUE)
PROOF
<1> DEFINE s1 == record_run_start(s, f)
           h1 == SwitchIn(h, f)
<1>1. s \in Statistics /\ h \in Histories
  BY DEF RecordOK
<1>2. /\ s.first_run_start \in Nat /\ s.last_run_start \in Nat /\ s.last_run_end \in Nat
      /\ s.total_executed \in Nat /\ s.total_waiting \in Nat /\ s.switch_count \in Nat
  BY <1>1 DEF Statistics
<1>3. h.out_since \in Nat /\ h.waited \in Nat /\ h.outs \in Nat
  BY <1>1 DEF Histories
<1>4. /\ h1 \in Histories /\ h1.calls = h.calls /\ h1.outs = h.outs /\ h1.out_since = h.out_since
      /\ h1.yielded = h.yielded
      /\ h1.waited = IF h.outs > 0 THEN h.waited + (f - h.out_since) ELSE h.waited
  <2>1. h.waited + (f - h.out_since) \in Nat
    BY <1>3 DEF RecordOK
  <2> QED BY <1>1, <1>3, <2>1 DEF SwitchIn, Histories
<1>5. CASE s.first_run_start = 0
  <2>1. s1 = [s EXCEPT !.first_run_start = f, !.last_run_start = f]
    BY <1>5 DEF record_run_start
  <2>2. /\ s1 \in Statistics /\ s1.first_run_start = f /\ s1.last_run_start = f
        /\ s1.last_run_end = s.last_run_end /\ s1.total_executed = s.total_executed
        /\ s1.total_waiting = s.total_waiting /\ s1.switch_count = s.switch_count
        /\ s1.syscall_counts = s.syscall_counts
    BY <1>1, <2>1 DEF Statistics
  <2> HIDE DEF s1, h1
  <2>3. RecordOK(s1, h1, f) /\ s1.first_run_start # 0
    BY <1>2, <1>3, <1>4, <2>2 DEF RecordOK
  <2>4. Accounted(s1, h1, TRUE)
    BY <1>2, <1>3, <1>4, <1>5, <2>2 DEF RecordOK, Accounted
  <2> QED BY <2>3, <2>4 DEF s1, h1
<1>6. CASE s.first_run_start # 0
  <2>1. s1 = [s EXCEPT !.total_waiting = @ + (f - s.last_run_end), !.last_run_start = f]
    BY <1>6 DEF record_run_start
  <2>2. s.total_waiting + (f - s.last_run_end) \in Nat
    BY <1>2 DEF RecordOK
  <2>3. /\ s1 \in Statistics /\ s1.first_run_start = s.first_run_start /\ s1.last_run_start = f
        /\ s1.last_run_end = s.last_run_end /\ s1.total_executed = s.total_executed
        /\ s1.total_waiting = s.total_waiting + (f - s.last_run_end)
        /\ s1.switch_count = s.switch_count
        /\ s1.syscall_counts = s.syscall_counts
    BY <1>1, <2>1, <2>2 DEF Statistics
  <2> HIDE DEF s1, h1
  <2>4. RecordOK(s1, h1, f) /\ s1.first_run_start # 0
    BY <1>2, <1>3, <1>4, <1>6, <2>3 DEF RecordOK
  <2>5. Accounted(s, h, FALSE) => Accounted(s1, h1, TRUE)
    BY <1>2, <1>3, <1>4, <1>6, <2>3 DEF Accounted
  <2> QED BY <2>4, <2>5 DEF s1, h1
<1> QED BY <1>5, <1>6

\* record_run_end: the difference it adds is not negative, and it is the time
\* the task has run.
LEMMA EndFacts ==
    ASSUME NEW s, NEW h, NEW now \in Nat, NEW e \in Nat, now <= e,
           RecordOK(s, h, now), s.first_run_start # 0, Accounted(s, h, TRUE)
    PROVE  /\ RecordOK(record_run_end(s, e), SwitchOut(h, e), e)
           /\ Accounted(record_run_end(s, e), SwitchOut(h, e), FALSE)
PROOF
<1> DEFINE s1 == record_run_end(s, e)
           h1 == SwitchOut(h, e)
<1>1. s \in Statistics /\ h \in Histories
  BY DEF RecordOK
<1>2. /\ s.first_run_start \in Nat /\ s.last_run_start \in Nat /\ s.last_run_end \in Nat
      /\ s.total_executed \in Nat /\ s.total_waiting \in Nat /\ s.switch_count \in Nat
  BY <1>1 DEF Statistics
<1>3. h.out_since \in Nat /\ h.waited \in Nat /\ h.outs \in Nat
  BY <1>1 DEF Histories
<1>4. /\ h1 \in Histories /\ h1.calls = h.calls /\ h1.outs = h.outs + 1 /\ h1.out_since = e
      /\ h1.yielded = h.yielded /\ h1.waited = h.waited
  <2>1. PICK n \in Nat : n = h.outs + 1
    BY <1>3
  <2>2. h1 = [h EXCEPT !.out_since = e, !.outs = n]
    BY <2>1 DEF SwitchOut
  <2> QED BY <1>1, <2>1, <2>2 DEF Histories
<1>5. s.total_executed + (e - s.last_run_start) \in Nat
  BY <1>2 DEF RecordOK
<1>6. /\ s1 \in Statistics /\ s1.first_run_start = s.first_run_start
      /\ s1.last_run_start = s.last_run_start /\ s1.last_run_end = e
      /\ s1.total_executed = s.total_executed + (e - s.last_run_start)
      /\ s1.total_waiting = s.total_waiting
      /\ s1.switch_count = s.switch_count + 1
      /\ s1.syscall_counts = s.syscall_counts
  <2>1. PICK n \in Nat : n = s.switch_count + 1
    BY <1>2
  <2>2. PICK x \in Nat : x = s.total_executed + (e - s.last_run_start)
    BY <1>5
  <2>3. s1 = [s EXCEPT !.last_run_end = e, !.total_executed = x, !.switch_count = n]
    BY <2>1, <2>2 DEF record_run_end
  <2> QED BY <1>1, <2>1, <2>2, <2>3 DEF Statistics
<1> HIDE DEF s1, h1
<1>7. RecordOK(s1, h1, e)
  BY <1>2, <1>3, <1>4, <1>6 DEF RecordOK
<1>8. Accounted(s1, h1, FALSE)
  BY <1>2, <1>3, <1>4, <1>6 DEF Accounted
<1> QED BY <1>7, <1>8 DEF s1, h1

\* A task is switched out without a record: sys_yield and sys_exit.
LEMMA OutFacts ==
    ASSUME NEW s, NEW h, NEW now \in Nat, NEW e \in Nat, now <= e,
           RecordOK(s, h, now), s.first_run_start # 0
    PROVE  /\ RecordOK(s, SwitchOut(h, e), e)
           /\ SwitchOut(h, e).yielded = h.yielded
PROOF
<1> DEFINE h1 == SwitchOut(h, e)
<1>1. s \in Statistics /\ h \in Histories
  BY DEF RecordOK
<1>2. PICK n \in Nat : n = h.outs + 1
  BY <1>1 DEF Histories
<1>3. h1 = [h EXCEPT !.out_since = e, !.outs = n]
  BY <1>2 DEF SwitchOut
<1>4. h1 \in Histories /\ h1.calls = h.calls /\ h1.out_since = e /\ h1.yielded = h.yielded
  BY <1>1, <1>3 DEF Histories
<1> HIDE DEF h1
<1>5. s.last_run_start \in Nat /\ s.last_run_end \in Nat
  BY <1>1 DEF Statistics
<1>6. RecordOK(s, h1, e)
  BY <1>4, <1>5 DEF RecordOK
<1> QED BY <1>4, <1>6 DEF h1

Counted(h, id) == [h EXCEPT !.calls = [h.calls EXCEPT ![id] = h.calls[id] + 1]]

\* A system call is counted in the table as it is in the history; the times do
\* not change.
LEMMA CallFacts ==
    ASSUME NEW s, NEW h, NEW now \in Nat, RecordOK(s, h, now), NEW id \in CallIds
    PROVE  LET s1 == increase_syscall_count(s, id)
               h1 == Counted(h, id)
           IN  /\ RecordOK(s1, h1, now)
               /\ s1.first_run_start = s.first_run_start
               /\ \A runs \in BOOLEAN : Accounted(s, h, runs) => Accounted(s1, h1, runs)
PROOF
<1> DEFINE s1 == increase_syscall_count(s, id)
           h1 == Counted(h, id)
           calls == [h.calls EXCEPT ![id] = h.calls[id] + 1]
<1>1. s \in Statistics /\ h \in Histories /\ TableOK(s.syscall_counts, h.calls)
  BY DEF RecordOK
<1>2. h.calls \in [CallIds -> Nat]
  BY <1>1 DEF Histories
<1>3. /\ s1 \in Statistics /\ TableOK(s1.syscall_counts, calls)
      /\ s1 = [s EXCEPT !.syscall_counts = s1.syscall_counts]
  BY <1>1, <1>2, IncreaseFacts
<1> HIDE DEF s1
<1>4. /\ s1.first_run_start = s.first_run_start /\ s1.last_run_start = s.last_run_start
      /\ s1.last_run_end = s.last_run_end /\ s1.total_executed = s.total_executed
      /\ s1.total_waiting = s.total_waiting /\ s1.switch_count = s.switch_count
  BY <1>1, <1>3 DEF Statistics
<1>5. calls \in [CallIds -> Nat] /\ h1 = [h EXCEPT !.calls = calls]
  BY <1>2 DEF Counted
<1> HIDE DEF calls, h1
<1>6. /\ h1 \in Histories /\ h1.calls = calls /\ h1.out_since = h.out_since
      /\ h1.waited = h.waited /\ h1.outs = h.outs /\ h1.yielded = h.yielded
  BY <1>1, <1>5 DEF Histories
<1>7. RecordOK(s1, h1, now)
  BY <1>3, <1>4, <1>6 DEF RecordOK
<1>8. \A runs \in BOOLEAN : Accounted(s, h, runs) => Accounted(s1, h1, runs)
  BY <1>4, <1>6, Zenon DEF Accounted
<1> QED BY <1>4, <1>7, <1>8 DEF s1, h1

-----------------------------------------------------------------------------
(* The inductive invariant.                                                *)

SInv ==
    /\ IInv
    /\ time \in 1 .. MaxTime
    /\ \A t \in Tasks : RecordOK(stats[t], truth[t], time)
    /\ stats = [t \in Tasks |-> stats[t]] /\ truth = [t \in Tasks |-> truth[t]]
    /\ \A t \in Tasks : Running(t) => stats[t].first_run_start # 0
    /\ \A t \in Ids(all_tasks) : Accounted(stats[t], truth[t], Running(t))

\* run_next_task as the statistics see it: tp has left its record and its
\* history in order, then those of the next task are begun.
LEMMA PassFacts ==
    ASSUME SInv, phase \in {"boot", "user"}, IInv',
           Ids(all_tasks)' \subseteq Ids(all_tasks),
           NEW s, NEW h, NEW e \in Nat, NEW f \in Nat,
           time <= e, e <= f, f <= MaxTime,
           phase = "user" => RecordOK(s, SwitchOut(h, e), e),
           phase = "user" /\ tp \in Ids(all_tasks)' => Accounted(s, SwitchOut(h, e), FALSE),
           Pass(s, h, e, f)
    PROVE  SInv'
PROOF
<1> DEFINE out(t) == IF t = tp THEN s ELSE stats[t]
           was(t) == IF t = tp THEN SwitchOut(h, e) ELSE truth[t]
           picked(t) == phase' = "user" /\ t = tp'
<1>1. /\ time' = f
      /\ stats' = [t \in Tasks |-> IF picked(t) THEN record_run_start(out(t), f) ELSE out(t)]
      /\ truth' = [t \in Tasks |-> IF picked(t) THEN SwitchIn(was(t), f) ELSE was(t)]
  <2>1. /\ time' = f
        /\ stats' = [t \in Tasks |-> IF picked(t) THEN record_run_start(out(t), f) ELSE out(t)]
    BY DEF Pass
  <2>2. truth' = [t \in Tasks |-> IF picked(t) /\ was(t).outs > 0
                                   THEN [was(t) EXCEPT !.waited = @ + (f - was(t).out_since)]
                                   ELSE was(t)]
    BY DEF Pass, SwitchOut
  <2> HIDE DEF picked, was
  <2>3. \A t \in Tasks : (IF picked(t) /\ was(t).outs > 0
                           THEN [was(t) EXCEPT !.waited = @ + (f - was(t).out_since)]
                           ELSE was(t)) = IF picked(t) THEN SwitchIn(was(t), f) ELSE was(t)
    BY DEF SwitchIn
  <2> QED BY <2>1, <2>2, <2>3
<1>2. time \in Nat \ {0} /\ f \in Nat \ {0} /\ f \in 1 .. MaxTime
  BY StatsAssumption DEF SInv
<1>3. phase = "boot" => tp \notin Tasks
  BY SchedulerAssumption DEF SInv, IInv, Booting, Tasks
<1>4. ASSUME NEW t \in Tasks
      PROVE  /\ RecordOK(out(t), was(t), e)
             /\ t \in Ids(all_tasks)' => Accounted(out(t), was(t), FALSE)
  <2>1. CASE t = tp
    BY <1>3, <1>4, <2>1
  <2>2. CASE t # tp
    <3>1. RecordOK(stats[t], truth[t], time) /\ ~Running(t)
      BY <2>2 DEF SInv, Running
    <3>2. RecordOK(stats[t], truth[t], e)
      BY <1>2, <3>1, LaterFacts
    <3>3. t \in Ids(all_tasks) => Accounted(stats[t], truth[t], FALSE)
      BY <3>1, Zenon DEF SInv, Accounted
    <3> QED BY <2>2, <3>2, <3>3
  <2> QED BY <2>1, <2>2
<1> HIDE DEF out, was
<1>5. ASSUME NEW t \in Tasks
      PROVE  /\ RecordOK(stats'[t], truth'[t], f)
             /\ picked(t) => stats'[t].first_run_start # 0
             /\ t \in Ids(all_tasks)' => Accounted(stats'[t], truth'[t], picked(t))
  <2>1. CASE picked(t)
    <3>1. stats'[t] = record_run_start(out(t), f) /\ truth'[t] = SwitchIn(was(t), f)
      BY <1>1, <2>1
    <3>2. /\ RecordOK(stats'[t], truth'[t], f) /\ stats'[t].first_run_start # 0
          /\ Accounted(out(t), was(t), FALSE) => Accounted(stats'[t], truth'[t], TRUE)
      BY <1>2, <1>4, <3>1, StartFacts
    <3>3. t \in Ids(all_tasks)' => Accounted(stats'[t], truth'[t], picked(t))
      BY <1>4, <2>1, <3>2, Zenon DEF Accounted
    <3> QED BY <3>2, <3>3
  <2>2. CASE ~picked(t)
    <3>1. stats'[t] = out(t) /\ truth'[t] = was(t)
      BY <1>1, <2>2
    <3>2. RecordOK(stats'[t], truth'[t], f)
      BY <1>2, <1>4, <3>1, LaterFacts
    <3>3. t \in Ids(all_tasks)' => Accounted(stats'[t], truth'[t], picked(t))
      BY <1>4, <2>2, <3>1, Zenon DEF Accounted
    <3> QED BY <2>2, <3>2, <3>3
  <2> QED BY <2>1, <2>2
<1>6. \A t \in Tasks : picked(t) <=> Running(t)'
  BY DEF Running
<1>7. Ids(all_tasks)' \subseteq Tasks
  BY ListFacts DEF SInv
<1>8. stats' = [t \in Tasks |-> stats'[t]] /\ truth' = [t \in Tasks |-> truth'[t]]
  BY <1>1
<1> HIDE DEF picked
<1>9. \A t \in Ids(all_tasks)' : Accounted(stats'[t], truth'[t], Running(t)')
  BY <1>5, <1>6, <1>7, Zenon DEF Accounted
<1> QED BY <1>1, <1>2, <1>5, <1>6, <1>8, <1>9 DEF SInv

-----------------------------------------------------------------------------
(* The steps.                                                              *)

\* No task has run before the first switch.
LEMMA StatsInitInv == StatsInit => SInv
PROOF
<1> SUFFICES ASSUME StatsInit PROVE SInv
  OBVIOUS
<1>1. /\ IInv /\ time = 1 /\ phase = "boot"
      /\ stats = [t \in Tasks |-> new_zeros] /\ truth = [t \in Tasks |-> NoHistory]
  BY InitIInv DEF StatsInit, Init
<1>2. 1 \in 1 .. MaxTime /\ MAX_SYSCALLS_TRACKED \in Nat
  BY StatsAssumption
<1> DEFINE table == [i \in 1 .. MAX_SYSCALLS_TRACKED |-> [id |-> 0, calls |-> 0]]
<1>3. [id |-> 0, calls |-> 0] \in Entry
  BY DEF Entry
<1>4. /\ table \in Seq(Entry)
      /\ \A i \in 1 .. Len(table) : table[i].id = 0 /\ table[i].calls = 0
  <2>1. PICK e \in Entry : e = [id |-> 0, calls |-> 0]
    BY <1>3
  <2>2. table = [i \in 1 .. MAX_SYSCALLS_TRACKED |-> e] /\ e.id = 0 /\ e.calls = 0
    BY <2>1
  <2> HIDE DEF table
  <2>3. table \in Seq(Entry) /\ Len(table) = MAX_SYSCALLS_TRACKED
    BY <1>2, <2>2
  <2> QED BY <2>2, <2>3
<1>5. NoHistory \in Histories /\ NoHistory.calls = [id \in CallIds |-> 0]
      /\ NoHistory.out_since = 0 /\ NoHistory.outs = 0 /\ NoHistory.waited = 0
  BY DEF NoHistory, Histories, CallIds
<1>6. TableOK(table, NoHistory.calls)
  <2>1. \A id \in CallIds : NoHistory.calls[id] = 0
    BY <1>5
  <2> HIDE DEF table
  <2> QED BY <1>4, <2>1 DEF TableOK
<1>7. new_zeros = [first_run_start |-> 0, last_run_start |-> 0, last_run_end |-> 0,
                   total_executed |-> 0, total_waiting |-> 0, switch_count |-> 0,
                   syscall_counts |-> table]
  BY DEF new_zeros
<1> HIDE DEF table
<1>8. /\ new_zeros \in Statistics
      /\ new_zeros.first_run_start = 0 /\ new_zeros.last_run_start = 0
      /\ new_zeros.last_run_end = 0 /\ new_zeros.total_executed = 0
      /\ new_zeros.total_waiting = 0 /\ new_zeros.switch_count = 0
      /\ new_zeros.syscall_counts = table
  BY <1>4, <1>7 DEF Statistics
<1>9. RecordOK(new_zeros, NoHistory, 1)
  BY <1>5, <1>6, <1>8 DEF RecordOK
<1>10. \A t \in Tasks : ~Running(t)
  BY <1>1 DEF Running
<1>11. \A t \in Tasks : Accounted(stats[t], truth[t], Running(t))
  BY <1>1, <1>8 DEF Accounted
<1>12. Ids(all_tasks) \subseteq Tasks
  BY <1>1, ListFacts
<1> QED BY <1>1, <1>2, <1>9, <1>10, <1>11, <1>12 DEF SInv

\* The reads of mtime in a handler.
LEMMA ReadFacts ==
    ASSUME SInv, NEW r \in Reads
    PROVE  /\ r[1] \in Nat /\ r[2] \in Nat
           /\ time <= r[1] /\ r[1] <= r[2] /\ r[2] <= MaxTime
PROOF
<1>1. time \in Nat
  BY DEF SInv
<1> QED BY <1>1, StatsAssumption DEF Reads

\* The records of the running task.
LEMMA CurrentFacts ==
    ASSUME SInv, phase = "user"
    PROVE  /\ tp \in Tasks /\ tp \in Ids(all_tasks)
           /\ RecordOK(stats[tp], truth[tp], time)
           /\ stats[tp].first_run_start # 0
           /\ Accounted(stats[tp], truth[tp], TRUE)
           /\ time \in Nat
PROOF
<1>1. tp \in Tasks /\ tp \in Ids(all_tasks)
  BY UserFacts DEF SInv
<1>2. Running(tp)
  BY DEF Running
<1>3. Accounted(stats[tp], truth[tp], TRUE)
  BY <1>1, <1>2, Zenon DEF SInv, Accounted
<1>4. time \in Nat
  BY DEF SInv
<1>5. RecordOK(stats[tp], truth[tp], time) /\ stats[tp].first_run_start # 0
  BY <1>1, <1>2 DEF SInv
<1> QED BY <1>1, <1>3, <1>4, <1>5

\* The first task is switched to: no run ends.
LEMMA StatsStart == SInv /\ Start => SInv'
PROOF
<1> SUFFICES ASSUME SInv, Start PROVE SInv'
  OBVIOUS
<1>1. start /\ phase = "boot"
  BY DEF Start, start
<1>2. PICK r \in Reads : Pass(0, 0, r[1], r[2])
  BY DEF Start
<1>3. IInv /\ Good(tp, event') /\ event' = "start"
  BY <1>1, StartStep DEF SInv, start
<1>4. IInv' /\ Ids(all_tasks)' = Ids(all_tasks)
  BY <1>3 DEF Good
<1> QED BY <1>1, <1>2, <1>4, ReadFacts, PassFacts

\* sleep_task and kill_task record the end of the run.
LEMMA StatsEnd == SInv /\ (Timer \/ Kill) => SInv'
PROOF
<1> SUFFICES ASSUME SInv, Timer \/ Kill PROVE SInv'
  OBVIOUS
<1>1. phase = "user" /\ Good(tp, event') /\ event' \in {"timer", "kill"}
  BY TimerStep, KillStep DEF Timer, Kill, TimerInterrupt, KillTask, Trap, SInv
<1>2. PICK r \in Reads : Pass(record_run_end(stats[tp], r[1]), truth[tp], r[1], r[2])
  BY DEF Timer, Kill
<1>3. IInv' /\ Ids(all_tasks)' \subseteq Ids(all_tasks)
  BY <1>1 DEF Good
<1>4. /\ r[1] \in Nat /\ r[2] \in Nat /\ time \in Nat
      /\ time <= r[1] /\ r[1] <= r[2] /\ r[2] <= MaxTime
  BY <1>1, ReadFacts, CurrentFacts
<1>5. /\ RecordOK(record_run_end(stats[tp], r[1]), SwitchOut(truth[tp], r[1]), r[1])
      /\ Accounted(record_run_end(stats[tp], r[1]), SwitchOut(truth[tp], r[1]), FALSE)
  BY <1>1, <1>4, CurrentFacts, EndFacts
<1> QED BY <1>1, <1>2, <1>3, <1>4, <1>5, PassFacts

\* sys_yield records the call, but not the end of the run.
LEMMA StatsYield == SInv /\ Yield => SInv'
PROOF
<1> SUFFICES ASSUME SInv, Yield PROVE SInv'
  OBVIOUS
<1> DEFINE s == increase_syscall_count(stats[tp], YieldId)
           h == [truth[tp] EXCEPT !.yielded = TRUE, !.calls[YieldId] = Called(YieldId)]
<1>1. phase = "user" /\ Good(tp, event')
  BY YieldStep DEF Yield, sys_yield, Trap, SInv
<1>2. PICK r \in Reads : Pass(s, h, r[1], r[2])
  BY DEF Yield
<1>3. IInv' /\ Ids(all_tasks)' \subseteq Ids(all_tasks)
  BY <1>1 DEF Good
<1>4. /\ r[1] \in Nat /\ r[2] \in Nat /\ time \in Nat
      /\ time <= r[1] /\ r[1] <= r[2] /\ r[2] <= MaxTime
  BY <1>1, ReadFacts, CurrentFacts
<1>5. YieldId \in CallIds
  BY DEF CallIds
<1> DEFINE h0 == Counted(truth[tp], YieldId)
<1>6. /\ RecordOK(s, h0, time) /\ s.first_run_start # 0
  BY <1>1, <1>4, <1>5, CurrentFacts, CallFacts
<1>7. h = [h0 EXCEPT !.yielded = TRUE] /\ h0 \in Histories
  <2>1. truth[tp] \in Histories /\ h0 \in Histories
    BY <1>1, <1>6, CurrentFacts DEF RecordOK
  <2> QED BY <2>1 DEF Counted, Called, Histories
<1> HIDE DEF s, h, h0
<1>8. /\ h \in Histories /\ h.yielded = TRUE /\ h.calls = h0.calls
      /\ h.out_since = h0.out_since /\ h.outs = h0.outs /\ h.waited = h0.waited
  BY <1>7 DEF Histories
<1>9. RecordOK(s, h, time)
  BY <1>6, <1>8 DEF RecordOK
<1>10. RecordOK(s, SwitchOut(h, r[1]), r[1]) /\ SwitchOut(h, r[1]).yielded = TRUE
  BY <1>4, <1>6, <1>8, <1>9, OutFacts
<1>11. Accounted(s, SwitchOut(h, r[1]), FALSE)
  BY <1>10 DEF Accounted
<1> QED BY <1>1, <1>2, <1>3, <1>4, <1>10, <1>11, PassFacts

\* sys_exit records the call; the task is not listed any more.
LEMMA StatsExit == SInv /\ Exit => SInv'
PROOF
<1> SUFFICES ASSUME SInv, Exit PROVE SInv'
  OBVIOUS
<1> DEFINE s == increase_syscall_count(stats[tp], ExitId)
           h == [truth[tp] EXCEPT !.calls[ExitId] = Called(ExitId)]
<1>1. phase = "user" /\ Good(tp, event') /\ event' = "exit"
  BY ExitStep DEF Exit, sys_exit, Trap, SInv
<1>2. PICK r \in Reads : Pass(s, h, r[1], r[2])
  BY DEF Exit
<1>3. IInv' /\ Ids(all_tasks)' = Ids(all_tasks) \ {tp}
  BY ExitLeaves, <1>1 DEF Good, SInv, Exit
<1>4. /\ r[1] \in Nat /\ r[2] \in Nat /\ time \in Nat
      /\ time <= r[1] /\ r[1] <= r[2] /\ r[2] <= MaxTime
  BY <1>1, ReadFacts, CurrentFacts
<1>5. ExitId \in CallIds
  BY DEF CallIds
<1>6. RecordOK(s, Counted(truth[tp], ExitId), time) /\ s.first_run_start # 0
  BY <1>1, <1>4, <1>5, CurrentFacts, CallFacts
<1>7. h = Counted(truth[tp], ExitId)
  BY DEF Counted, Called
<1> HIDE DEF s, h
<1>8. RecordOK(s, SwitchOut(h, r[1]), r[1])
  BY <1>4, <1>6, <1>7, OutFacts
<1> QED BY <1>1, <1>2, <1>3, <1>4, <1>8, PassFacts

\* A system call that returns to its task.
LEMMA StatsCall == SInv /\ Call => SInv'
PROOF
<1> SUFFICES ASSUME SInv, Call PROVE SInv'
  OBVIOUS
<1>1. phase = "user" /\ Syscall(1) /\ Good(tp, event') /\ time' = time
  <2>1. Syscall(1) /\ IInv /\ 1 \in Int /\ time' = time
    BY DEF Call, SInv
  <2>2. Good(tp, event')
    BY <2>1, SyscallStep
  <2> QED BY <2>1, <2>2 DEF Syscall, Trap
<1>2. PICK id \in SyscallIds :
        /\ stats' = [stats EXCEPT ![tp] = increase_syscall_count(@, id)]
        /\ truth' = [truth EXCEPT ![tp].calls[id] = Called(id)]
  BY DEF Call
<1>3. IInv' /\ UNCHANGED <<all_tasks, tp, phase>>
  BY <1>1 DEF Good, Syscall
<1>4. id \in CallIds
  BY DEF CallIds
<1> DEFINE s == increase_syscall_count(stats[tp], id)
           h == Counted(truth[tp], id)
<1>5. /\ RecordOK(s, h, time) /\ s.first_run_start # 0 /\ Accounted(s, h, TRUE)
  BY <1>1, <1>4, CurrentFacts, CallFacts
<1>6. stats' = [stats EXCEPT ![tp] = s] /\ truth' = [truth EXCEPT ![tp] = h]
  BY <1>2 DEF Called, Counted
<1> HIDE DEF s, h
<1>7. \A t \in Tasks : IF t = tp THEN stats'[t] = s /\ truth'[t] = h
                        ELSE stats'[t] = stats[t] /\ truth'[t] = truth[t]
  BY <1>6 DEF SInv
<1>8. stats' = [t \in Tasks |-> stats'[t]] /\ truth' = [t \in Tasks |-> truth'[t]]
  BY <1>6 DEF SInv
<1>9. \A t \in Tasks : RecordOK(stats'[t], truth'[t], time')
                        /\ (Running(t)' => stats'[t].first_run_start # 0)
  BY <1>1, <1>3, <1>5, <1>7 DEF SInv, Running
<1>10. ASSUME NEW t \in Ids(all_tasks)' PROVE Accounted(stats'[t], truth'[t], Running(t)')
  <2>1. t \in Ids(all_tasks) /\ t \in Tasks /\ (Running(t)' <=> Running(t)) /\ (Running(t) <=> t = tp)
    BY <1>1, <1>3, <1>10, ListFacts DEF SInv, Running, Ids
  <2>2. CASE t = tp
    BY <1>5, <1>7, <2>1, <2>2, Zenon DEF Accounted
  <2>3. CASE t # tp
    <3>1. Accounted(stats[t], truth[t], Running(t))
      BY <2>1 DEF SInv
    <3> QED BY <1>7, <2>1, <2>3, <3>1, Zenon DEF Accounted
  <2> QED BY <2>2, <2>3
<1>11. time' \in 1 .. MaxTime
  BY <1>1 DEF SInv
<1> QED BY <1>3, <1>8, <1>9, <1>10, <1>11 DEF SInv

\* Steps that leave the statistics alone.
LEMMA StatsRun ==
    SInv /\ IInv' /\ UNCHANGED <<all_tasks, tp, phase, time, stats, truth>> => SInv'
PROOF BY DEF SInv, Running, Ids

\* Every step of the hart with the records it makes.
LEMMA StatsNextStep == SInv /\ [StatsNext]_svars => SInv'
PROOF
<1> SUFFICES ASSUME SInv, [StatsNext]_svars PROVE SInv'
  OBVIOUS
<1>1. CASE Run
  <2>1. IInv' /\ UNCHANGED <<all_tasks, tp, phase, time, stats, truth>>
    BY <1>1, ComputeStep DEF Run, Compute, Good, SInv
  <2> QED BY <2>1, StatsRun
<1>2. CASE UNCHANGED svars
  <2>1. IInv' /\ UNCHANGED <<all_tasks, tp, phase, time, stats, truth>>
    BY <1>2, StutterStep DEF svars, vars, SInv
  <2> QED BY <2>1, StatsRun
<1> QED BY <1>1, <1>2, StatsStart, StatsEnd, StatsYield, StatsExit, StatsCall DEF StatsNext

-----------------------------------------------------------------------------
(* The theorems.                                                           *)

\* The inductive invariant holds of every state of the tasks and their records.
THEOREM StatsInvariance == StatsSpec => []SInv
PROOF BY StatsInitInv, StatsNextStep, PTL DEF StatsSpec

\* The usize differences of mtime reads in record_run_start and record_run_end
\* never wrap, whatever the reads and the schedule.
THEOREM StatsTypeCorrect == StatsSpec => []StatsTypeOK
PROOF
<1>1. SInv => StatsTypeOK
  BY DEF SInv, RecordOK, Statistics, StatsTypeOK
<1> QED BY <1>1, StatsInvariance, PTL

\* For a task that never yielded, mtime_total_executed and mtime_total_waiting
\* account for every tick since its first run, and its switch count and its
\* waiting time are exact.
THEOREM TicksAdd == StatsSpec => []TicksAccountedFor
PROOF
<1>1. SInv => TicksAccountedFor
  <2> SUFFICES ASSUME SInv PROVE TicksAccountedFor
    OBVIOUS
  <2>1. Listed = Ids(all_tasks)
    BY ListFacts DEF SInv
  <2> QED BY <2>1, Zenon DEF SInv, Accounted, TicksAccountedFor
<1> QED BY <1>1, StatsInvariance, PTL

\* The syscall table of a TCB: every id it holds has one slot and its exact
\* count, and an id is missing only from a table full of others.
THEOREM CountsExact == StatsSpec => []SyscallCountsExact
PROOF
<1>1. SInv => SyscallCountsExact
  <2> SUFFICES ASSUME SInv, NEW t \in Listed
               PROVE  LET table == stats[t].syscall_counts IN
                      /\ \A i, j \in DOMAIN table :
                            i # j /\ table[i].id # 0 => table[i].id # table[j].id
                      /\ \A id \in DOMAIN truth[t].calls : truth[t].calls[id] > 0 =>
                            \/ \E i \in DOMAIN table :
                                  table[i] = [id |-> id, calls |-> truth[t].calls[id]]
                            \/ \A i \in DOMAIN table : table[i].id \notin {0, id}
    BY DEF SyscallCountsExact
  <2> DEFINE table == stats[t].syscall_counts
             calls == truth[t].calls
  <2>1. RecordOK(stats[t], truth[t], time)
    BY ListFacts DEF SInv
  <2>2. table \in Seq(Entry) /\ calls \in [CallIds -> Nat] /\ TableOK(table, calls)
    BY <2>1 DEF RecordOK, Statistics, Histories
  <2> HIDE DEF table, calls
  <2>3. DOMAIN table = 1 .. Len(table) /\ DOMAIN calls = CallIds
    BY <2>2
  <2>4. \A i \in 1 .. Len(table) : table[i] = [id |-> table[i].id, calls |-> table[i].calls]
    <3>1. \A i \in 1 .. Len(table) : table[i] \in Entry
      BY <2>2
    <3> QED BY <3>1 DEF Entry
  <2>5. ASSUME NEW id \in CallIds, calls[id] > 0
        PROVE  \/ \E i \in 1 .. Len(table) : table[i] = [id |-> id, calls |-> calls[id]]
               \/ \A i \in 1 .. Len(table) : table[i].id \notin {0, id}
    <3>1. CASE \E i \in 1 .. Len(table) : table[i].id = id
      <4>1. PICK i \in 1 .. Len(table) : table[i].id = id
        BY <3>1
      <4>2. table[i].calls = calls[id]
        BY <2>2, <4>1, NonZeroIds DEF TableOK
      <4>3. table[i] = [id |-> id, calls |-> calls[id]]
        BY <2>4, <4>1, <4>2
      <4> QED BY <4>3
    <3>2. CASE \A i \in 1 .. Len(table) : table[i].id # id
      BY <2>2, <2>5, <3>2 DEF TableOK
    <3> QED BY <3>1, <3>2
  <2>6. \A i, j \in 1 .. Len(table) : i # j /\ table[i].id # 0 => table[i].id # table[j].id
    BY <2>2 DEF TableOK
  <2> QED BY <2>3, <2>5, <2>6 DEF table, calls
<1> QED BY <1>1, StatsInvariance, PTL
=============================================================================
