------------------------------ MODULE TaskStats ------------------------------
(***************************************************************************)
(* The statistics a TaskControlBlock keeps (os/src/task/state.rs), on top  *)
(* of Scheduler: every trap handler is the one of Scheduler together with  *)
(* the records it makes.  time is the mtime counter at its last read; it   *)
(* may have advanced at the next read.                                     *)
(***************************************************************************)
EXTENDS Scheduler

CONSTANTS MaxTime,              \* bounds mtime
          SyscallIds,           \* of the syscalls that return to their task
          YieldId, ExitId,
          MAX_SYSCALLS_TRACKED

ASSUME StatsAssumption ==
    /\ MaxTime \in Nat \ {0}
    /\ SyscallIds \subseteq Nat \ {0}
    /\ {YieldId, ExitId} \subseteq Nat \ {0}
    /\ MAX_SYSCALLS_TRACKED \in Nat

VARIABLES time,     \* mtime; the kernel has been booting for a while
          stats,    \* stats[t]: the TaskStatistics in t's TCB
          truth     \* what really happened to t, see NoHistory

svars == <<vars, time, stats, truth>>

new_zeros ==
    [first_run_start |-> 0, last_run_start |-> 0, last_run_end |-> 0,
     total_executed |-> 0, total_waiting |-> 0, switch_count |-> 0,
     syscall_counts |-> [i \in 1 .. MAX_SYSCALLS_TRACKED |-> [id |-> 0, calls |-> 0]]]

\* Mutant: the difference is taken the wrong way round.
record_run_start_swapped(s, now) ==
    IF s.first_run_start = 0
    THEN [s EXCEPT !.first_run_start = now, !.last_run_start = now]
    ELSE [s EXCEPT !.total_waiting = @ + (s.last_run_end - now), !.last_run_start = now]

record_run_start(s, now) ==
    IF s.first_run_start = 0
    THEN [s EXCEPT !.first_run_start = now, !.last_run_start = now]
    ELSE [s EXCEPT !.total_waiting = @ + (now - s.last_run_end), !.last_run_start = now]

\* Mutant: the end of the run is not kept.
record_run_end_not_kept(s, now) ==
    [s EXCEPT !.total_executed = @ + (now - s.last_run_start),
              !.switch_count = @ + 1]

record_run_end(s, now) ==
    [s EXCEPT !.last_run_end = now,
              !.total_executed = @ + (now - s.last_run_start),
              !.switch_count = @ + 1]

\* Mutant: every call takes a new slot.
increase_syscall_count_new_slot(s, id) ==
    LET i == SelectInSeq(s.syscall_counts, LAMBDA e : e.id = 0) IN
    IF i = 0 THEN s
    ELSE [s EXCEPT !.syscall_counts[i] = [id |-> id, calls |-> @.calls + 1]]

\* The first slot that has the id or is empty; the call is not recorded if
\* there is none.
increase_syscall_count(s, id) ==
    LET i == SelectInSeq(s.syscall_counts, LAMBDA e : e.id = id \/ e.id = 0) IN
    IF i = 0 THEN s
    ELSE [s EXCEPT !.syscall_counts[i] = [id |-> id, calls |-> @.calls + 1]]

\* The true history of a task: when it was switched out last, how long it has
\* waited since its first run, how often it was switched out, whether it ever
\* yielded, and its calls.
NoHistory ==
    [out_since |-> 0, waited |-> 0, outs |-> 0, yielded |-> FALSE,
     calls |-> [id \in SyscallIds \cup {YieldId, ExitId} |-> 0]]

StatsInit ==
    /\ Init
    /\ time = 1
    /\ stats = [t \in Tasks |-> new_zeros]
    /\ truth = [t \in Tasks |-> NoHistory]

Called(id) == truth[tp].calls[id] + 1

\* The hart passes from tp to tp' (or stops).  s and h are tp's records as the
\* handler leaves them; the run of the next task starts at f.
Pass(s, h, e, f) ==
    LET out(t) == IF t = tp THEN s ELSE stats[t]
        was(t) == IF t = tp THEN [h EXCEPT !.out_since = e, !.outs = @ + 1] ELSE truth[t]
    IN  /\ time' = f
        /\ stats' = [t \in Tasks |->
                        IF phase' = "user" /\ t = tp' THEN record_run_start(out(t), f)
                        ELSE out(t)]
        /\ truth' = [t \in Tasks |->
                        IF phase' = "user" /\ t = tp' /\ was(t).outs > 0
                        THEN [was(t) EXCEPT !.waited = @ + (f - was(t).out_since)]
                        ELSE was(t)]

\* The times a handler may read: one for the end of the run, a later one for
\* the start of the next.
Reads == {r \in (time .. time + 1) \X (time .. time + 2) : r[1] <= r[2] /\ r[2] <= MaxTime}

Start == start /\ \E r \in Reads : Pass(0, 0, r[1], r[2])

\* set_next_timer_interrupt, called after the run started, keeps the interrupt
\* away for a positive interval.
Timer ==
    /\ TimerInterrupt
    /\ \E r \in Reads : /\ r[1] > stats[tp].last_run_start
                       /\ Pass(record_run_end(stats[tp], r[1]), truth[tp], r[1], r[2])

Kill ==
    /\ KillTask
    /\ \E r \in Reads : Pass(record_run_end(stats[tp], r[1]), truth[tp], r[1], r[2])

Yield ==
    /\ sys_yield
    /\ \E r \in Reads : Pass(increase_syscall_count(stats[tp], YieldId),
                             [truth[tp] EXCEPT !.yielded = TRUE,
                                               !.calls[YieldId] = Called(YieldId)],
                             r[1], r[2])

Exit ==
    /\ sys_exit
    /\ \E r \in Reads : Pass(increase_syscall_count(stats[tp], ExitId),
                             [truth[tp] EXCEPT !.calls[ExitId] = Called(ExitId)],
                             r[1], r[2])

Call ==
    /\ Syscall(1)
    /\ \E id \in SyscallIds :
          /\ stats' = [stats EXCEPT ![tp] = increase_syscall_count(@, id)]
          /\ truth' = [truth EXCEPT ![tp].calls[id] = Called(id)]
    /\ UNCHANGED time

Run ==
    /\ Compute
    /\ UNCHANGED <<time, stats, truth>>

StatsNext == Start \/ Timer \/ Kill \/ Yield \/ Exit \/ Call \/ Run

StatsSpec == StatsInit /\ [][StatsNext]_svars
-----------------------------------------------------------------------------
Running(t) == phase = "user" /\ tp = t

\* Types: the usize differences of mtime reads in record_run_start and
\* record_run_end never go below zero.
StatsTypeOK ==
    /\ time \in 1 .. MaxTime
    /\ \A t \in Tasks : stats[t].total_waiting \in Nat /\ stats[t].total_executed \in Nat

\* For a task that never yielded, the two totals account for every tick since
\* its first run, and the switch count and the waiting time are exact.
TicksAccountedFor ==
    \A t \in Listed : stats[t].first_run_start # 0 /\ ~truth[t].yielded =>
        /\ stats[t].total_executed + stats[t].total_waiting + stats[t].first_run_start
               = IF Running(t) THEN stats[t].last_run_start ELSE stats[t].last_run_end
        /\ stats[t].switch_count = truth[t].outs
        /\ stats[t].total_waiting = truth[t].waited

\* Each id the table holds has its exact number of calls and one slot; an id
\* is missing only if the table was full of others.
SyscallCountsExact ==
    \A t \in Listed : LET table == stats[t].syscall_counts IN
        /\ \A i, j \in DOMAIN table : i # j /\ table[i].id # 0 => table[i].id # table[j].id
        /\ \A id \in DOMAIN truth[t].calls : truth[t].calls[id] > 0 =>
              \/ \E i \in DOMAIN table : table[i] = [id |-> id, calls |-> truth[t].calls[id]]
              \/ \A i \in DOMAIN table : table[i].id \notin {0, id}

\* state.rs on switch_count: "The number of times a task has been switched
\* out".  A yield switches the task out.
SwitchCountExact == \A t \in Listed : stats[t].switch_count = truth[t].outs

\* state.rs on mtime_total_waiting: "accumulating from its first run. A task is
\* considered waiting if it is switched out before it is completed."
WaitingTimeExact == \A t \in Listed : stats[t].total_waiting = truth[t].waited
=============================================================================
