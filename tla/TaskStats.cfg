CONSTANTS
    NumTasks = 2
    MaxPc = 3
    NONE = NONE
    MaxTime = 3
    SyscallIds = {64, 90}
    YieldId = 124
    ExitId = 93
    MAX_SYSCALLS_TRACKED = 2
SPECIFICATION StatsSpec
CHECK_DEADLOCK FALSE
INVARIANTS StatsTypeOK TicksAccountedFor SyscallCountsExact
