CONSTANTS
    NumTasks = 2
    MaxPc = 2
    NONE = NONE
    MaxTime = 4
    SyscallIds = {64}
    YieldId = 124
    ExitId = 93
    MAX_SYSCALLS_TRACKED = 2
SPECIFICATION StatsSpec
CHECK_DEADLOCK FALSE
INVARIANTS SwitchCountExact
