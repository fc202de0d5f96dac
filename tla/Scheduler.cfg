CONSTANTS
    NumTasks = 3
    MaxPc = 2
    NONE = NONE
SPECIFICATION Spec
CHECK_DEADLOCK FALSE
INVARIANTS TypeOK OneRunning ResumesItself NoPanic
PROPERTIES OthersGoFirst OnlyTheRunningTaskLeaves AllTasksEnd
