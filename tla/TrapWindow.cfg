CONSTANTS
    NumTasks = 2
    MaxPc <- MCMaxPc
    PageBytes = 2
    NumPages = 2
    Pages <- MCPages
    WriteCalls <- MCWriteCalls
    InfoCalls <- MCInfoCalls
    InfoLen = 2
    HeapBytes = 3
    NotUtf8 <- MCNotUtf8
    SliceCoversSwitch = FALSE
SPECIFICATION Spec
CHECK_DEADLOCK FALSE
INVARIANTS HandlerMatchesMode
