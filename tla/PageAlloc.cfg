CONSTANTS
    PAGE_SIZE_BYTES = 2
    MEM_START_PA = 4
    MEM_SIZE_BYTES = 10
    NONE = NONE
    KernelEnds <- MCKernelEnds
    MaxBatch = 3
SPECIFICATION Spec
INVARIANTS TypeOK OnePlace OutsideKernel
PROPERTY ImplementsPool
