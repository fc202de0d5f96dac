CONSTANTS
    PAGE_SIZE_BYTES = 2
    MEM_START_PA = 128
    MEM_SIZE_BYTES = 60
    NONE = NONE
    PTES_PER_TABLE = 8
    KERNEL_ROOT = 4
    KERNEL_BASE_PA = 144
    STACK_BYTES = 4
    QEMU_VIRT_MMIO <- MCMmio
    Images <- MCImages
    AllFiles <- MCFiles
SPECIFICATION Spec
CHECK_DEADLOCK FALSE
INVARIANTS KernelMapExact FailsOnlyWithoutMemory TablesKept HartStaysMapped TasksGetTheirElf
