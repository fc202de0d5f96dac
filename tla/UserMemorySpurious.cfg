CONSTANTS
    PAGE_SIZE_BYTES = 2
    MEM_START_PA = 2
    MEM_SIZE_BYTES = 26
    NONE = NONE
    PTES_PER_TABLE = 3
    KERNEL_ROOT = 1
    KernelEndPa = 2
    DeviceFrame = 60
    LargeFrame = 63
    USIZE = 90
    USER_STACK_MAX_SIZE_BYTES = 4
    Tasks = {1}
    Elf <- MCElf
    MmapCalls <- OneMmaps
    MunmapCalls <- OneMunmaps
    Accesses <- OneAccesses
    MaxRequests = 6
    SpuriousFaults = TRUE
SPECIFICATION Spec
INVARIANT RecycledUnreachable
