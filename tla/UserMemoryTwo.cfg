CONSTANTS
    PAGE_SIZE_BYTES = 2
    MEM_START_PA = 2
    MEM_SIZE_BYTES = 40
    NONE = NONE
    PTES_PER_TABLE = 3
    KERNEL_ROOT = 1
    KernelEndPa = 2
    DeviceFrame = 60
    LargeFrame = 63
    USIZE = 90
    USER_STACK_MAX_SIZE_BYTES = 4
    Tasks = {1, 2}
    Elf <- MCElf
    MmapCalls <- TwoMmaps
    MunmapCalls <- TwoMunmaps
    Accesses <- TwoAccesses
    MaxRequests = 6
    SpuriousFaults = FALSE
SPECIFICATION Spec
INVARIANTS PagesConserved TablesMatchAreas RecycledUnreachable OwnDataOnly
