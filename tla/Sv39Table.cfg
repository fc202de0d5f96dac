CONSTANTS
    PAGE_SIZE_BYTES = 1
    MEM_START_PA = 1
    MEM_SIZE_BYTES = 8
    NONE = NONE
    PTES_PER_TABLE = 3
    KERNEL_ROOT = 2
    UserFrames = {50}
    UserFlags <- MCUserFlags
    MapVpns <- MCMapVpns
    RangeVpns <- MCRangeVpns
    KernelEndPa = 1
    DeviceFrame = 60
    LargeFrame = 63
SPECIFICATION Spec
INVARIANTS TypeOK UnmapReturns PagesAreTables
PROPERTIES KernelHalfUntouched ImplementsPageMap
