----------------------------- MODULE KernelHalf -----------------------------
(***************************************************************************)
(* The kernel's own page tables as os/src/mm/vm.rs builds them at boot and *)
(* every user root inherits them, reduced to one page of each kind: a      *)
(* device page mapped on its own (map_virt_mmio) and a large page of       *)
(* physical memory (map_phys_mem).                                         *)
(***************************************************************************)
EXTENDS Sv39

CONSTANTS KernelEndPa,   \* where the kernel image ends
          DeviceFrame,   \* the frame of the device page
          LargeFrame     \* the first frame of the large page

\* The kernel image ends inside the memory, and its tables fit behind it (or
\* mm::init panics).
ASSUME KernelHalfAssumption ==
    /\ KernelEndPa \in Nat /\ MEM_START_PA <= KernelEndPa
    /\ compute_first_unused_ppn(KernelEndPa) + 3 <= compute_max_ppn
    /\ DeviceFrame \in Nat /\ LargeFrame \in Nat

\* Devices lie below the first gigabyte, so map_virt_mmio makes a level-0 table
\* under the first entry of the kernel half; memory lies above it.
DeviceVpn == VpnOf(KERNEL_ROOT, 0, 1)
LargeVpn  == VpnOf(KERNEL_ROOT, 1, 0)

KernelFlags == {"V", "R", "W"}

\* Mutant: the devices are not mapped.
init_kernel_satp_no_device ==
    LET r0 == new([mem   |-> [p \in PPN |-> ZeroPage],
                   alloc |-> NewAllocator(KernelEndPa)])
    IN  map_create_large(r0.phys, r0.root, LargeVpn, LargeFrame, KernelFlags)

init_kernel_satp ==
    LET r0 == new([mem   |-> [p \in PPN |-> ZeroPage],
                   alloc |-> NewAllocator(KernelEndPa)])
        r1 == map_create(r0.phys, r0.root, DeviceVpn, DeviceFrame, KernelFlags)
    IN  map_create_large(r1.phys, r1.root, LargeVpn, LargeFrame, KernelFlags)

\* One page is kept free between user space and the kernel half.
USER_END_VPN == KERNEL_ROOT * ROOT_SPAN - 1

UserVpns == 0 .. USER_END_VPN - 1

UserIndex == 0 .. KERNEL_ROOT - 1

KernelIndex == KERNEL_ROOT .. PTES_PER_TABLE - 1

\* The tables the root page r reaches through the root indices I.
Tables1(mem, r, I) == {mem[r][i].ppn : i \in {j \in I : is_valid(mem[r][j])}}

Tables0(mem, r, I) ==
    UNION {{mem[t][i].ppn :
               i \in {j \in Index : is_valid(mem[t][j]) /\ ~is_leaf(mem[t][j])}} :
           t \in Tables1(mem, r, I)}

\* The pages forget_self keeps from being recycled.
KernelTables(mem, satp) ==
    {satp} \cup Tables1(mem, satp, KernelIndex) \cup Tables0(mem, satp, KernelIndex)
=============================================================================
