----------------------------- MODULE MCPageAlloc -----------------------------
(***************************************************************************)
(* Five pages of two bytes from address 4 on; the kernel image ends at the *)
(* start, inside or at the end of the first page.                          *)
(***************************************************************************)
EXTENDS PageAlloc

MCKernelEnds == {4, 5, 6}
=============================================================================
