------------------------------- MODULE MCBoot -------------------------------
(***************************************************************************)
(* Pages of two bytes, tables of eight entries: a large page is eight      *)
(* pages.  Devices lie below memory; memory ends inside a large page.  The *)
(* image ends at every place relative to large pages, up to where the      *)
(* memory behind it is too small for the tables.                           *)
(***************************************************************************)
EXTENDS Boot

MCImages == {[text |-> t, rodata |-> 1, data |-> 1, bss |-> b] : t \in 1 .. 2, b \in 1 .. 9}

\* Two pages next to each other, a device of several pages over the border of
\* a large page, one smaller than a page.
MCMmio == <<<<2, 2>>, <<4, 2>>, <<28, 8>>, <<48, 1>>>>

File(n, test, nl, el) == [name |-> n, test |-> test, name_len |-> nl, elf_len |-> el]
MCFiles == {File(1, FALSE, 1, 2), File(2, TRUE, 2, 1), File(3, FALSE, 2, 1)}
=============================================================================
