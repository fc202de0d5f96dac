----------------------------- MODULE MCSv39Table -----------------------------
(***************************************************************************)
(* Tables of three entries; root entries 0 and 1 are user space (pages     *)
(* 0..16), root entry 2 is the kernel's.  Eight pages of memory: the       *)
(* kernel's root and two tables, the user's root, and four for the six     *)
(* tables the mapped pages call for, so that map_create fails for want of  *)
(* a level-0 table, below a level-1 table it has just made or an old one.  *)
(***************************************************************************)
EXTENDS Sv39Table

MCUserFlags == {{"V", "U", "R"}, {"V", "U", "W"}}

\* Pages at the borders of level-0 and level-1 tables, and the last user page.
MCMapVpns == {2, 3, 9, 16}

MCRangeVpns == {0, 2, 3, 4, 9, 16, 17}
=============================================================================
