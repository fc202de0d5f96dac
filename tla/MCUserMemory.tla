---------------------------- MODULE MCUserMemory ----------------------------
(***************************************************************************)
(* Pages of two bytes, tables of three entries, one root entry for user    *)
(* space: pages 0..7 (bytes 0..15), of which page 0 is the program and     *)
(* pages 6 and 7 the stack.                                                *)
(***************************************************************************)
EXTENDS UserMemory

MCElf == <<[va |-> 0, mem_size |-> 2, file_size |-> 1, align |-> 1, flags |-> {"R", "X"}]>>

\* One task: ranges that meet page, table and area borders and the end of user
\* space, empty ranges, overflow and unknown protection bits.  The last three
\* accesses are to the page below the kernel half, to an address that is not
\* canonical (its low bits are those of page 0), and to the kernel's device page.
OneMmaps == {<<3, 6, {"R", "W"}>>, <<5, 0, {"R"}>>, <<8, 0, {"R"}>>, <<11, 1, {"W"}>>,
             <<2, 88, {"R"}>>, <<2, 2, {"other"}>>}
OneMunmaps == {<<5, 2>>, <<0, 4>>, <<7, 7>>, <<2, 14>>, <<0, 0>>, <<4, 0>>, <<9, 82>>, <<15, 2>>}
OneAccesses == {<<0, "store">>, <<4, "store">>, <<7, "load">>, <<11, "store">>, <<12, "store">>,
                <<16, "load">>, <<54, "load">>, <<74, "load">>}

\* Two tasks and little memory: pages pass from one to the other.
TwoMmaps == {<<2, 6, {"R", "W"}>>}
TwoMunmaps == {<<4, 2>>, <<2, 12>>}
TwoAccesses == {<<2, "store">>, <<4, "store">>, <<6, "load">>, <<12, "store">>}
=============================================================================
