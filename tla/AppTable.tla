------------------------------ MODULE AppTable ------------------------------
(***************************************************************************)
(* The table of applications: os/build.rs writes it to link_apps.S, the    *)
(* linker places it in the data section and os/src/task/apps.rs reads it.  *)
(*                                                                         *)
(* A file of user/src/bin is [name, test, name_len, elf_len]: its place in *)
(* the order of names, whether the name starts with test_, and the bytes   *)
(* of its name and of its ELF.  An address is an index of the sequence of  *)
(* words and bytes that starts at _num_apps.                               *)
(***************************************************************************)
EXTENDS Integers, SequencesExt

\* get_app_names, then sorted: whatever the order of read_dir.
get_app_names(files, include_test) ==
    SetToSortSeq({f \in files : include_test \/ ~f.test}, LAMBDA f, g : f.name < g.name)

\* Mutant: the kernel expects three items per application.
APP_META_ITEMS_three == 3

APP_META_ITEMS == 4

NameBytes(f) == [i \in 1 .. f.name_len |-> <<"name", f.name, i>>]
ElfBytes(f)  == [i \in 1 .. f.elf_len |-> <<"elf", f.name, i>>]

\* write_app_asms, assembled: the summary, the names, the ELF files.
write_app_asms(apps) ==
    LET n     == Len(apps)
        names == FlattenSeq([i \in 1 .. n |-> NameBytes(apps[i])])
        elfs  == FlattenSeq([i \in 1 .. n |-> ElfBytes(apps[i])])
        size  == 1 + 4 * n
        \* the bytes before the i-th name, and before the i-th ELF
        name[i \in 1 .. n + 1] == IF i = 1 THEN size ELSE name[i - 1] + apps[i - 1].name_len
        elf[i \in 1 .. n + 1]  == IF i = 1 THEN size + Len(names) ELSE elf[i - 1] + apps[i - 1].elf_len
        meta  == FlattenSeq([i \in 1 .. n |-> <<name[i], name[i + 1], elf[i], elf[i + 1]>>])
    IN  <<n>> \o meta \o names \o elfs

\* get_app_meta_base().add(i).read()
Read(table, i) == table[i + 1]

get_total_apps(table) == Read(table, 0)

Slice(table, start, end) == SubSeq(table, start + 1, end)

get_app_name(table, i) ==
    IF i >= get_total_apps(table) THEN << >>
    ELSE Slice(table, Read(table, i * APP_META_ITEMS + 1), Read(table, i * APP_META_ITEMS + 2))

\* get_app_elf_start and get_app_elf_end are 0 for an index that is too large.
get_app_elf(table, i) ==
    IF i >= get_total_apps(table) THEN << >>
    ELSE Slice(table, Read(table, i * APP_META_ITEMS + 3), Read(table, i * APP_META_ITEMS + 4))
=============================================================================
