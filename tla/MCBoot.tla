------------------------------- MODULE MCBoot -------------------------------
EXTENDS Boot, Bitwise

MCOverlay(numbers) == FoldSet(LAMBDA m, n : m | n, 0, numbers)

Machine(map, past, tables, next, program) ==
    [entries |-> map, behind |-> past, madt |-> tables, beyond |-> next, file |-> program]

(* Memory maps: entries of lengths as given, one behind the other, some of them *)
(* behind a gap of a page.                                                      *)
Entry(base, length, type) == [base |-> base, length |-> length, type |-> type]

MapOf(lengths, types, gap) ==
    LET base[i \in 1 .. Len(lengths)] ==
            IF i = 1 THEN 1 ELSE base[i - 1] + lengths[i - 1] + (IF i = gap THEN 1 ELSE 0) IN
    [i \in 1 .. Len(lengths) |-> Entry(base[i], lengths[i], types[i])]

MCMaps ==
    { MapOf(l, t, g) :
        l \in {<<2, 2, 6>>, <<1, 6, 5>>, <<4, 3, 4>>, <<2, 5, 7>>},
        t \in [1 .. 3 -> {"usable", "reserved", "framebuffer"}],
        g \in {1, 2, 3} }

MCIommu == 9 .. 10

(* Tables: the first record is the processor's, the controller's or an override *)
Local == [type |-> "local"]
Controller(id) == [type |-> "ioapic", id |-> id]
Override(source, line) == [type |-> "override", source |-> source, gsi |-> line]

MCTables ==
    { <<Local, Controller(0), Override(0, 2)>>, <<Local, Controller(0)>>,
      <<Local, Controller(1), Controller(0), Override(0, 2)>>,
      <<Controller(0), Override(0, 2)>>, <<Override(0, 2), Controller(0)>>,
      <<Local, Controller(1)>>, <<Local, Controller(1), Controller(2), Override(0, 2)>>,
      <<Local, Controller(1), Controller(2), Controller(0), Override(0, 2)>> }

(* Programs: two headers, of many places and sizes *)
Header(type, vaddr, filesz, memsz) ==
    [type |-> type, vaddr |-> vaddr, filesz |-> filesz, memsz |-> memsz]
Program(magic, native, headers) == [magic |-> magic, native |-> native, headers |-> headers]

MCHeaders ==
    { h \in { Header("load", v, f, m) : v \in {0, 1, 4, 5, 6}, f \in 0 .. 3, m \in 1 .. 3 } :
        h.filesz <= h.memsz }

MCPrograms ==
    { Program(0, TRUE, <<a, b>>) : a \in MCHeaders, b \in MCHeaders }
    \cup { Program(m, n, <<Header("note", 0, 1, 1), Header("load", 1, 1, 2)>>) :
            m \in {-1, 0, 1}, n \in BOOLEAN }

GoodMap == MapOf(<<2, 2, 6>>, <<"usable", "reserved", "usable">>, 1)
GoodTables == <<Local, Controller(0), Override(0, 2)>>
GoodProgram == Program(0, TRUE, <<Header("load", 0, 1, 2)>>)

\* Each part with every input of its own, and the usual ones of the others.
MCMachines ==
    { Machine(e, b, GoodTables, Local, GoodProgram) :
        e \in MCMaps, b \in {"unmapped", "would do", "would not do"} }
    \cup { Machine(GoodMap, "unmapped", t, b, GoodProgram) :
            t \in MCTables, b \in {Local, Override(0, 0), Override(0, 2), Override(1, 2)} }
    \cup { Machine(GoodMap, "unmapped", GoodTables, Local, p) : p \in MCPrograms }
=============================================================================
