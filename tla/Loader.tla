------------------------------- MODULE Loader -------------------------------
(***************************************************************************)
(* The program loader (elf.c), and the part of a task's page table that    *)
(* maps the program's segments (task_new_page_table in task.c).            *)
(*                                                                         *)
(* The loader runs in the kernel's table, in which an address that is      *)
(* written is the physical address of the same number: the program's own   *)
(* addresses are not mapped for it yet.                                    *)
(*                                                                         *)
(* A program header is a record of its type and of p_vaddr, p_filesz and   *)
(* p_memsz.  A byte of the file is named by its header and its place in    *)
(* the header's segment.                                                   *)
(***************************************************************************)
EXTENDS Integers, Sequences, FiniteSetsExt

CONSTANTS
    PageSize,       \* PAGING_PAGE_SIZE
    Pool,           \* the first physical address pmm gives
    Top,            \* bound: the highest physical address
    Overlay(_)      \* the bitwise or of a set of numbers

ASSUME LoaderAssumption ==
    /\ PageSize \in Nat \ {0} /\ Top \in Nat
    /\ Pool \in Nat /\ Pool % PageSize = 0
    /\ \A n \in 0 .. Top : Overlay({n}) = n

\* What a linker writes: a segment is as long as its part in the file, or longer.
Headers == {h \in [type : {"load", "note"}, vaddr : Nat, filesz : Nat, memsz : Nat] :
                h.filesz <= h.memsz}

VARIABLES
    loading,        \* where the boot code is in loading the program
    file,           \* the program: how its header begins, and its program headers
    header,         \* the program header under way
    rest,           \* header_copy: what is left of its segment
    segments,       \* load_info->segments
    memory,         \* physical memory
    pool,           \* the next address pmm gives
    table           \* the task's page table, of the program's segments

loader == <<loading, file, header, rest, segments, memory, pool, table>>

Untouched == <<0, 0>>
Zero == <<0, 1>>
NoRest == [vaddr |-> 0, skip |-> 0, filesz |-> 0, memsz |-> 0]

LoaderInit(program) ==
    /\ loading = "check"
    /\ file = program
    /\ header = 1
    /\ rest = NoRest
    /\ segments = << >>
    /\ memory = [a \in 0 .. Top |-> Untouched]
    /\ pool = Pool
    /\ table = << >>

\* elf_load_program refuses a file whose magic number compares greater, not one
\* whose magic number compares less, and one of another machine.
CheckHeader ==
    /\ loading = "check"
    /\ loading' = IF file.magic > 0 \/ ~ file.native THEN "refused" ELSE "headers"
    /\ pool' = IF loading' = "headers" THEN pool + PageSize ELSE pool
    /\ UNCHANGED <<file, header, rest, segments, memory, table>>


\* A header that is not to be loaded, or has nothing to load
SkipHeader ==
    /\ loading = "headers" /\ header \in DOMAIN file.headers
    /\ file.headers[header].type # "load" \/ file.headers[header].memsz = 0
    /\ header' = header + 1
    /\ UNCHANGED <<loading, file, rest, segments, memory, pool, table>>

LoadSegment ==
    /\ loading = "headers" /\ header \in DOMAIN file.headers
    /\ LET h == file.headers[header] IN
        /\ h.type = "load" /\ h.memsz > 0
        /\ rest' = [vaddr |-> h.vaddr, skip |-> 0, filesz |-> h.filesz, memsz |-> h.memsz]
    /\ loading' = "segment"
    /\ UNCHANGED <<file, header, segments, memory, pool, table>>

\* elf_is_page_mapped
IsPageMapped(vaddr) ==
    \E i \in DOMAIN segments :
        vaddr - segments[i].loaded_at \in 0 .. segments[i].length - 1

\* The file's bytes of the rest, as many as are asked for, at an address.
Written(at, count) ==
    [a \in DOMAIN memory |->
        IF a - at \in 0 .. count - 1 THEN <<header, rest.skip + a - at>> ELSE memory[a]]

\* A part whose page has been allocated for an earlier segment goes to the
\* program's address, which is not where that segment is.  With no byte of the
\* file left the part is empty, and the loop stays where it is.
CopyPart ==
    /\ loading = "segment" /\ IsPageMapped(rest.vaddr)
    /\ LET n == Min({PageSize - (rest.vaddr % PageSize), rest.filesz}) IN
        /\ memory' = Written(rest.vaddr, n)
        /\ rest' = [vaddr |-> rest.vaddr + n, skip |-> rest.skip + n,
                    filesz |-> rest.filesz - n, memsz |-> rest.memsz - n]
    /\ loading' = IF rest'.memsz = 0 THEN "headers" ELSE "segment"
    /\ header' = IF rest'.memsz = 0 THEN header + 1 ELSE header
    /\ UNCHANGED <<file, segments, pool, table>>

Pages(memsz) == (memsz + PageSize - 1) \div PageSize

\* The bound is above what a program names, and above what pmm gives the loader for
\* the page of the file's header and for each segment of at most so many bytes.
Fits(program, room) ==
    /\ Pool + PageSize + Len(program.headers) * room <= Top
    /\ \A i \in DOMAIN program.headers :
        /\ (Pages(program.headers[i].memsz) + 1) * PageSize <= room
        /\ program.headers[i].vaddr + program.headers[i].memsz <= Top

\* A slip: the offset in the first page asks for no page.
RequiredBare(vaddr, memsz) == Pages(memsz)

Required(vaddr, memsz) == Pages(memsz) + IF vaddr % PageSize = 0 THEN 0 ELSE 1

PlaceRest ==
    /\ loading = "segment" /\ ~ IsPageMapped(rest.vaddr)
    /\ LET pages == Required(rest.vaddr, rest.memsz)
           at == pool + (rest.vaddr % PageSize) IN
        /\ segments' = Append(segments, [loaded_at |-> rest.vaddr, located_at |-> pool,
                                         length |-> pages * PageSize])
        /\ pool' = pool + pages * PageSize
        /\ memory' = [a \in DOMAIN memory |->
                        IF a - at \in rest.filesz .. rest.memsz - 1 THEN Zero
                        ELSE Written(at, rest.filesz)[a]]
    /\ loading' = "headers" /\ header' = header + 1
    /\ rest' = NoRest
    /\ UNCHANGED <<file, table>>

Covering(page) ==
    { i \in DOMAIN segments :
        page - (segments[i].loaded_at \div PageSize)
            \in 0 .. (segments[i].length \div PageSize) - 1 }

\* Where the segment has a page, as pages are counted.
Frame(i, page) ==
    (segments[i].located_at \div PageSize) + page - (segments[i].loaded_at \div PageSize)

\* task_new_page_table: of two segments in one page the later is mapped over the
\* earlier, and paging_map_page puts its address on top of the other's.
MapSegments ==
    /\ loading = "headers" /\ header \notin DOMAIN file.headers
    /\ loading' = "mapped"
    /\ table' =
        [page \in {p \in 0 .. Top : Covering(p) # {}} |->
            Overlay({Frame(i, page) : i \in Covering(page)})]
    /\ UNCHANGED <<file, header, rest, segments, memory, pool>>

LoaderStep ==
    CheckHeader \/ SkipHeader \/ LoadSegment \/ CopyPart \/ PlaceRest \/ MapSegments

----------------------------------------------------------------------------
(* Correctness *)

LoaderTypeOK ==
    /\ loading \in {"check", "refused", "headers", "segment", "mapped"}
    /\ header \in 1 .. Len(file.headers) + 1
    /\ 0 <= rest.filesz /\ rest.filesz <= rest.memsz
    /\ pool \in Pool .. Top
    /\ loading = "mapped" =>
        \A page \in DOMAIN table : \A i \in DOMAIN segments : Covering(page) = {i} =>
            table[page] * PageSize \in Pool .. pool - PageSize

Loaded == { i \in DOMAIN file.headers :
              file.headers[i].type = "load" /\ file.headers[i].memsz > 0 }

\* The pages the loader takes for a segment, or takes for taken: one more than
\* the segment needs when it begins inside a page and would fit without, and one
\* more again, since elf_is_page_mapped counts them from where it begins.
LastTaken(h) == h.vaddr + Required(h.vaddr, h.memsz) * PageSize - 1

SpanOf(h) == h.vaddr \div PageSize .. LastTaken(h) \div PageSize

SpansApart ==
    \A i, j \in Loaded :
        i # j => SpanOf(file.headers[i]) \cap SpanOf(file.headers[j]) = {}

\* No segment's part without bytes in the file begins where an earlier segment is
\* taken to be.
EmptyPartsClear ==
    \A i, j \in Loaded : LET h == file.headers[i] IN
        j < i /\ h.filesz < h.memsz =>
            h.vaddr + h.filesz \notin file.headers[j].vaddr .. LastTaken(file.headers[j])

\* A program whose segments lie in pages of their own runs as it was linked:
\* through the task's table every byte of a segment is the file's, or zero
\* behind the file's part, and the loader has written nowhere else.
ImageLoaded ==
    /\ LoaderTypeOK
    /\ loading = "mapped" /\ SpansApart =>
        /\ \A i \in Loaded : LET h == file.headers[i] IN
            \A k \in 0 .. h.memsz - 1 : LET v == h.vaddr + k IN
                /\ v \div PageSize \in DOMAIN table
                /\ memory[table[v \div PageSize] * PageSize + (v % PageSize)]
                    = IF k < h.filesz THEN <<i, k>> ELSE Zero
        /\ \A a \in 0 .. Pool - 1 : memory[a] = Untouched
=============================================================================
