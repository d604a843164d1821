----------------------------- MODULE MemoryMap -----------------------------
(***************************************************************************)
(* limine_reinterpret (limine.c): the boot loader's memory map becomes the *)
(* kernel's, in pages taken from a USABLE entry, and the first megabyte is *)
(* withheld.  Addresses and lengths are counted in pages.                  *)
(*                                                                         *)
(* The boot loader is external: its map is sorted and its USABLE entries   *)
(* overlap no other.  What lies behind its array of pointers is anything.  *)
(***************************************************************************)
EXTENDS Integers, Sequences

CONSTANTS
    Megabyte,       \* the number of the first page above the first megabyte
    IommuBlock      \* the pages from MEMORY_AMD_IOMMU_BLOCK_START to _END

ASSUME MegabyteAssumption == Megabyte \in Nat \ {0}

\* The maps that the boot loader hands over
Types == {"usable", "reserved", "kernel", "boot loader", "acpi tables", "acpi nvs",
          "framebuffer", "bad"}
Entries == [base : Nat, length : Nat, type : Types]

Sorted(entries) ==
    \A i, j \in DOMAIN entries : i < j =>
        /\ entries[i].base <= entries[j].base
        /\ "usable" \in {entries[i].type, entries[j].type} =>
            entries[i].base + entries[i].length <= entries[j].base

VARIABLES
    mapping,        \* where limine_reinterpret is
    reported,       \* the boot loader's map, as it hands it over
    behind,         \* the object behind it: "unmapped", or whether it would do
    limine_map,     \* the same map, as limine_reinterpret changes it
    candidate,      \* the first of the pages taken for the map and the modules
    memory_map      \* the kernel's map

memoryMap == <<mapping, reported, behind, limine_map, candidate, memory_map>>

\* limine_mmap_type_convert
Signal(type) ==
    CASE type = "usable" -> "FREE"
      [] type \in {"reserved", "kernel", "boot loader", "acpi tables"} -> "BUSY"
      [] type = "framebuffer" -> "MMIO"
      [] OTHER -> "NOUSE"

\* The pages for the map, 24 bytes an entry, and two for the modules.
MapPages == (Len(limine_map) * 24 + 4095) \div 4096 + 2

MapInit(entries, object) ==
    /\ mapping = "ignore"
    /\ reported = entries /\ limine_map = entries
    /\ behind = object
    /\ candidate = 0
    /\ memory_map = << >>

\* The IOMMU's block is not memory.
IgnoreIommu ==
    /\ mapping = "ignore"
    /\ mapping' = "search"
    /\ limine_map' =
        [i \in DOMAIN limine_map |->
            IF limine_map[i].base \in IommuBlock
            THEN [limine_map[i] EXCEPT !.type = "bad"] ELSE limine_map[i]]
    /\ UNCHANGED <<reported, behind, candidate, memory_map>>

\* An entry the map fits in with a page to spare, behind a BUSY one.
HasRoom(i) ==
    /\ i + 1 \in DOMAIN limine_map
    /\ Signal(limine_map[i].type) = "BUSY"
    /\ limine_map[i + 1].type = "usable"
    /\ limine_map[i + 1].length > MapPages

\* A slip: the entry keeps the pages that are taken from it.
TakenWhole(i) ==
    [limine_map EXCEPT ![i].length = @ + MapPages, ![i + 1].length = @ - MapPages]

Taken(i) ==
    [limine_map EXCEPT ![i].length = @ + MapPages,
                       ![i + 1].base = @ + MapPages, ![i + 1].length = @ - MapPages]

TakeRoom(i) ==
    /\ mapping = "search"
    /\ HasRoom(i) /\ \A j \in 1 .. i - 1 : ~ HasRoom(j)
    /\ mapping' = "convert"
    /\ candidate' = limine_map[i + 1].base
    /\ limine_map' = Taken(i)
    /\ UNCHANGED <<reported, behind, memory_map>>

\* The search reads the pointer behind the array, too, and follows it: it takes
\* an object it knows nothing of for an entry, faults, or halts for good.
RunsPast ==
    /\ mapping = "search"
    /\ \A i \in DOMAIN limine_map : ~ HasRoom(i)
    /\ mapping' =
        IF behind = "unmapped" THEN "faulted"
        ELSE IF behind = "would do" /\ Signal(limine_map[Len(limine_map)].type) = "BUSY"
        THEN "wild"
        ELSE "halted"
    /\ UNCHANGED <<reported, behind, limine_map, candidate, memory_map>>

Convert ==
    /\ mapping = "convert"
    /\ mapping' = "low"
    /\ memory_map' =
        [i \in DOMAIN limine_map |->
            [base |-> limine_map[i].base, length |-> limine_map[i].length,
             signal |-> Signal(limine_map[i].type)]]
    /\ UNCHANGED <<reported, behind, limine_map, candidate>>

Above(e) ==
    IF e.base + e.length < Megabyte
    THEN [e EXCEPT !.length = 0, !.signal = "NOUSE"]
    ELSE [e EXCEPT !.length = @ - (Megabyte - e.base), !.base = Megabyte]

\* The first entry becomes the first megabyte, whatever it was; of the others
\* those that begin below it are cut, up to the first that does not.
WithholdMegabyte ==
    /\ mapping = "low"
    /\ mapping' = "done"
    /\ memory_map' =
        [i \in DOMAIN memory_map |->
            IF i = 1 THEN [base |-> 0, length |-> Megabyte, signal |-> "NOUSE"]
            ELSE IF \A j \in 2 .. i : memory_map[j].base < Megabyte
            THEN Above(memory_map[i]) ELSE memory_map[i]]
    /\ UNCHANGED <<reported, behind, limine_map, candidate>>

MapStep ==
    \/ IgnoreIommu \/ RunsPast \/ Convert \/ WithholdMegabyte
    \/ \E i \in DOMAIN limine_map : TakeRoom(i)

----------------------------------------------------------------------------
(* Correctness *)

MapTypeOK ==
    /\ mapping \in {"ignore", "search", "convert", "low", "done", "faulted", "wild", "halted"}
    /\ candidate \in Nat
    /\ \A i \in DOMAIN memory_map :
        /\ memory_map[i].base \in Nat /\ memory_map[i].length \in Nat
        /\ memory_map[i].signal \in {"FREE", "BUSY", "MMIO", "NOUSE"}

PagesOf(e) == e.base .. e.base + e.length - 1

\* The pages the kernel may hand out are the USABLE ones above the first
\* megabyte, outside the IOMMU's block, the first entry and the pages of the
\* map and the modules: none of those is handed out, and no other page is lost.
FreeIsUsable ==
    /\ MapTypeOK
    /\ mapping = "done" =>
        UNION {PagesOf(memory_map[i]) :
                i \in {j \in DOMAIN memory_map : memory_map[j].signal = "FREE"}}
        = { p \in UNION {PagesOf(reported[i]) :
                i \in {j \in 2 .. Len(reported) : /\ reported[j].type = "usable"
                                                  /\ reported[j].base \notin IommuBlock}} :
            /\ p >= Megabyte
            /\ p \notin candidate .. candidate + MapPages - 1 }
=============================================================================
