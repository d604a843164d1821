-------------------------------- MODULE Pmm --------------------------------
(***************************************************************************)
(* The physical memory manager (src/kernel/src/mem/pmm): a list of         *)
(* sections, each a run of pages of one kind, from which pages and pools   *)
(* of consecutive pages are cut.                                           *)
(*                                                                         *)
(* The doubly linked list is a sequence; addresses and lengths count       *)
(* pages, not bytes.  A step that dereferences the missing neighbour of    *)
(* the last section, or the NULL of a failed pmm_new_section, takes a page *)
(* fault and isr_exception_handler stops the machine: "halted".            *)
(*                                                                         *)
(* pmm_alloc_page, pmm_lock_pages and pmm_recombine loop; each iteration   *)
(* is a step, since the serial shell's interrupt handler may run           *)
(* __uartsh_pmm_dump in between.                                           *)
(***************************************************************************)
EXTENDS Integers, FiniteSets, Sequences, SequencesExt

CONSTANTS
    USED, FREE, BAD,    \* PMM_SECTION_USED, PMM_SECTION_FREE, PMM_SECTION_BAD
    TotalPages,         \* the number of pages the section list covers
    BootSections,       \* the section lists pmm_start may leave behind
    DataPages,          \* pages of the pmm's own data, locked by pmm_start
    Slots,              \* pmm_data_size / sizeof(pmm_section_t)
    BootHead,           \* _pmm_section_head when pmm_start returns
    PoolSizes,          \* the page counts pmm_alloc_pool is asked for
    LockTargets,        \* the kinds of pages pmm_lock_page is called for
    Word                \* free_memory is computed modulo Word

Kinds == {USED, FREE, BAD}
Pages == 0 .. TotalPages - 1
Section == [start : Nat, pages : Nat, free : Kinds]

Sec(start, pages, kind) == [start |-> start, pages |-> pages, free |-> kind]
End(sec) == sec.start + sec.pages

Covers(sec, p) == sec.start <= p /\ p < End(sec)

\* The sections follow each other, in order, from page 0 to the last page.
Tiled(s) ==
    /\ s[1].start = 0
    /\ End(s[Len(s)]) = TotalPages
    /\ \A i \in 1 .. Len(s) - 1 : s[i + 1].start = End(s[i])
    /\ \A i, j \in 1 .. Len(s) : i < j => End(s[i]) <= s[j].start

\* The first megabyte is a BAD section and only FREE sections may be empty.
Shaped(s) ==
    /\ s[1].free = BAD
    /\ \A i \in 1 .. Len(s) : s[i].pages = 0 => s[i].free = FREE

Separated(s) ==
    \A i \in 1 .. Len(s) - 1 : ~ (s[i].free = FREE /\ s[i + 1].free = FREE)

ASSUME KindsDiffer == USED # FREE /\ FREE # BAD /\ USED # BAD
ASSUME SizesAssumption ==
    /\ TotalPages \in Nat \ {0}
    /\ DataPages \in Nat
    /\ Word \in Nat \ {0}
    /\ PoolSizes \subseteq Nat \ {0}
    /\ LockTargets \subseteq {USED, FREE}
ASSUME SlotsAssumption == Slots \in Nat /\ BootHead \in 0 .. Slots
ASSUME BootAssumption ==
    \A s \in BootSections :
        /\ s \in Seq(Section) \ {<<>>}
        /\ Tiled(s)
        /\ Shaped(s)
        /\ Separated(s)

VARIABLES
    sections,       \* pmm_sections
    head,           \* _pmm_section_head: the next unused section slot
    free_memory,    \* the counter rdinfo reports, in pages
    held,           \* the pages handed to a client and not given back
    halted,         \* a fault stopped the machine
    pc,             \* the loop the manager is in, or "idle"
    cursor,         \* next page to lock, or index of pmm_recombine's current
    left,           \* pages pmm_lock_pages has still to lock
    detected        \* pmm_recombine merged something in this pass

vars == <<sections, head, free_memory, held, halted, pc, cursor, left, detected>>

----------------------------------------------------------------------------
(* The kinds of pages the list describes. *)

KindPages(s, kind) ==
    {p \in Pages : \E i \in DOMAIN s : s[i].free = kind /\ Covers(s[i], p)}

PagesOf(kind) == KindPages(sections, kind)

FreePages == PagesOf(FREE)
UsedPages == PagesOf(USED)
BadPages == PagesOf(BAD)

(* Surgery on the list. *)

\* pmm_section_split cuts section i in two at page "at"; at or past the end
\* of the section it does nothing.
Cuts(s, i, at) == at < End(s[i])

Split(s, i, at) ==
    IF Cuts(s, i, at)
    THEN InsertAt([s EXCEPT ![i] = Sec(s[i].start, at - s[i].start, s[i].free)],
                  i + 1, Sec(at, End(s[i]) - at, s[i].free))
    ELSE s

\* Sections i and i + 1 become one; both combine functions and
\* pmm_recombine end in this.
Merge(s, i) ==
    RemoveAt([s EXCEPT ![i] = Sec(s[i].start, s[i].pages + s[i + 1].pages, s[i].free)],
             i + 1)

\* A slip: the section keeps its first page as well.
ShiftDownKeepingStart(s, i) ==
    [s EXCEPT ![i - 1] = Sec(s[i - 1].start, s[i - 1].pages + 1, s[i - 1].free),
              ![i] = Sec(s[i].start, s[i].pages - 1, s[i].free)]

\* The first page of section i moves to the end of section i - 1.
ShiftDown(s, i) ==
    [s EXCEPT ![i - 1] = Sec(s[i - 1].start, s[i - 1].pages + 1, s[i - 1].free),
              ![i] = Sec(s[i].start + 1, s[i].pages - 1, s[i].free)]

\* The last page of section i moves to the front of section i + 1.
ShiftUp(s, i) ==
    [s EXCEPT ![i] = Sec(s[i].start, s[i].pages - 1, s[i].free),
              ![i + 1] = Sec(s[i + 1].start - 1, s[i + 1].pages + 1, s[i + 1].free)]

Retype(s, i, kind) == [s EXCEPT ![i] = Sec(s[i].start, s[i].pages, kind)]

Halt == halted' = TRUE /\ UNCHANGED <<sections, head>>

\* A slip: the head may run one slot past the array.
InstallPastTheEnd(s, n) ==
    IF head + n <= Slots + 1
    THEN sections' = s /\ head' = head + n /\ UNCHANGED halted
    ELSE Halt

\* The list becomes s, which takes n new sections.  pmm_new_section returns
\* NULL once the head has run through the array, and it never runs back: the
\* slot at the head has never been used, so pmm_section_manager_reindex,
\* which would look for deleted slots, is not reached.
Install(s, n) ==
    IF head + n <= Slots
    THEN sections' = s /\ head' = head + n /\ UNCHANGED halted
    ELSE Halt

PrevIs(i, kind) == i > 1 /\ sections[i - 1].free = kind
NextIs(i, kind) == i < Len(sections) /\ sections[i + 1].free = kind

\* Section i is the first the scan for page p stops at: it starts with p, or p
\* is inside.  The last section has no next to compare with, which faults; it
\* counts as a match so that the match can say so.
Matches(i, p) ==
    \/ sections[i].start = p
    \/ /\ sections[i].start < p
       /\ i < Len(sections) => p < sections[i + 1].start

Found(i, p) ==
    /\ i \in DOMAIN sections
    /\ Matches(i, p)
    /\ \A j \in 1 .. i - 1 : ~ Matches(j, p)

IsFirst(i, p) == sections[i].start = p
IsLast(i, p) ==
    /\ i < Len(sections)
    /\ sections[i].start < p
    /\ p + 1 = sections[i + 1].start
IsInner(i, p) ==
    /\ i < Len(sections)
    /\ sections[i].start < p
    /\ p + 1 < sections[i + 1].start

\* The scan reads the start of the section after the last one.
FallsOff(i, p) == i = Len(sections) /\ sections[i].start # p

Credit(n) == free_memory' = (free_memory + n) % Word
Idle == pc = "idle" /\ ~ halted
Continue == UNCHANGED <<pc, cursor, left, detected>>

----------------------------------------------------------------------------
Init ==
    /\ sections \in BootSections
    /\ head = BootHead
    /\ free_memory = (Cardinality(FreePages) + DataPages) % Word
    /\ held = {}
    /\ halted = FALSE
    /\ pc = "idle"
    /\ cursor = 0
    /\ left = 0
    /\ detected = FALSE

(* pmm_alloc_page *)

\* The first section of the list that makes pmm_alloc_page's scan act.
Candidate(i) ==
    /\ sections[i].pages = 0 \/ sections[i].free = FREE
    /\ \A j \in 1 .. i - 1 : sections[j].pages # 0 /\ sections[j].free # FREE

AllocPage ==
    /\ Idle
    /\ pc' = "alloc"
    /\ UNCHANGED <<sections, head, free_memory, held, halted, cursor, left, detected>>

\* An empty section on the way is unlinked, through its next and its prev.
AllocUnlinkEmpty ==
    /\ pc = "alloc" /\ ~ halted
    /\ \E i \in DOMAIN sections :
        /\ Candidate(i)
        /\ sections[i].pages = 0
        /\ IF i = Len(sections) THEN Halt ELSE Install(RemoveAt(sections, i), 0)
    /\ UNCHANGED <<free_memory, held>>
    /\ Continue

\* A slip: the whole section goes with its first page.
AllocTakeWhole ==
    /\ pc = "alloc" /\ ~ halted
    /\ \E i \in DOMAIN sections :
        /\ Candidate(i)
        /\ sections[i].pages # 0
        /\ Install(Retype(sections, i, USED), 0)
        /\ held' = held \cup {sections[i].start}
    /\ Credit(-1)
    /\ pc' = "idle"
    /\ UNCHANGED <<cursor, left, detected>>

\* The page is the first of the first FREE section.
AllocTake ==
    /\ pc = "alloc" /\ ~ halted
    /\ \E i \in DOMAIN sections :
        LET page == sections[i].start IN
        /\ Candidate(i)
        /\ sections[i].pages # 0
        /\ IF PrevIs(i, USED)
           THEN Install(ShiftDown(sections, i), 0)
           ELSE Install(Retype(Split(sections, i, page + 1), i, USED),
                        IF Cuts(sections, i, page + 1) THEN 1 ELSE 0)
        /\ held' = IF halted' THEN held ELSE held \cup {page}
    /\ Credit(IF halted' THEN 0 ELSE -1)
    /\ pc' = "idle"
    /\ UNCHANGED <<cursor, left, detected>>

\* No page is left: the caller gets NULL.
AllocFail ==
    /\ pc = "alloc" /\ ~ halted
    /\ \A i \in DOMAIN sections : sections[i].pages # 0 /\ sections[i].free # FREE
    /\ pc' = "idle"
    /\ UNCHANGED <<sections, head, free_memory, held, halted, cursor, left, detected>>

(* pmm_free_page, for a page the caller holds *)

\* A slip: the page becomes a FREE section whatever is next to it.
FreeSingleAlone(i, p) ==
    /\ IsFirst(i, p) /\ sections[i].pages = 1
    /\ IF i = Len(sections) THEN Halt ELSE Install(Retype(sections, i, FREE), 0)
    /\ Credit(0)

\* A page at the only place of its section, next to a FREE section, stays
\* USED: the section is still USED when the combine functions compare kinds.
FreeSingle(i, p) ==
    /\ IsFirst(i, p) /\ sections[i].pages = 1
    /\ IF i = Len(sections) THEN Halt
       ELSE IF PrevIs(i, FREE) \/ NextIs(i, FREE) THEN Install(sections, 0)
       ELSE Install(Retype(sections, i, FREE), 0)
    /\ Credit(0)

FreeFirst(i, p) ==
    /\ IsFirst(i, p) /\ sections[i].pages # 1
    /\ IF PrevIs(i, FREE) THEN Install(ShiftDown(sections, i), 0)
       ELSE Install(Retype(Split(sections, i, p + 1), i, FREE), 1)
    /\ Credit(0)

FreeLast(i, p) ==
    /\ IsLast(i, p)
    /\ IF NextIs(i, FREE)
       THEN Install(ShiftUp(sections, i), 0) /\ Credit(0)
       ELSE Install(Retype(Split(sections, i, p), i + 1, FREE), 1) /\ Credit(1)

\* No branch frees a page in the middle of a section, but it is counted.
FreeInner(i, p) ==
    /\ IsInner(i, p)
    /\ Install(sections, 0)
    /\ Credit(1)

FreePage(p) ==
    /\ Idle
    /\ p \in held
    /\ \E i \in DOMAIN sections :
        /\ Found(i, p)
        /\ IF FallsOff(i, p) THEN Halt /\ Credit(0)
           ELSE IF sections[i].free = FREE THEN Install(sections, 0) /\ Credit(0)
           ELSE \/ FreeSingle(i, p)
                \/ FreeFirst(i, p)
                \/ FreeLast(i, p)
                \/ FreeInner(i, p)
    /\ held' = IF halted' THEN held ELSE held \ {p}
    /\ Continue

(* pmm_lock_page *)

LockSingle(i) ==
    LET s == Retype(sections, i, USED) IN
    IF i = Len(sections) THEN Halt
    ELSE IF PrevIs(i, USED) /\ NextIs(i, USED) THEN Install(Merge(Merge(s, i), i - 1), 0)
    ELSE IF PrevIs(i, USED) THEN Install(Merge(s, i - 1), 0)
    ELSE IF NextIs(i, USED) THEN Install(Merge(s, i), 0)
    ELSE Install(s, 0)

LockFirst(i, p) ==
    /\ IsFirst(i, p)
    /\ IF PrevIs(i, USED) THEN Install(ShiftDown(sections, i), 0)
       ELSE Install(Retype(Split(sections, i, p + 1), i, USED),
                    IF Cuts(sections, i, p + 1) THEN 1 ELSE 0)

\* A slip: the wrong half of the section becomes USED.
LockLastWrongHalf(i, p) ==
    /\ IsLast(i, p)
    /\ IF NextIs(i, USED) THEN Install(ShiftUp(sections, i), 0)
       ELSE Install(Retype(Split(sections, i, p), i, USED), 1)

LockLast(i, p) ==
    /\ IsLast(i, p)
    /\ IF NextIs(i, USED) THEN Install(ShiftUp(sections, i), 0)
       ELSE Install(Retype(Split(sections, i, p), i + 1, USED), 1)

LockInner(i, p) ==
    /\ IsInner(i, p)
    /\ Install(Retype(Split(Split(sections, i, p), i + 1, p + 1), i + 1, USED), 2)

LockAt(p) ==
    \E i \in DOMAIN sections :
        /\ Found(i, p)
        /\ IF FallsOff(i, p) THEN Halt
           ELSE IF IsFirst(i, p) /\ sections[i].pages = 1 THEN LockSingle(i)
           ELSE IF sections[i].free = USED THEN Install(sections, 0)
           ELSE LockFirst(i, p) \/ LockLast(i, p) \/ LockInner(i, p)

\* A client reserves the page at a known address.
LockPage(p) ==
    /\ Idle
    /\ \E kind \in LockTargets : p \in PagesOf(kind)
    /\ LockAt(p)
    /\ held' = IF p \in FreePages /\ ~ halted' THEN held \cup {p} ELSE held
    /\ UNCHANGED free_memory
    /\ Continue

(* pmm_alloc_pool *)

Fits(i, n) == sections[i].free = FREE /\ sections[i].pages >= n

\* The first FREE section with n pages is locked page by page; when there is
\* none the list is recombined and the caller gets NULL.
AllocPool(n) ==
    /\ Idle
    /\ IF \E i \in DOMAIN sections : Fits(i, n)
       THEN \E i \in DOMAIN sections :
              /\ Fits(i, n)
              /\ \A j \in 1 .. i - 1 : ~ Fits(j, n)
              /\ pc' = "lock"
              /\ cursor' = sections[i].start
              /\ left' = n
              /\ UNCHANGED detected
       ELSE /\ pc' = "recombine"
            /\ cursor' = 1
            /\ detected' = FALSE
            /\ UNCHANGED left
    /\ UNCHANGED <<sections, head, free_memory, held, halted>>

\* One iteration of pmm_lock_pages.
PoolLock ==
    /\ pc = "lock" /\ ~ halted
    /\ LockAt(cursor)
    /\ held' = IF halted' THEN held ELSE held \cup {cursor}
    /\ cursor' = cursor + 1
    /\ left' = left - 1
    /\ pc' = IF left = 1 THEN "idle" ELSE "lock"
    /\ UNCHANGED <<free_memory, detected>>

(* pmm_recombine: one action per turn of its inner loop. *)

RecombineMerge ==
    /\ pc = "recombine" /\ ~ halted
    /\ cursor < Len(sections)
    /\ sections[cursor].free = sections[cursor + 1].free
    /\ Install(Merge(sections, cursor), 0)
    /\ cursor' = cursor + 1
    /\ detected' = TRUE
    /\ UNCHANGED <<free_memory, held, pc, left>>

RecombineSkip ==
    /\ pc = "recombine" /\ ~ halted
    /\ cursor < Len(sections)
    /\ sections[cursor].free # sections[cursor + 1].free
    /\ cursor' = cursor + 1
    /\ UNCHANGED <<sections, head, free_memory, held, halted, pc, left, detected>>

\* Slips: one pass is taken to be enough; what a pass merged is remembered.
RecombineOnce ==
    /\ pc = "recombine" /\ ~ halted
    /\ cursor >= Len(sections)
    /\ pc' = "idle"
    /\ cursor' = 1
    /\ detected' = FALSE
    /\ UNCHANGED <<sections, head, free_memory, held, halted, left>>

RecombineForever ==
    /\ pc = "recombine" /\ ~ halted
    /\ cursor >= Len(sections)
    /\ pc' = IF detected THEN "recombine" ELSE "idle"
    /\ cursor' = 1
    /\ UNCHANGED <<sections, head, free_memory, held, halted, left, detected>>

\* A pass that merged anything is followed by another.
RecombinePassEnd ==
    /\ pc = "recombine" /\ ~ halted
    /\ cursor >= Len(sections)
    /\ pc' = IF detected THEN "recombine" ELSE "idle"
    /\ cursor' = 1
    /\ detected' = FALSE
    /\ UNCHANGED <<sections, head, free_memory, held, halted, left>>

(* __uartsh_pmm_dump, from the serial port's interrupt handler *)
PmmDump ==
    /\ ~ halted
    /\ free_memory' = Cardinality(FreePages) % Word
    /\ UNCHANGED <<sections, head, held, halted, pc, cursor, left, detected>>

\* The steps that carry on with a call that has begun.
Step ==
    \/ AllocUnlinkEmpty
    \/ AllocTake
    \/ AllocFail
    \/ PoolLock
    \/ RecombineMerge
    \/ RecombineSkip
    \/ RecombinePassEnd

Next ==
    \/ AllocPage
    \/ \E p \in Pages : FreePage(p) \/ LockPage(p)
    \/ \E n \in PoolSizes : AllocPool(n)
    \/ Step
    \/ PmmDump

Spec == Init /\ [][Next]_vars
FairSpec == Spec /\ WF_vars(Step)

----------------------------------------------------------------------------
(* Correctness *)

TypeOK ==
    /\ sections \in Seq(Section) \ {<<>>}
    /\ head \in 0 .. Slots
    /\ free_memory \in 0 .. Word - 1
    /\ held \subseteq Pages
    /\ halted \in BOOLEAN
    /\ pc \in {"idle", "alloc", "lock", "recombine"}
    /\ cursor \in Nat
    /\ left \in Nat
    /\ detected \in BOOLEAN

\* Splitting, merging, shifting and unlinking sections never leaves a gap or
\* an overlap: every page is in exactly one section (pfa.c).
SectionsTile == Tiled(sections)

\* No two neighbouring sections are FREE.  pmm_lock_pages relies on it: an
\* empty FREE section left by pmm_alloc_page, with a FREE section after it,
\* would take the place of that section in the scan for its first page.
FreeSeparated == Shaped(sections) /\ Separated(sections)

\* A page a client holds is in a USED section, so no call hands it out again.
HeldIsUsed == held \subseteq UsedPages

\* What pmm_alloc_pool has still to lock of a pool is the beginning of a FREE
\* section: no iteration of pmm_lock_pages splits or merges it away.
PoolAhead ==
    pc = "lock" /\ ~ halted =>
        /\ left > 0
        /\ \E i \in DOMAIN sections : /\ sections[i].free = FREE
                                      /\ sections[i].start = cursor
                                      /\ sections[i].pages >= left

\* Pages of BAD sections (firmware, MMIO, the first megabyte) stay BAD, through
\* every merge of neighbours of one kind.
BadIsFixed == [][BadPages' = BadPages]_vars

\* When pmm_recombine ends no two neighbouring sections are of one kind,
\* although each pass steps over the section it has just merged into.
RecombineComplete ==
    [][pc = "recombine" /\ pc' = "idle" =>
         \A i \in 1 .. Len(sections) - 1 : sections[i].free # sections[i + 1].free]_vars

\* pmm_alloc_page, pmm_lock_pages and pmm_recombine end, whatever they find.
CallsEnd == pc # "idle" ~> (pc = "idle" \/ halted)

\* The section list implements the set of free pages and the set of held pages.
Map == INSTANCE PageMap WITH free <- FreePages, held <- held
ImplementsPageMap == Map!Spec

----------------------------------------------------------------------------
(* What comments in the code say, and the code does not do. *)

\* pfa.c:104 "One page chunk and we need to free it": a page given back is free.
FreedPageIsFree ==
    [][\A p \in held \ held' : p \in FreePages']_vars

=============================================================================
