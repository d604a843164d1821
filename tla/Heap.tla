-------------------------------- MODULE Heap --------------------------------
(***************************************************************************)
(* The kernel heap (src/kernel/src/mem/heap/allocator.c): a list of        *)
(* segments, each a header and a block, in one range of virtual addresses  *)
(* that grows at its end.                                                  *)
(*                                                                         *)
(* Addresses and lengths count units of 16 bytes, to which malloc rounds.  *)
(* A segment's next is the following element of the list; its last is the  *)
(* preceding one.  malloc calls itself after each heap_expand, and each    *)
(* turn is a step.                                                         *)
(***************************************************************************)
EXTENDS Integers, Sequences, Functions, SequencesExt

CONSTANTS
    Header,         \* sizeof(heap_seg_header_t), in units
    PageUnits,      \* 0x1000, in units
    InitPages,      \* the pages heap_initialize maps
    NodeUnits,      \* sizeof(pmm_pool_t), rounded up by malloc
    Sizes,          \* the lengths malloc is asked for, rounded up
    MaxUnits,       \* bound: no call begins that could take heap_end past it
    NoBlock         \* no block is being reallocated

ASSUME UnitsAssumption ==
    /\ Header \in Nat \ {0}
    /\ PageUnits \in Nat /\ Header < PageUnits
    /\ InitPages \in Nat \ {0}
    /\ NodeUnits \in Nat \ {0} /\ NodeUnits + 2 * Header < PageUnits
    /\ Sizes \subseteq Nat \ {0}
    /\ MaxUnits \in Nat /\ InitPages * PageUnits <= MaxUnits
    /\ NoBlock \notin Nat

VARIABLES
    heap,           \* the segments in list order, and last_header
    heap_end,       \* the first address past the heap
    live,           \* ghost: the blocks callers hold, with the lengths they asked for
    pc,             \* "boot" before the first malloc, "malloc" inside one
    want,           \* the length malloc is looking for
    old,            \* the block realloc will copy and free, or NoBlock
    expansions      \* ghost: how often this malloc has called heap_expand

vars == <<heap, heap_end, live, pc, want, old, expansions>>

Segment == [at : Nat, length : Nat, free : BOOLEAN]
Seg(at, length, free) == [at |-> at, length |-> length, free |-> free]

Block(seg) == seg.at + Header           \* what malloc returns
SegEnd(seg) == Block(seg) + seg.length

\* The segment whose header is in front of the block.
IndexOf(s, block) == CHOOSE i \in DOMAIN s : Block(s[i]) = block

\* header_split: what is left of segment i beyond n becomes a segment if a
\* header and at least one unit fit.
Splits(s, i, n) == s[i].length - n - Header >= 1

\* A slip: the length of the rest does not allow for its header.
SegSplitLong(h, i, n) ==
    LET seg == h.segs[i]
        new == Seg(Block(seg) + n, seg.length - n, seg.free)
    IN  IF Splits(h.segs, i, n)
        THEN [segs |-> InsertAt([h.segs EXCEPT ![i].length = n], i + 1, new),
              last |-> IF h.last = seg.at THEN new.at ELSE h.last]
        ELSE h

\* A slip: the new header lies inside the block.
SegSplitInside(h, i, n) ==
    LET seg == h.segs[i]
        new == Seg(seg.at + n, seg.length - n, seg.free)
    IN  IF Splits(h.segs, i, n)
        THEN [segs |-> InsertAt([h.segs EXCEPT ![i].length = n], i + 1, new),
              last |-> IF h.last = seg.at THEN new.at ELSE h.last]
        ELSE h

SegSplit(h, i, n) ==
    LET seg == h.segs[i]
        new == Seg(Block(seg) + n, seg.length - n - Header, seg.free)
    IN  IF Splits(h.segs, i, n)
        THEN [segs |-> InsertAt([h.segs EXCEPT ![i].length = n], i + 1, new),
              last |-> IF h.last = seg.at THEN new.at ELSE h.last]
        ELSE h

\* header_combine_forward: a free next segment is swallowed.
Forward(h, i) ==
    LET s == h.segs IN
    IF i < Len(s) /\ s[i + 1].free
    THEN [segs |-> RemoveAt([s EXCEPT ![i].length = @ + s[i + 1].length + Header], i + 1),
          last |-> IF h.last = s[i + 1].at THEN s[i].at ELSE h.last]
    ELSE h

\* header_combine_backward
Backward(h, i) == IF i > 1 /\ h.segs[i - 1].free THEN Forward(h, i - 1) ELSE h

\* malloc takes segment i, splitting it when it is longer than n.
TakeSegment(h, i, n) ==
    LET t == IF h.segs[i].length > n THEN SegSplit(h, i, n) ELSE h
    IN  [t EXCEPT !.segs[i].free = FALSE]

\* A slip: a freed segment is joined forward only.
ReleaseForward(h, i) == Forward([h EXCEPT !.segs[i].free = TRUE], i)

\* free, of the block of segment i
Release(h, i) == Backward(Forward([h EXCEPT !.segs[i].free = TRUE], i), i)

\* heap_expand: whole pages for n units at "end", linked behind last_header
\* and joined to it when it is free.
RoundUp(n) == ((n + PageUnits - 1) \div PageUnits) * PageUnits

Expanded(h, end, n) ==
    LET l == CHOOSE i \in DOMAIN h.segs : h.segs[i].at = h.last
        s == Append(SubSeq(h.segs, 1, l), Seg(end, RoundUp(n) - Header, TRUE))
    IN  Backward([segs |-> s, last |-> end], Len(s))

\* memset over the addresses from "from" to "to": a header in the range has
\* length 0, is not free and is the last of the list.
Cleared(h, from, to) ==
    LET hit == {i \in DOMAIN h.segs : from <= h.segs[i].at /\ h.segs[i].at < to}
        i == CHOOSE k \in hit : \A j \in hit : k <= j
    IN  IF hit = {} THEN h
        ELSE [h EXCEPT !.segs = Append(SubSeq(@, 1, i - 1), Seg(@[i].at, 0, FALSE))]

\* heap_initialize
Whole == [segs |-> <<Seg(0, InitPages * PageUnits - Header, TRUE)>>, last |-> 0]

----------------------------------------------------------------------------
\* The heap as heap_initialize leaves it, which the first malloc calls.
Init ==
    /\ heap = Whole
    /\ heap_end = InitPages * PageUnits
    /\ live = << >>
    /\ pc = "boot"
    /\ want = 0
    /\ old = NoBlock
    /\ expansions = 0

\* The first malloc of the kernel is for the first node of pmm_alloc_pool's
\* list, which then clears a page from there on.
FirstPool ==
    /\ pc = "boot"
    /\ heap' = Cleared(TakeSegment(heap, 1, NodeUnits), Header, Header + PageUnits)
    /\ live' = [p \in {Header} |-> NodeUnits]
    /\ pc' = "idle"
    /\ UNCHANGED <<heap_end, want, old, expansions>>

\* Two expansions still fit below the bound.
HasRoom(n) == heap_end + 2 * RoundUp(n) <= MaxUnits

Malloc(n) ==
    /\ pc = "idle" /\ HasRoom(n)
    /\ pc' = "malloc" /\ want' = n
    /\ UNCHANGED <<heap, heap_end, live, old, expansions>>

Realloc(p, n) ==
    /\ pc = "idle" /\ HasRoom(n)
    /\ p \in DOMAIN live
    /\ pc' = "malloc" /\ want' = n /\ old' = p
    /\ UNCHANGED <<heap, heap_end, live, expansions>>

\* Segment i is the first that malloc accepts.
Fits(i, n) == heap.segs[i].free /\ heap.segs[i].length >= n
FirstFit(i, n) == Fits(i, n) /\ \A j \in 1 .. i - 1 : ~ Fits(j, n)

\* A slip: realloc does not free the old block.
MallocTakeKeeping ==
    /\ pc = "malloc"
    /\ \E i \in DOMAIN heap.segs :
        /\ FirstFit(i, want)
        /\ heap' = TakeSegment(heap, i, want)
        /\ live' = [p \in (DOMAIN live \ {old}) \cup {Block(heap.segs[i])} |->
                        IF p = Block(heap.segs[i]) THEN want ELSE live[p]]
    /\ pc' = "idle" /\ want' = 0 /\ old' = NoBlock /\ expansions' = 0
    /\ UNCHANGED heap_end

\* malloc has found a segment; realloc then copies the block and frees the old.
MallocTake ==
    /\ pc = "malloc"
    /\ \E i \in DOMAIN heap.segs :
        LET taken == TakeSegment(heap, i, want)
            new == Block(heap.segs[i])
        IN  /\ FirstFit(i, want)
            /\ heap' = IF old = NoBlock THEN taken
                       ELSE Release(taken, IndexOf(taken.segs, old))
            /\ live' = [p \in (DOMAIN live \ {old}) \cup {new} |->
                            IF p = new THEN want ELSE live[p]]
    /\ pc' = "idle" /\ want' = 0 /\ old' = NoBlock /\ expansions' = 0
    /\ UNCHANGED heap_end

\* A slip: malloc expands once and then only looks.
MallocExpandOnce ==
    /\ pc = "malloc" /\ expansions = 0
    /\ \A i \in DOMAIN heap.segs : ~ Fits(i, want)
    /\ heap' = Expanded(heap, heap_end, want)
    /\ heap_end' = heap_end + RoundUp(want)
    /\ expansions' = expansions + 1
    /\ UNCHANGED <<live, pc, want, old>>

\* malloc has found none: heap_expand, and malloc again.
MallocExpand ==
    /\ pc = "malloc"
    /\ \A i \in DOMAIN heap.segs : ~ Fits(i, want)
    /\ heap' = Expanded(heap, heap_end, want)
    /\ heap_end' = heap_end + RoundUp(want)
    /\ expansions' = expansions + 1
    /\ UNCHANGED <<live, pc, want, old>>

Free(p) ==
    /\ pc = "idle"
    /\ p \in DOMAIN live
    /\ heap' = Release(heap, IndexOf(heap.segs, p))
    /\ live' = Restrict(live, DOMAIN live \ {p})
    /\ UNCHANGED <<heap_end, pc, want, old, expansions>>

Step == FirstPool \/ MallocTake \/ MallocExpand

Next ==
    \/ Step
    \/ \E n \in Sizes : Malloc(n)
    \/ \E p \in DOMAIN live : Free(p) \/ \E n \in Sizes : Realloc(p, n)

Spec == Init /\ [][Next]_vars
FairSpec == Spec /\ WF_vars(Step)

----------------------------------------------------------------------------
(* Correctness *)

\* The types; a malloc expands the heap at most twice: the first expansion may be
\* short of the header, the second is joined to it.
TypeOK ==
    /\ heap \in [segs : Seq(Segment) \ {<<>>}, last : Nat]
    /\ heap_end \in 0 .. MaxUnits
    /\ DOMAIN live \subseteq Nat /\ \A p \in DOMAIN live : live[p] \in Nat \ {0}
    /\ pc \in {"boot", "idle", "malloc"}
    /\ want \in Nat
    /\ old \in Nat \cup {NoBlock}
    /\ expansions \in 0 .. 2

\* The header that FirstPool cleared: nothing frees it, and nothing is linked
\* to what was behind it.
Lost(seg) == seg.length = 0

\* Each segment ends where the next one begins, and the last of them, which is
\* the one last_header points to, where the heap ends, whatever was split, joined
\* or appended; the one gap is the memory that the clearing of the first pool
\* node cut off.
SegmentsTile ==
    LET s == heap.segs
        start(i) == IF i > Len(s) THEN heap_end ELSE s[i].at
    IN  /\ TypeOK /\ heap.last = Last(s).at
        /\ \A i \in DOMAIN s :
            start(i + 1) = IF Lost(s[i]) THEN (IF i = Len(s) THEN heap_end
                                               ELSE InitPages * PageUnits)
                           ELSE SegEnd(s[i])

\* What is free is joined: no free segment follows a free one, so that malloc
\* expands the heap only if no run of free units is long enough.
FreeIsJoined ==
    \A i \in 1 .. Len(heap.segs) - 1 : ~ (heap.segs[i].free /\ heap.segs[i + 1].free)

\* Every segment that is not free is some caller's block, at least as long as
\* asked for, and every block has its segment: nothing leaks, nothing is freed
\* under its holder.
UsedIsHeld ==
    /\ \A p \in DOMAIN live :
        \E i \in DOMAIN heap.segs :
            /\ Block(heap.segs[i]) = p
            /\ ~ heap.segs[i].free
            /\ heap.segs[i].length >= live[p]
    /\ \A i \in DOMAIN heap.segs :
        heap.segs[i].free \/ Lost(heap.segs[i]) \/ Block(heap.segs[i]) \in DOMAIN live

\* malloc returns.
MallocEnds == pc = "malloc" ~> pc = "idle"

\* The segment list implements blocks that do not overlap and do not move.
B == INSTANCE Blocks
ImplementsBlocks == B!Spec
=============================================================================
