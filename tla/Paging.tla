-------------------------------- MODULE Paging --------------------------------
(***************************************************************************)
(* Page tables: paging_map_page, paging_walk_page and paging_unmap_page    *)
(* (paging.c), the building of the kernel's tables (reload.c) and of the   *)
(* task's (task.c), and the system calls that change them: pmap, punmap,   *)
(* fb_req, fb_kill, kb_man.                                                *)
(*                                                                         *)
(* Addresses count pages.  A table is its present entries; an entry has an *)
(* address and the flag USER, all others being alike.  paging_map_page     *)
(* calls itself for each table it adds; stack holds its calls, and every   *)
(* level of a call is one or two steps, between which the serial shell's   *)
(* interrupt may make the AHCI driver map its registers, through the same  *)
(* pointer to the current table.  The code's four levels of 512 entries    *)
(* are Levels of Radix; an entry of a table at level l covers Span[l] pages. *)
(***************************************************************************)
EXTENDS Naturals, FiniteSets, SequencesExt

CONSTANTS
    Levels, Radix, Span,
    BitOr(_, _),    \* the bitwise or of two addresses
    Memory,         \* pages of the memory map in use, in its order
    Pool,           \* those of them that pmm_alloc_page may hand out
    VirtualOffset,  \* PAGING_VIRTUAL_OFFSET
    KernelOffset,   \* from the kernel's pages to where it runs
    KernelImage,    \* the kernel's pages
    Segments,       \* the program's: a sequence of [virt, phys]
    Stack, Ist,     \* pages of the task's stack, of an interrupt stack
    Context, GsBase,
    Framebuffer,    \* its pages
    Abar,           \* registers of the AHCI controller
    UserVirts,      \* where the program asks for pages, other than NULL
    Calls           \* bound: system calls the program makes

NULL == 0
Spaces == {"kernel", "task"}
Pages == 0 .. Span[0] - 1

ASSUME Sizes ==
    /\ Levels \in Nat \ {0, 1} /\ Radix \in Nat \ {0, 1}
    /\ Span \in [0 .. Levels -> Nat \ {0}] /\ Span[Levels] = 1
    /\ \A l \in 1 .. Levels : Span[l - 1] = Radix * Span[l]
ASSUME Ors ==
    /\ \A a \in Pages : BitOr(NULL, a) = a /\ BitOr(a, a) = a
    /\ \A a, b \in Pages : BitOr(a, b) \in Pages
ASSUME NothingAtNull == NULL \notin Pool \cup UserVirts \cup {Abar}
ASSUME SomeCalls == Calls \in Nat \ {0}

VARIABLES
    table,      \* the tables, a function from their pages
    root,       \* the topmost table of each space, or NULL
    pml4,       \* the space paging_map_page works in
    free,       \* pages pmm_alloc_page may hand out
    stack,      \* calls of paging_map_page under way, the current one last
    todo,       \* what the call below has still to map and unmap
    call,       \* what is under way: a system call or a part of the boot
    held,       \* a process has the framebuffer
    buffer,     \* kb_man's current_buffer, or NULL
    loaded,     \* the AHCI driver is loaded, or being loaded
    wanted,     \* ghost: what has been mapped, in which space
    overlaid,   \* ghost: where a page was mapped upon another, in which space
    own,        \* ghost: pages the program was given
    made,       \* system calls made
    disturbed   \* ghost: the interrupt came while tables were in the making

\* What the steps of mapping a page leave alone.
caller == <<root, pml4, call, held, buffer, loaded, own, made, disturbed>>
vars == <<table, root, pml4, free, stack, todo, call, held, buffer, loaded,
          wanted, overlaid, own, made, disturbed>>

Index(virt, level) == (virt \div Span[level]) % Radix

\* paging_walk_page down to a level: the table there, or NULL.
Under(t, i) == IF t # NULL /\ i \in DOMAIN table[t] THEN table[t][i].at ELSE NULL
Walk(space, virt) ==
    LET at[l \in 1 .. Levels] ==
            IF l = 1 THEN root[space] ELSE Under(at[l - 1], Index(virt, l - 1))
    IN at
TableAt(space, virt, level) == Walk(space, virt)[level]

Leaf(space, virt) == TableAt(space, virt, Levels)
Mapped(space, virt) ==
    Leaf(space, virt) # NULL /\ Index(virt, Levels) \in DOMAIN table[Leaf(space, virt)]

paging_walk_page(space, virt) ==
    IF Mapped(space, virt) THEN table[Leaf(space, virt)][Index(virt, Levels)].at ELSE NULL

\* What the processor lets the program use: USER at every level.
UserMay(space, virt) ==
    \A l \in 1 .. Levels : table[TableAt(space, virt, l)][Index(virt, l)].user

Entry(at, user) == [at |-> at, user |-> user]
With(f, i, e) == [j \in DOMAIN f \cup {i} |-> IF j = i THEN e ELSE f[j]]
Set(t, i, entry) == [table EXCEPT ![t] = With(@, i, entry)]
NextPage == Min(free)

Idle == [name |-> "idle", virt |-> NULL]

----------------------------------------------------------------------------
(* What each call maps and unmaps, in its order *)

MapOp(virt, phys, user) == [kind |-> "map", virt |-> virt, phys |-> phys, user |-> user]
UnmapOp(virt) == [MapOp(virt, NULL, FALSE) EXCEPT !.kind = "unmap"]
\* Maps a page to what the space being built maps it to so far.
AliasOp(virt) == [MapOp(virt, NULL, FALSE) EXCEPT !.kind = "alias"]

Identity(pages, user) == [i \in DOMAIN pages |-> MapOp(pages[i], pages[i], user)]
Shifted(pages, offset, user) == [i \in DOMAIN pages |-> MapOp(pages[i] + offset, pages[i], user)]

\* paging_reload_kernel_map
KernelOps ==
    [k \in 1 .. 2 * Len(Memory) |->
        LET page == Memory[(k + 1) \div 2]
        IN MapOp(IF k % 2 = 1 THEN page ELSE page + VirtualOffset, page, FALSE)]
    \o Shifted(KernelImage, KernelOffset, FALSE)

\* task_new_page_table: the interrupt stack with the page behind it, from the
\* top down.
TaskOps(table_page) ==
    Shifted(KernelImage, KernelOffset, FALSE)
    \o [i \in DOMAIN Segments |-> MapOp(Segments[i].virt, Segments[i].phys, TRUE)]
    \o Identity(Stack, TRUE)
    \o Identity(<<Last(Ist) + 1>> \o Reverse(Ist), FALSE)
    \o <<AliasOp(Context), MapOp(table_page, table_page, FALSE), MapOp(GsBase, GsBase, FALSE)>>

\* What is mapped where in each space, other than where the program asks for it.
Pair(virt, phys) == [virt |-> virt, phys |-> phys]
Moved(pages, offset) == {Pair(p + offset, p) : p \in pages}
KernelPairs ==
    Moved(ToSet(Memory) \cup ToSet(KernelImage) \cup Pool \cup {Abar, NULL}, 0)
    \cup Moved(ToSet(Memory), VirtualOffset)
    \cup Moved(ToSet(KernelImage), KernelOffset)
TaskPairs ==
    Moved(ToSet(Stack) \cup ToSet(Ist) \cup Pool \cup {Last(Ist) + 1, GsBase, Abar}, 0)
    \cup {Pair(s.virt, s.phys) : s \in ToSet(Segments)}
    \cup Moved(ToSet(KernelImage), KernelOffset)
    \cup Moved(ToSet(Framebuffer), VirtualOffset)
    \cup {Pair(Context, NULL)}

\* Memory is laid out so that the kernel maps nothing upon something else.  Where
\* the program asks for pages is not restricted.
ASSUME Layout ==
    /\ \A pairs \in {KernelPairs, TaskPairs} :
          /\ pairs \subseteq [virt : Pages, phys : Pages]
          /\ \A a, b \in pairs : a.virt = b.virt => a.phys = b.phys
    /\ \A a \in TaskPairs :
          /\ a.phys \in ToSet(Framebuffer) => a.virt = a.phys + VirtualOffset
          /\ a.phys \in Pool => a.virt = a.phys
    /\ UserVirts \subseteq Pages
ASSUME Lists ==
    /\ \A pages \in {Memory, KernelImage, Stack, Ist, Framebuffer} : pages \in Seq(Pages)
    /\ Segments \in Seq([virt : Pages, phys : Pages])
    /\ Ist # <<>>
\* The pages of the program and the framebuffer are not handed out again.
ASSUME Taken ==
    /\ Pool # {}
    /\ Pool \cap ({s.phys : s \in ToSet(Segments)} \cup ToSet(Stack) \cup ToSet(Framebuffer)) = {}

Init ==
    /\ table = <<>>
    /\ root = [s \in Spaces |-> NULL]
    /\ pml4 = "kernel"
    /\ free = Pool
    /\ stack = <<>> /\ todo = <<>>
    /\ call = [Idle EXCEPT !.name = "start"]
    /\ held = FALSE
    /\ buffer = NULL
    /\ loaded = FALSE
    /\ wanted = [s \in Spaces |-> <<>>]
    /\ overlaid = [s \in Spaces |-> {}]
    /\ own = {s.phys : s \in ToSet(Segments)} \cup ToSet(Stack)
    /\ made = 0
    /\ disturbed = FALSE

----------------------------------------------------------------------------
(* Calls *)

NewSpace(space, ops, name) ==
    /\ table' = With(table, NextPage, <<>>)
    /\ root' = [root EXCEPT ![space] = NextPage]
    /\ free' = free \ {NextPage}
    /\ pml4' = space
    /\ todo' = ops
    /\ call' = [Idle EXCEPT !.name = name]
    /\ UNCHANGED <<stack, held, buffer, loaded, wanted, overlaid, own, made, disturbed>>

paging_reload_kernel_map ==
    /\ call.name = "start"
    /\ NewSpace("kernel", KernelOps, "paging_reload_kernel_map")

Ready == call = Idle /\ stack = <<>> /\ free # {}

task_new_page_table ==
    /\ Ready /\ root["task"] = NULL
    /\ NewSpace("task", TaskOps(NextPage), "task_new_page_table")

\* A system call that maps or unmaps in the space given.
Syscall(name, virt, space, ops) ==
    /\ Ready /\ root["task"] # NULL
    /\ made < Calls /\ made' = made + 1
    /\ pml4' = space
    /\ todo' = ops
    /\ call' = [name |-> name, virt |-> virt]
    /\ UNCHANGED <<table, root, stack, loaded, wanted, overlaid, disturbed>>

\* Nothing is asked of the address: a page of the program's own, or of the kernel's
\* in the task's tree, may be mapped there.
pmap(asked) ==
    LET phys == NextPage
        virt == IF asked = NULL THEN phys ELSE asked
    IN /\ Syscall("pmap", virt, "task", <<MapOp(virt, phys, TRUE)>>)
       /\ free' = free \ {phys}
       /\ own' = own \cup {phys}
       /\ UNCHANGED <<held, buffer>>

\* The page, mapped for the program or not, is looked up and unmapped in the
\* kernel's space, and mapped there.
punmap(virt) ==
    LET phys == paging_walk_page("kernel", virt) IN
    /\ Syscall("punmap", virt, "kernel", <<UnmapOp(virt), MapOp(phys, phys, FALSE)>>)
    /\ UNCHANGED <<free, held, buffer, own>>

fb_req ==
    /\ ~ held /\ held' = TRUE
    /\ Syscall("fb_req", NULL, "task", Shifted(Framebuffer, VirtualOffset, TRUE))
    /\ own' = own \cup ToSet(Framebuffer)
    /\ UNCHANGED <<free, buffer>>

fb_kill ==
    /\ held /\ held' = FALSE
    /\ Syscall("fb_kill", NULL, "task",
               [i \in DOMAIN Framebuffer |-> UnmapOp(Framebuffer[i] + VirtualOffset)])
    /\ own' = own \ ToSet(Framebuffer)
    /\ UNCHANGED <<free, buffer>>

kb_man_take ==
    /\ buffer = NULL
    /\ Syscall("kb_man", NextPage, "task", <<MapOp(NextPage, NextPage, TRUE)>>)
    /\ buffer' = NextPage
    /\ free' = free \ {NextPage}
    /\ own' = own \cup {NextPage}
    /\ UNCHANGED held

\* pmm_free_page, which may drop the page, comes before the unmapping.
kb_man_give ==
    /\ buffer # NULL /\ buffer' = NULL
    /\ Syscall("kb_man", buffer, "task", <<UnmapOp(buffer)>>)
    /\ \E given \in {{buffer}, {}} : free' = free \cup given
    /\ own' = own \ {buffer}
    /\ UNCHANGED held

\* The pointer goes back to the kernel's table.
Return ==
    /\ call # Idle /\ call.name # "start"
    /\ stack = <<>> /\ todo = <<>>
    /\ pml4' = "kernel"
    /\ call' = Idle
    /\ UNCHANGED <<table, root, free, stack, todo, held, buffer, loaded, wanted, overlaid, own,
                   made, disturbed>>

----------------------------------------------------------------------------
(* paging_map_page, paging_unmap_page *)

\* A call of paging_map_page at the root of the current table; intent is the
\* space the caller means.
Frame(virt, phys, user, intent) ==
    [virt |-> virt, phys |-> phys, user |-> user, intent |-> intent,
     at |-> root[pml4], level |-> 1, new |-> NULL]

Begin ==
    /\ stack = <<>> /\ todo # <<>>
    /\ LET op == Head(todo) IN
       /\ op.kind # "unmap"
       /\ stack' = <<Frame(op.virt,
                           IF op.kind = "map" THEN op.phys ELSE paging_walk_page(pml4, op.virt),
                           op.user, pml4)>>
    /\ todo' = Tail(todo)
    /\ UNCHANGED <<caller, table, free, wanted, overlaid>>

paging_unmap_page ==
    /\ stack = <<>> /\ todo # <<>>
    /\ LET virt == Head(todo).virt
           t == Leaf(pml4, virt)
       IN /\ Head(todo).kind = "unmap"
          /\ table' = IF t = NULL THEN table
                      ELSE [table EXCEPT ![t] = [i \in DOMAIN @ \ {Index(virt, Levels)} |-> @[i]]]
          /\ wanted' = [wanted EXCEPT ![pml4] = [v \in DOMAIN @ \ {virt} |-> @[v]]]
          /\ overlaid' = [overlaid EXCEPT ![pml4] = @ \ {virt}]
    /\ todo' = Tail(todo)
    /\ UNCHANGED <<caller, free, stack>>

Top == Last(stack)
At(f) == Index(f.virt, f.level)
Above == stack # <<>> /\ Top.level < Levels
SetTop(frame) == [stack EXCEPT ![Len(stack)] = frame]
Down(f, t) == [f EXCEPT !.at = t, !.level = @ + 1, !.new = NULL]

\* A slip: a flag the lower page needs is not added on the way down.
DescendBare ==
    /\ Above /\ Top.new = NULL
    /\ At(Top) \in DOMAIN table[Top.at]
    /\ stack' = SetTop(Down(Top, table[Top.at][At(Top)].at))
    /\ UNCHANGED <<caller, table, free, todo, wanted, overlaid>>

\* The entry is present: its flags are added to, and the walk goes on below.
Descend ==
    /\ Above /\ Top.new = NULL
    /\ At(Top) \in DOMAIN table[Top.at]
    /\ LET entry == table[Top.at][At(Top)] IN
       /\ stack' = SetTop(Down(Top, entry.at))
       /\ table' = Set(Top.at, At(Top), [entry EXCEPT !.user = @ \/ Top.user])
    /\ UNCHANGED <<caller, free, todo, wanted, overlaid>>

\* A slip: the page stays free.
AddTableFree ==
    /\ Above /\ Top.new = NULL
    /\ At(Top) \notin DOMAIN table[Top.at]
    /\ free # {}
    /\ stack' = SetTop([Top EXCEPT !.new = NextPage])
    /\ table' = With(table, NextPage, <<>>)
    /\ UNCHANGED <<caller, free, todo, wanted, overlaid>>

\* The entry is not: a page is allocated and cleared.
AddTable ==
    /\ Above /\ Top.new = NULL
    /\ At(Top) \notin DOMAIN table[Top.at]
    /\ free # {}
    /\ stack' = SetTop([Top EXCEPT !.new = NextPage])
    /\ free' = free \ {NextPage}
    /\ table' = With(table, NextPage, <<>>)
    /\ UNCHANGED <<caller, todo, wanted, overlaid>>

\* A slip: the table is mapped before it is entered.
InstallLate ==
    /\ Above /\ Top.new # NULL
    /\ stack' = Append(SetTop([Top EXCEPT !.new = NULL]), Frame(Top.new, Top.new, FALSE, pml4))
    /\ UNCHANGED <<caller, table, free, todo, wanted, overlaid>>

\* A slip: the table is mapped with the flags of the page that needs it.
InstallUser ==
    /\ Above /\ Top.new # NULL
    /\ table' = Set(Top.at, At(Top), Entry(Top.new, Top.user))
    /\ stack' = Append(SetTop(Down(Top, Top.new)), Frame(Top.new, Top.new, Top.user, pml4))
    /\ UNCHANGED <<caller, free, todo, wanted, overlaid>>

\* The table is entered, whatever is there by now, and then mapped by a call of
\* the function for it.
Install ==
    /\ Above /\ Top.new # NULL
    /\ table' = Set(Top.at, At(Top), Entry(Top.new, Top.user))
    /\ stack' = Append(SetTop(Down(Top, Top.new)), Frame(Top.new, Top.new, FALSE, pml4))
    /\ UNCHANGED <<caller, free, todo, wanted, overlaid>>

\* A page mapped where another is already.
Overlay(old) ==
    [overlaid EXCEPT ![pml4] = IF old \in {NULL, Top.phys} THEN @ ELSE @ \cup {Top.virt}]

\* A slip: the flags are added to those there, as above.
SetLeafAdding ==
    /\ stack # <<>> /\ Top.level = Levels
    /\ LET old == IF At(Top) \in DOMAIN table[Top.at] THEN table[Top.at][At(Top)]
                                                     ELSE Entry(0, FALSE)
       IN /\ table' = Set(Top.at, At(Top), Entry(BitOr(old.at, Top.phys), old.user \/ Top.user))
          /\ overlaid' = Overlay(old.at)
    /\ wanted' = [wanted EXCEPT ![Top.intent] = With(@, Top.virt, Entry(Top.phys, Top.user))]
    /\ stack' = Front(stack)
    /\ UNCHANGED <<caller, free, todo>>

\* The address is ORed to the one there, the flags are replaced.
SetLeaf ==
    /\ stack # <<>> /\ Top.level = Levels
    /\ LET old == IF At(Top) \in DOMAIN table[Top.at] THEN table[Top.at][At(Top)].at ELSE 0
       IN /\ table' = Set(Top.at, At(Top), Entry(BitOr(old, Top.phys), Top.user))
          /\ overlaid' = Overlay(old)
    /\ wanted' = [wanted EXCEPT ![Top.intent] = With(@, Top.virt, Entry(Top.phys, Top.user))]
    /\ stack' = Front(stack)
    /\ UNCHANGED <<caller, free, todo>>

\* The serial shell's lsdisks: the driver takes a page and maps its registers.
\* It means the kernel's table, and gets the one pml4 points to.  The serial port
\* is enabled behind paging_reload_kernel_map.
_ahci_driver_load_pci ==
    /\ ~ loaded
    /\ call.name \notin {"start", "paging_reload_kernel_map"}
    /\ free # {}
    /\ loaded' = TRUE
    /\ free' = free \ {NextPage}
    /\ stack' = Append(stack, Frame(Abar, Abar, FALSE, "kernel"))
    /\ disturbed' = (stack # <<>> \/ pml4 # "kernel")
    /\ UNCHANGED <<table, root, pml4, todo, call, held, buffer, wanted, overlaid, own, made>>

paging_map_page == Begin \/ Descend \/ AddTable \/ Install \/ SetLeaf

Step == paging_map_page \/ paging_unmap_page \/ Return

Call ==
    \/ task_new_page_table
    \/ \E virt \in UserVirts \cup {NULL} : pmap(virt)
    \/ \E virt \in UserVirts \cup (own \cap Pool) : punmap(virt)
    \/ fb_req \/ fb_kill
    \/ kb_man_take \/ kb_man_give

Next ==
    \/ paging_reload_kernel_map
    \/ Call
    \/ Step
    \/ _ahci_driver_load_pci

\* A call that has begun is carried on when its interrupts end.
Spec == Init /\ [][Next]_vars /\ WF_vars(Step)

----------------------------------------------------------------------------
(* Correctness *)

Entries == [at : Pages, user : BOOLEAN]

TypeOK ==
    /\ \A t \in DOMAIN table : \A i \in DOMAIN table[t] :
          t \in Pool /\ i \in 0 .. Radix - 1 /\ table[t][i] \in Entries
    /\ root \in [Spaces -> Pool \cup {NULL}]
    /\ pml4 \in Spaces
    /\ free \subseteq Pool
    /\ \A k \in DOMAIN stack :
          /\ stack[k].at \in DOMAIN table /\ stack[k].level \in 1 .. Levels
          /\ stack[k].new \in DOMAIN table \cup {NULL}
    /\ held \in BOOLEAN /\ buffer \in Pool \cup {NULL}
    /\ loaded \in BOOLEAN /\ disturbed \in BOOLEAN
    /\ DOMAIN wanted["task"] \subseteq Pages /\ DOMAIN wanted["kernel"] \subseteq Pages
    /\ overlaid \in [Spaces -> SUBSET Pages]
    /\ own \subseteq Pages /\ made \in 0 .. Calls

\* What a space maps, and what of it the program may use.
Mapping(space) ==
    [v \in {v \in Pages : Mapped(space, v)} |->
        Entry(paging_walk_page(space, v), UserMay(space, v))]

\* A tree of tables, built by a function that changes it while adding to it,
\* maps exactly the pages that were mapped and not unmapped, with the rights that
\* were asked for last, to the pages they were mapped to, unless an interrupt came
\* in the middle.  Only where the program had a page mapped upon another is it
\* another page: paging_map_page adds the bits of the second address to the first.
TreeIsMap ==
    /\ TypeOK
    /\ ~ disturbed =>
        /\ overlaid["kernel"] = {} /\ overlaid["task"] \subseteq UserVirts
        /\ \A s \in Spaces : root[s] # NULL =>
              LET mapping == Mapping(s)
              IN /\ DOMAIN mapping = DOMAIN wanted[s]
                 /\ \A v \in DOMAIN mapping :
                       /\ mapping[v].user = wanted[s][v].user
                       /\ v \notin overlaid[s] => mapping[v].at = wanted[s][v].at

\* A place in a tree: its level and the part of the address that leads there.
Places(space) ==
    {p \in {<<space, l, v \div Span[l - 1]>> : l \in 1 .. Levels, v \in Pages} :
        TableAt(space, p[3] * Span[p[2] - 1], p[2]) # NULL}
TableIn(p) == TableAt(p[1], p[3] * Span[p[2] - 1], p[2])

\* No table is in two places, in two spaces, free, or a page of the program, even
\* when an interrupt came in the middle.
TablesApart ==
    LET places == UNION {Places(s) : s \in Spaces}
        tables == {TableIn(p) : p \in places}
    IN /\ Cardinality(tables) = Cardinality(places)
       /\ tables \cap (free \cup own) = {}

\* Whatever is mapped next to its pages, and whatever takes the keyboard's page
\* before it is unmapped, the program, when it runs, may only use pages that it
\* was given; but for the addresses at which it had a page mapped upon another, of
\* its own or of the kernel's, where the code gives it the page whose address has
\* the bits of both.
ProgramKeepsToItsOwn ==
    root["task"] # NULL /\ call = Idle =>
        \A v \in Pages \ overlaid["task"] : Mapped("task", v) /\ UserMay("task", v) =>
            paging_walk_page("task", v) \in own

\* A call that has begun ends, although paging_map_page calls itself for each
\* table it adds.
CallsEnd == call # Idle /\ call.name # "start" ~> call = Idle

----------------------------------------------------------------------------
(* What a comment in the code says, and the code does not do. *)

\* handler.s:134 "unmap a page": when punmap returns, the page is not mapped for
\* the program.
PunmapUnmaps ==
    [][\A virt \in Pages : call = [name |-> "punmap", virt |-> virt] /\ call' = Idle
            => ~ Mapped("task", virt)']_vars
=============================================================================
