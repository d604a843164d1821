------------------------------ MODULE PageMap ------------------------------
(***************************************************************************)
(* What the kernel's physical memory manager promises, with its section    *)
(* list abstracted away: a set of pages nobody owns and a set of pages     *)
(* that clients hold.  A page a client gets was free, and it stays the     *)
(* client's until the client gives it back.  Giving a page back need not   *)
(* make it free again: pmm_free_page has paths that drop a page without    *)
(* returning it to the free sections, and this specification allows them.  *)
(***************************************************************************)
EXTENDS Naturals

CONSTANT Pages      \* the numbers of the physical pages

VARIABLES
    free,           \* the pages pmm_alloc_page and pmm_alloc_pool may hand out
    held            \* the pages some client of the manager holds

vars == <<free, held>>

Init ==
    /\ free \subseteq Pages
    /\ held = {}

Take(p) ==
    /\ p \in free
    /\ free' = free \ {p}
    /\ held' = held \cup {p}

Give(p) ==
    /\ p \in held
    /\ held' = held \ {p}
    /\ free' \in {free, free \cup {p}}

Next == \E p \in Pages : Take(p) \/ Give(p)

Spec == Init /\ [][Next]_vars

\* No page is both free and held: what a client holds is never handed out.
Exclusive == free \cap held = {}
=============================================================================
