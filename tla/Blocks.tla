------------------------------ MODULE Blocks ------------------------------
(***************************************************************************)
(* What the kernel's malloc, realloc and free promise, with the segment    *)
(* headers abstracted away: the blocks that callers hold never overlap,    *)
(* and a block stays where it is, as long as it was asked for, until its   *)
(* holder gives it up.                                                     *)
(***************************************************************************)
EXTENDS Integers, Functions

CONSTANT Header     \* the room in front of a block

VARIABLE live       \* the held blocks: a function from address to length

\* The blocks of length m at p and of length n at q share no unit.
Apart(p, m, q, n) == p + m <= q - Header \/ q + n <= p - Header

Init == live = << >>

Take(q, n) ==
    /\ \A p \in DOMAIN live : Apart(p, live[p], q, n)
    /\ live' = [p \in DOMAIN live \cup {q} |-> IF p = q THEN n ELSE live[p]]

Give(p) ==
    /\ p \in DOMAIN live
    /\ live' = Restrict(live, DOMAIN live \ {p})

\* The new block is apart from the old one too: the old is copied from.
Move(old, q, n) ==
    /\ old \in DOMAIN live
    /\ \A p \in DOMAIN live : Apart(p, live[p], q, n)
    /\ live' = [p \in (DOMAIN live \ {old}) \cup {q} |-> IF p = q THEN n ELSE live[p]]

Changed == DOMAIN live' \ DOMAIN live

Next ==
    \/ \E q \in Changed :
        \/ Take(q, live'[q])
        \/ \E old \in DOMAIN live : Move(old, q, live'[q])
    \/ \E p \in DOMAIN live : Give(p)

Spec == Init /\ [][Next]_live
=============================================================================
