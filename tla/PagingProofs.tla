----------------------------- MODULE PagingProofs -----------------------------
(* The trees of page tables are trees, are apart, hold what was mapped, and *)
(* let the program use its own pages only, proved for any number of levels, *)
(* any entries per table and any layout of memory that Paging's assumptions *)
(* allow.                                                                   *)
EXTENDS Paging, FiniteSetTheorems, SequenceTheorems, WellFoundedInduction, TLAPS

\* Where a table stands: in which tree, at which level, for which addresses.
Spot(space, level, base) == [space |-> space, level |-> level, base |-> base]
Spots == [space : Spaces, level : 1 .. Levels, base : Nat]
Child(spot, i) == Spot(spot.space, spot.level + 1, spot.base * Radix + i)

\* place gives each table its spot; an entry leads to the spot it belongs to.
Tree(place) ==
    /\ place \in [DOMAIN table -> Spots]
    /\ \A s \in Spaces : root[s] # NULL =>
          root[s] \in DOMAIN table /\ place[root[s]] = Spot(s, 1, 0)
    /\ \A t \in DOMAIN table : place[t].level < Levels =>
          \A i \in DOMAIN table[t] :
              table[t][i].at \in DOMAIN table /\ place[table[t][i].at] = Child(place[t], i)

\* A table that was added and not entered yet: empty, and no walk leads to it.
Loose(t) ==
    /\ t \in DOMAIN table /\ DOMAIN table[t] = {}
    /\ \A s \in Spaces, v \in Pages, l \in 1 .. Levels : TableAt(s, v, l) # t

\* The walk to f's page goes through the entry that g is about to set.
Through(f, g) ==
    /\ g.level < f.level
    /\ TableAt(pml4, f.virt, g.level) = g.at
    /\ Index(f.virt, g.level) = At(g)

\* Each call of paging_map_page is at the table where a walk would be; those
\* under it do not depend on the entry it is about to set.
Frames(place) ==
    \A k \in DOMAIN stack :
        /\ TableAt(pml4, stack[k].virt, stack[k].level) = stack[k].at
        /\ stack[k].at # NULL
        /\ stack[k].new # NULL =>
              /\ stack[k].level < Levels /\ Loose(stack[k].new)
              /\ place[stack[k].new] = Child(place[stack[k].at], At(stack[k]))
              /\ \A j \in DOMAIN stack :
                    /\ j < k => ~ Through(stack[j], stack[k])
                    /\ j # k => stack[j].new # stack[k].new

FrameSet ==
    [virt : Pages, phys : Pages, user : BOOLEAN, intent : Spaces,
     at : Pages, level : 1 .. Levels, new : Pages]
Ops == [kind : {"map", "unmap", "alias"}, virt : Pages, phys : Pages, user : BOOLEAN]
Names ==
    {"idle", "start", "paging_reload_kernel_map", "task_new_page_table", "pmap",
     "punmap", "fb_req", "fb_kill", "kb_man"}

Types ==
    /\ DOMAIN table \subseteq Pool
    /\ \A t \in DOMAIN table : \A i \in DOMAIN table[t] :
          i \in 0 .. Radix - 1 /\ table[t][i] \in Entries
    /\ root \in [Spaces -> Pages] /\ pml4 \in Spaces
    /\ free \subseteq Pool
    /\ stack \in Seq(FrameSet) /\ todo \in Seq(Ops)
    /\ call \in [name : Names, virt : Pages]
    /\ held \in BOOLEAN /\ loaded \in BOOLEAN /\ disturbed \in BOOLEAN
    /\ buffer \in Pool \cup {NULL}
    /\ DOMAIN wanted = Spaces
    /\ \A s \in Spaces : DOMAIN wanted[s] \subseteq Pages
    /\ overlaid \in [Spaces -> SUBSET Pages]
    /\ own \subseteq Pages /\ made \in 0 .. Calls

\* The pages a program starts with.
Programs == {s.phys : s \in ToSet(Segments)} \cup ToSet(Stack)

\* Which page is whose, and which tree there is when.
Owners ==
    /\ DOMAIN table \cap (free \cup own) = {} /\ free \cap own = {}
    /\ buffer # NULL => buffer \in own
    /\ call = Idle => todo = <<>> /\ pml4 = "kernel"
    /\ call.name = "start" <=> root["kernel"] = NULL
    /\ call.name = "start" => /\ root["task"] = NULL /\ stack = <<>> /\ todo = <<>>
                              /\ free = Pool /\ pml4 = "kernel"
    /\ pml4 = "task" => root["task"] # NULL
    /\ root["task"] = NULL => Programs \subseteq own

TreeInv ==
    /\ Types /\ Owners
    /\ \E place : Tree(place) /\ Frames(place)

----------------------------------------------------------------------------
\* What a walk finds.
LeafEntry(space, virt) == table[Leaf(space, virt)][Index(virt, Levels)]

\* What is mapped where in a space: as laid out, or what the program asked for.
Pairs(space) == IF space = "kernel" THEN KernelPairs ELSE TaskPairs
Asked(space, virt) == space = "task" /\ virt \in UserVirts
Right(space, virt, phys) == Asked(space, virt) \/ Pair(virt, phys) \in Pairs(space)
\* What the program loses again is at the one address where it was lent.
Placed(virt, phys) ==
    /\ phys \in ToSet(Framebuffer) => virt = phys + VirtualOffset
    /\ buffer # NULL /\ phys = buffer => virt = phys
\* The program may use it only where it is the program's.
RightFor(space, virt, phys, user) ==
    /\ Right(space, virt, phys)
    /\ user => space = "task" /\ phys \in own /\ Placed(virt, phys)

\* Every page mapped, and every page about to be, is so.
MapsRight ==
    \A s \in Spaces, v \in Pages : Mapped(s, v) => Right(s, v, LeafEntry(s, v).at)
CallsRight ==
    \A k \in DOMAIN stack : RightFor(pml4, stack[k].virt, stack[k].phys, stack[k].user)
OpRight(o) ==
    /\ o.kind = "map" => RightFor(pml4, o.virt, o.phys, o.user)
    /\ o.kind = "alias" => o.virt = Context /\ ~ o.user /\ pml4 = "task"
TodoRight == \A k \in DOMAIN todo : OpRight(todo[k])
Mappings == MapsRight /\ CallsRight /\ TodoRight

\* Pages are mapped upon others only where the program asked for it.
OverlaidAsked == overlaid["kernel"] = {} /\ overlaid["task"] \subseteq UserVirts

\* What the program may use, where no page was mapped upon another, is where it
\* was lent, and is its own or about to be unmapped.
Usable ==
    \A v \in Pages \ overlaid["task"] : Mapped("task", v) /\ LeafEntry("task", v).user =>
        /\ Placed(v, LeafEntry("task", v).at)
        /\ \/ LeafEntry("task", v).at \in own
           \/ pml4 = "task" /\ \E i \in DOMAIN todo : todo[i].kind = "unmap" /\ todo[i].virt = v

\* The program may use every table on the way, down to a level.
UserTo(space, virt, level) ==
    \A l \in 1 .. level : table[TableAt(space, virt, l)][Index(virt, l)].user

\* Without an interrupt in the middle: each call is at work where it was meant to
\* be, only the current one has added a table, which has nothing in its place,
\* and what the program is to use it may use so far.
CallsMeant ==
    \A k \in DOMAIN stack :
        /\ stack[k].intent = pml4
        /\ stack[k].new # NULL => k = Len(stack) /\ At(stack[k]) \notin DOMAIN table[stack[k].at]
        /\ stack[k].user => UserTo(pml4, stack[k].virt, stack[k].level - 1)

\* What was wanted is there, for those it was wanted for, and nothing else; at the
\* address it was wanted at, if no page was mapped upon another.
WantedAt(s, v) ==
    /\ Mapped(s, v) <=> v \in DOMAIN wanted[s]
    /\ Mapped(s, v) => wanted[s][v].user = LeafEntry(s, v).user
    /\ Mapped(s, v) /\ v \notin overlaid[s] => wanted[s][v].at = LeafEntry(s, v).at
    /\ Mapped(s, v) /\ LeafEntry(s, v).user => UserMay(s, v)
MapsWanted == \A s \in Spaces, v \in Pages : WantedAt(s, v)
NotDisturbed ==
    /\ disturbed => loaded
    /\ ~ disturbed => CallsMeant /\ MapsWanted

----------------------------------------------------------------------------
(* Numbers *)

Less == {pair \in Nat \X Nat : pair[1] < pair[2]}

\* A set of natural numbers has a least element.
LEMMA LeastNatural ==
    ASSUME NEW T, T \subseteq Nat, T # {}
    PROVE  \E x \in T : \A y \in T : x <= y
<1>1. IsWellFoundedOn(Less, Nat)
  BY NatLessThanWellFounded DEF OpToRel, Less
<1>2. PICK x \in T : \A y \in T : ~ (<<y, x>> \in Less)
  BY <1>1, WFMin
<1>3. ASSUME NEW y \in T
      PROVE  x <= y
  <2>1. <<y, x>> \in Nat \X Nat /\ <<y, x>>[1] = y /\ <<y, x>>[2] = x
    OBVIOUS
  <2>2. ~ (y < x)
    BY <1>2, <2>1 DEF Less
  <2> QED
    BY <2>2
<1> QED
  BY <1>3

\* What holds at the root and goes on to the next level holds at all levels.
LEMMA Levelwise ==
    ASSUME NEW S, 1 \in S, \A l \in 1 .. Levels - 1 : l \in S => l + 1 \in S
    PROVE  \A l \in 1 .. Levels : l \in S
<1> DEFINE T == (1 .. Levels) \ S
<1> SUFFICES ASSUME T # {} PROVE FALSE
  OBVIOUS
<1>1. Levels \in Nat /\ T \subseteq Nat
  BY Sizes
<1>2. PICK m \in T : \A y \in T : m <= y
  BY <1>1, LeastNatural
<1>3. m \in 1 .. Levels /\ m # 1 /\ m \notin S
  BY <1>2
<1>4. m - 1 \in 1 .. Levels - 1 /\ m - 1 \notin T
  BY <1>1, <1>2, <1>3
<1>5. m - 1 \in S
  BY <1>1, <1>4
<1>6. (m - 1) + 1 \in S
  BY <1>4, <1>5
<1>7. QED BY <1>1, <1>3, <1>6

\* The number of a block of R * m pages and of one of its blocks of m.
LEMMA Blocks ==
    ASSUME NEW v \in Nat, NEW m \in Nat \ {0}, NEW R \in Nat \ {0}
    PROVE  /\ v \div m \in Nat /\ (v \div m) % R \in 0 .. R - 1
           /\ v \div m = (v \div (R * m)) * R + ((v \div m) % R)
           /\ v \div (R * m) \in Nat
<1> DEFINE x == v \div m
           q == x \div R
           d == x % R
<1>1. x \in Nat /\ m * x <= v /\ v < m * x + m
  OBVIOUS
<1>2. q \in Nat /\ d \in 0 .. R - 1 /\ x = q * R + d
  BY <1>1
<1> HIDE DEF x, q, d
<1>3. m * x = (R * m) * q + m * d
  BY <1>1, <1>2
<1>4. m * d >= 0 /\ m * d + m <= R * m
  <2>1. d + 1 <= R /\ d >= 0 /\ d \in Int
    BY <1>2
  <2>2. m * (d + 1) <= m * R
    BY <2>1
  <2>3. QED BY <2>1, <2>2
<1>5. (R * m) * q <= v /\ v < (R * m) * q + R * m
  BY <1>1, <1>2, <1>3, <1>4
<1>6. v \div (R * m) = q
  <2>1. R * m \in Nat \ {0}
    OBVIOUS
  <2> DEFINE n == R * m
  <2> HIDE DEF n
  <2>2. n \in Nat \ {0} /\ n * q <= v /\ v < n * q + n
    BY <1>5, <2>1 DEF n
  <2>3. v \div n = q
    BY <1>2, <2>2
  <2>4. QED BY <2>3 DEF n
<1>7. QED BY <1>1, <1>2, <1>6 DEF x, q, d

\* What paging_indexer_assign makes of an address, level by level.
LEMMA Indices ==
    ASSUME NEW v \in Nat, NEW l \in 1 .. Levels
    PROVE  /\ Index(v, l) \in 0 .. Radix - 1 /\ v \div Span[l - 1] \in Nat
           /\ v \div Span[l] = (v \div Span[l - 1]) * Radix + Index(v, l)
<1>1. /\ l - 1 \in 0 .. Levels /\ l \in 0 .. Levels
      /\ Span[l - 1] = Radix * Span[l] /\ Span[l] \in Nat \ {0} /\ Radix \in Nat \ {0}
  BY Sizes
<1> DEFINE m == Span[l]
<1>2. v \div Span[l - 1] = v \div (Radix * m)
  BY <1>1
<1>3. /\ v \div m \in Nat /\ (v \div m) % Radix \in 0 .. Radix - 1
      /\ v \div m = (v \div (Radix * m)) * Radix + ((v \div m) % Radix)
      /\ v \div (Radix * m) \in Nat
  <2> HIDE DEF m
  <2> QED BY <1>1, Blocks DEF m
<1>4. Index(v, l) = (v \div m) % Radix
  BY DEF Index
<1> HIDE DEF m
<1>5. QED BY <1>2, <1>3, <1>4 DEF m

\* Two addresses in a block, with one index there, are in one smaller block.
LEMMA SameBase ==
    ASSUME NEW R \in Nat \ {0}, NEW a \in Nat, NEW b \in Nat,
           NEW i \in 0 .. R - 1, NEW j \in 0 .. R - 1, a * R + i = b * R + j
    PROVE  a = b /\ i = j
<1>1. CASE a < b
  <2>1. (a + 1) * R <= b * R
    BY <1>1
  <2>2. QED BY <2>1
<1>2. CASE b < a
  <2>1. (b + 1) * R <= a * R
    BY <1>2
  <2>2. QED BY <2>1
<1>3. QED BY <1>1, <1>2
----------------------------------------------------------------------------
(* Walks, in any tables *)

UnderIn(tables, t, i) ==
    IF t # NULL /\ i \in DOMAIN tables[t] THEN tables[t][i].at ELSE NULL
WalkIn(r, tables, virt) ==
    LET at[l \in 1 .. Levels] ==
            IF l = 1 THEN r ELSE UnderIn(tables, at[l - 1], Index(virt, l - 1))
    IN at

\* The walk of paging_walk_page is one, before and after a step.
LEMMA WalksOfTable ==
    /\ \A s, v, l : TableAt(s, v, l) = WalkIn(root[s], table, v)[l]
    /\ \A s, v, l : TableAt(s, v, l)' = WalkIn(root'[s], table', v)[l]
  BY DEF TableAt, Walk, WalkIn, Under, UnderIn

\* A walk begins at the root and follows one entry at each level.
LEMMA WalkGoes ==
    ASSUME NEW r, NEW tables, NEW v
    PROVE  /\ WalkIn(r, tables, v)[1] = r
           /\ \A l \in 1 .. Levels - 1 :
                WalkIn(r, tables, v)[l + 1] = UnderIn(tables, WalkIn(r, tables, v)[l], Index(v, l))
<1> DEFINE Below(x, l) == UnderIn(tables, x, Index(v, l))
           Goes(f, n) == /\ f[1] = r
                         /\ \A l \in 1 .. n - 1 : f[l + 1] = Below(f[l], l)
           S == {n \in 1 .. Levels : \E f : Goes(f, n)}
           P(f) == f = [l \in 1 .. Levels |-> IF l = 1 THEN r ELSE Below(f[l - 1], l - 1)]
<1>0. Levels \in Nat \ {0, 1}
  BY Sizes
<1> HIDE DEF Below
<1>1. 1 \in S
  <2> DEFINE f == [l \in {1} |-> r]
  <2>1. Goes(f, 1)
    OBVIOUS
  <2>2. \E h : Goes(h, 1)
    <3> HIDE DEF f, Goes
    <3>1. QED BY <2>1
  <2>3. 1 \in 1 .. Levels
    BY <1>0
  <2>4. QED BY <2>2, <2>3
<1>2. ASSUME NEW n \in 1 .. Levels - 1, n \in S
      PROVE  n + 1 \in S
  <2>1. PICK f : Goes(f, n)
    BY <1>2
  <2> DEFINE g == [l \in 1 .. n + 1 |-> IF l = n + 1 THEN Below(f[n], n) ELSE f[l]]
  <2>2. g[1] = r
    BY <2>1
  <2>3. ASSUME NEW l \in 1 .. n
        PROVE  g[l + 1] = Below(g[l], l)
    <3>1. CASE l = n
      BY <3>1
    <3>2. CASE l # n
      BY <2>1, <3>2
    <3>3. QED BY <3>1, <3>2
  <2>4. Goes(g, n + 1)
    BY <2>2, <2>3
  <2>5. QED BY <1>0, <2>4
<1>3. Levels \in S
  <2> HIDE DEF S
  <2>1. QED BY <1>0, <1>1, <1>2, Levelwise
<1>4. \E f : P(f)
  <2>1. PICK g : Goes(g, Levels)
    BY <1>3
  <2> DEFINE f == [l \in 1 .. Levels |-> g[l]]
  <2>2. ASSUME NEW l \in 1 .. Levels
        PROVE  f[l] = IF l = 1 THEN r ELSE Below(f[l - 1], l - 1)
    <3>1. CASE l = 1
      BY <1>0, <2>1, <3>1
    <3>2. CASE l # 1
      <4>1. l - 1 \in 1 .. Levels - 1 /\ (l - 1) + 1 = l
        BY <1>0, <3>2
      <4>2. QED BY <1>0, <2>1, <3>2, <4>1
    <3>3. QED BY <3>1, <3>2
  <2>3. P(f)
    BY <2>2
  <2>4. QED BY <2>3
<1>5. WalkIn(r, tables, v) = CHOOSE f : P(f)
  BY DEF WalkIn, Below
<1>6. P(WalkIn(r, tables, v))
  <2>1. P(CHOOSE f : P(f))
    BY <1>4, Zenon
  <2>2. QED BY <1>5, <2>1
<1>7. QED BY <1>0, <1>6 DEF Below

\* A walk that has met an absent entry finds nothing below it.
LEMMA DeadEnd ==
    ASSUME NEW r, NEW tables, NEW v, NEW m \in 1 .. Levels, WalkIn(r, tables, v)[m] = NULL
    PROVE  \A l \in 1 .. Levels : m <= l => WalkIn(r, tables, v)[l] = NULL
<1> DEFINE W == WalkIn(r, tables, v)
           S == {l \in 1 .. Levels : m <= l => W[l] = NULL}
<1>0. Levels \in Nat \ {0, 1}
  BY Sizes
<1>1. 1 \in S
  BY <1>0
<1>2. ASSUME NEW l \in 1 .. Levels - 1, l \in S
      PROVE  l + 1 \in S
  <2>1. W[l + 1] = UnderIn(tables, W[l], Index(v, l))
    BY WalkGoes
  <2>2. CASE m <= l
    BY <1>0, <1>2, <2>1, <2>2 DEF UnderIn
  <2>3. CASE m = l + 1
    BY <1>0, <2>3
  <2>4. QED BY <1>0, <2>2, <2>3
<1>3. \A l \in 1 .. Levels : l \in S
  <2> HIDE DEF S
  <2>1. QED BY <1>1, <1>2, Levelwise
<1>4. QED BY <1>3

\* Walks agree as long as they find the same entries.
LEMMA SameWalk ==
    ASSUME NEW r, NEW A, NEW B, NEW v, NEW m \in 1 .. Levels,
           \A l \in 1 .. Levels : l < m =>
              UnderIn(A, WalkIn(r, A, v)[l], Index(v, l))
                  = UnderIn(B, WalkIn(r, A, v)[l], Index(v, l))
    PROVE  \A l \in 1 .. Levels : l <= m => WalkIn(r, A, v)[l] = WalkIn(r, B, v)[l]
<1> DEFINE S == {l \in 1 .. Levels : l <= m => WalkIn(r, A, v)[l] = WalkIn(r, B, v)[l]}
<1>0. Levels \in Nat \ {0, 1}
  BY Sizes
<1>1. 1 \in S
  BY <1>0, WalkGoes
<1>2. ASSUME NEW l \in 1 .. Levels - 1, l \in S
      PROVE  l + 1 \in S
  <2>1. /\ WalkIn(r, A, v)[l + 1] = UnderIn(A, WalkIn(r, A, v)[l], Index(v, l))
        /\ WalkIn(r, B, v)[l + 1] = UnderIn(B, WalkIn(r, B, v)[l], Index(v, l))
    BY WalkGoes
  <2>2. CASE l < m
    BY <1>0, <1>2, <2>1, <2>2
  <2>3. CASE ~ (l < m)
    BY <1>0, <2>3
  <2>4. QED BY <2>2, <2>3
<1>3. \A l \in 1 .. Levels : l \in S
  <2> HIDE DEF S
  <2>1. QED BY <1>1, <1>2, Levelwise
<1>4. QED BY <1>3
----------------------------------------------------------------------------
(* Tables, and the walks in the trees they make *)

\* Setting an entry changes that one of that table.
LEMMA SetEntry ==
    ASSUME NEW t \in DOMAIN table, NEW i, NEW e, NEW tables, tables = Set(t, i, e)
    PROVE  /\ DOMAIN tables = DOMAIN table
           /\ \A u \in DOMAIN table : u # t => tables[u] = table[u]
           /\ DOMAIN tables[t] = DOMAIN table[t] \cup {i} /\ tables[t][i] = e
           /\ \A j \in DOMAIN table[t] : j # i => tables[t][j] = table[t][j]
<1> DEFINE new == With(table[t], i, e)
<1>1. tables = [table EXCEPT ![t] = new]
  BY DEF Set
<1>2. /\ DOMAIN new = DOMAIN table[t] \cup {i} /\ new[i] = e
      /\ \A j \in DOMAIN table[t] : j # i => new[j] = table[t][j]
  BY DEF With
<1> HIDE DEF new
<1>3. tables[t] = new
  BY <1>1
<1>4. QED BY <1>1, <1>2, <1>3

\* A new table is empty and changes no other.
LEMMA NewTable ==
    ASSUME NEW n, n \notin DOMAIN table, table' = With(table, n, <<>>)
    PROVE  /\ DOMAIN table' = DOMAIN table \cup {n} /\ DOMAIN table'[n] = {}
           /\ \A u \in DOMAIN table : table'[u] = table[u]
<1>1. DOMAIN table' = DOMAIN table \cup {n} /\ table'[n] = <<>>
      /\ \A u \in DOMAIN table : u # n => table'[u] = table[u]
  BY DEF With
<1>2. DOMAIN <<>> = {}
  OBVIOUS
<1>3. QED BY <1>1, <1>2

\* A walk in a tree is at the spot of the page's address.
LEMMA Walked ==
    ASSUME NEW place, Tree(place), NEW s \in Spaces, NEW v \in Pages,
           root \in [Spaces -> Pages]
    PROVE  \A l \in 1 .. Levels : TableAt(s, v, l) # NULL =>
              /\ TableAt(s, v, l) \in DOMAIN table
              /\ place[TableAt(s, v, l)] = Spot(s, l, v \div Span[l - 1])
<1> DEFINE T(l) == TableAt(s, v, l)
           At1(l) == T(l) # NULL =>
                        T(l) \in DOMAIN table /\ place[T(l)] = Spot(s, l, v \div Span[l - 1])
           S == {l \in 1 .. Levels : At1(l)}
<1>0. /\ Levels \in Nat \ {0, 1} /\ v \in Nat
      /\ T(1) = root[s]
      /\ \A l \in 1 .. Levels - 1 : T(l + 1) = UnderIn(table, T(l), Index(v, l))
  <2>1. \A l : T(l) = WalkIn(root[s], table, v)[l]
    BY WalksOfTable
  <2> HIDE DEF T
  <2>2. Span[0] \in Nat /\ Levels \in Nat \ {0, 1}
    BY Sizes
  <2>3. v \in Nat
    BY <2>2 DEF Pages
  <2>4. T(1) = root[s]
    BY <2>1, WalkGoes
  <2>5. ASSUME NEW l \in 1 .. Levels - 1
        PROVE  T(l + 1) = UnderIn(table, T(l), Index(v, l))
    BY <2>1, WalkGoes
  <2>6. QED BY <2>2, <2>3, <2>4, <2>5
<1>1. 1 \in S
  <2>1. v \div Span[0] = 0
    <3>1. Span[0] \in Nat \ {0}
      BY Sizes
    <3>2. v < Span[0]
      BY <1>0, <3>1 DEF Pages
    <3>3. QED BY <1>0, <3>1, <3>2
  <2>2. At1(1)
    BY <1>0, <2>1 DEF Tree
  <2>3. 1 \in 1 .. Levels
    BY <1>0
  <2>4. QED BY <2>2, <2>3
<1>2. ASSUME NEW l \in 1 .. Levels - 1, l \in S
      PROVE  l + 1 \in S
  <2>1. At1(l) /\ l \in 1 .. Levels /\ l + 1 \in 1 .. Levels /\ l < Levels /\ (l + 1) - 1 = l
    BY <1>0, <1>2
  <2>2. T(l + 1) = UnderIn(table, T(l), Index(v, l))
    BY <1>0
  <2> HIDE DEF T
  <2>3. SUFFICES ASSUME T(l + 1) # NULL PROVE At1(l + 1)
    BY <2>1
  <2>4. /\ T(l) # NULL /\ Index(v, l) \in DOMAIN table[T(l)]
        /\ T(l + 1) = table[T(l)][Index(v, l)].at
    BY <2>2, <2>3 DEF UnderIn
  <2>5. T(l) \in DOMAIN table /\ place[T(l)] = Spot(s, l, v \div Span[l - 1])
    BY <2>1, <2>4
  <2>6. /\ T(l + 1) \in DOMAIN table
        /\ place[T(l + 1)] = Child(place[T(l)], Index(v, l))
    BY <2>1, <2>4, <2>5 DEF Tree, Spot
  <2>7. v \div Span[l] = (v \div Span[l - 1]) * Radix + Index(v, l)
    BY <1>0, <2>1, Indices
  <2>8. Child(place[T(l)], Index(v, l)) = Spot(s, l + 1, v \div Span[l])
    BY <2>5, <2>7 DEF Child, Spot
  <2>9. QED BY <2>1, <2>6, <2>8
<1>3. \A l \in 1 .. Levels : l \in S
  <2> HIDE DEF S
  <2>1. QED BY <1>1, <1>2, Levelwise
<1>4. QED BY <1>3

\* A step that changes no entry above the leaves leaves all walks as they are.
LEMMA WalksKept ==
    ASSUME NEW place, Tree(place), root \in [Spaces -> Pages], root' = root,
           \A t \in DOMAIN table : place[t].level < Levels =>
              \A i : UnderIn(table', t, i) = UnderIn(table, t, i)
    PROVE  \A s \in Spaces, v \in Pages, l \in 1 .. Levels : TableAt(s, v, l)' = TableAt(s, v, l)
<1> SUFFICES ASSUME NEW s \in Spaces, NEW v \in Pages
             PROVE  \A l \in 1 .. Levels : TableAt(s, v, l)' = TableAt(s, v, l)
  OBVIOUS
<1>0. Levels \in Nat \ {0, 1}
  BY Sizes
<1> DEFINE W == WalkIn(root[s], table, v)
<1>1. \A l : TableAt(s, v, l) = W[l] /\ TableAt(s, v, l)' = WalkIn(root[s], table', v)[l]
  BY WalksOfTable
<1>2. \A l \in 1 .. Levels : W[l] # NULL =>
          W[l] \in DOMAIN table /\ place[W[l]] = Spot(s, l, v \div Span[l - 1])
  BY <1>1, Walked
<1> HIDE DEF W
<1>3. ASSUME NEW l \in 1 .. Levels, l < Levels
      PROVE  UnderIn(table, W[l], Index(v, l)) = UnderIn(table', W[l], Index(v, l))
  <2>1. CASE W[l] = NULL
    BY <2>1 DEF UnderIn
  <2>2. CASE W[l] # NULL
    <3>1. W[l] \in DOMAIN table /\ place[W[l]] = Spot(s, l, v \div Span[l - 1])
      BY <1>2, <2>2
    <3>2. place[W[l]].level = l
      BY <3>1 DEF Spot
    <3>3. QED BY <1>3, <3>1, <3>2
  <2>3. QED BY <2>1, <2>2
<1>4. Levels \in 1 .. Levels /\ \A l \in 1 .. Levels : l <= Levels
  BY <1>0
<1>5. \A l \in 1 .. Levels : l <= Levels => W[l] = WalkIn(root[s], table', v)[l]
  BY <1>3, <1>4, SameWalk DEF W
<1>6. QED BY <1>1, <1>4, <1>5

\* A new root: the walks in its space end below it, the others stay.
LEMMA WalksOfRoot ==
    ASSUME NEW place, Tree(place), root \in [Spaces -> Pages],
           NEW n, n \notin DOMAIN table, table' = With(table, n, <<>>),
           NEW x \in Spaces, root[x] = NULL, root' = [root EXCEPT ![x] = n]
    PROVE  \A s \in Spaces, v \in Pages, l \in 1 .. Levels :
              TableAt(s, v, l)' = IF s = x THEN (IF l = 1 THEN n ELSE NULL) ELSE TableAt(s, v, l)
<1> SUFFICES ASSUME NEW s \in Spaces, NEW v \in Pages
             PROVE  \A l \in 1 .. Levels : TableAt(s, v, l)' =
                        IF s = x THEN (IF l = 1 THEN n ELSE NULL) ELSE TableAt(s, v, l)
  OBVIOUS
<1>0. Levels \in Nat \ {0, 1}
  BY Sizes
<1> DEFINE W == WalkIn(root[s], table, v)
           V == WalkIn(root'[s], table', v)
<1>1. \A l : TableAt(s, v, l) = W[l] /\ TableAt(s, v, l)' = V[l]
  BY WalksOfTable
<1>2. DOMAIN table'[n] = {} /\ \A u \in DOMAIN table : table'[u] = table[u]
  BY NewTable
<1>3. \A l \in 1 .. Levels : W[l] # NULL => W[l] \in DOMAIN table
  BY <1>1, Walked
<1>4. /\ V[1] = root'[s]
      /\ \A l \in 1 .. Levels - 1 : V[l + 1] = UnderIn(table', V[l], Index(v, l))
  BY WalkGoes
<1>5. CASE s = x
  <2>1. V[1] = n
    BY <1>4, <1>5
  <2>2. 1 \in 1 .. Levels - 1 /\ 2 \in 1 .. Levels /\ 1 + 1 = 2
    BY <1>0
  <2>3. V[2] = NULL
    BY <1>2, <1>4, <2>1, <2>2 DEF UnderIn
  <2>4. \A l \in 1 .. Levels : 2 <= l => V[l] = NULL
    BY <2>2, <2>3, DeadEnd
  <2> HIDE DEF V
  <2>5. QED BY <1>0, <1>1, <1>5, <2>1, <2>4
<1>6. CASE s # x
  <2>1. root'[s] = root[s]
    BY <1>6
  <2> HIDE DEF W
  <2>2. ASSUME NEW l \in 1 .. Levels, l < Levels
        PROVE  UnderIn(table, W[l], Index(v, l)) = UnderIn(table', W[l], Index(v, l))
    BY <1>2, <1>3 DEF UnderIn
  <2>3. Levels \in 1 .. Levels /\ \A l \in 1 .. Levels : l <= Levels
    BY <1>0
  <2>4. \A l \in 1 .. Levels : l <= Levels => W[l] = WalkIn(root[s], table', v)[l]
    BY <2>2, <2>3, SameWalk DEF W
  <2>5. \A l : V[l] = WalkIn(root[s], table', v)[l]
    BY <2>1
  <2> HIDE DEF V
  <2>6. QED BY <1>1, <1>6, <2>3, <2>4, <2>5
<1>7. QED BY <1>5, <1>6

\* Entering a table that no walk leads to: the walks that go through the entry
\* end there, whatever was below before, and the others stay.
LEMMA WalksLinked ==
    ASSUME NEW place, Tree(place), root \in [Spaces -> Pages], root' = root,
           NEW n, Loose(n), NULL \notin DOMAIN table,
           NEW t \in DOMAIN table, place[t].level < Levels, NEW i, NEW e, e.at = n,
           table' = Set(t, i, e)
    PROVE  \A s \in Spaces, v \in Pages, l \in 1 .. Levels :
              TableAt(s, v, l)' =
                  IF place[t].level < l /\ TableAt(s, v, place[t].level) = t
                       /\ Index(v, place[t].level) = i
                  THEN (IF l = place[t].level + 1 THEN n ELSE NULL)
                  ELSE TableAt(s, v, l)
<1> DEFINE m == place[t].level
<1> SUFFICES ASSUME NEW s \in Spaces, NEW v \in Pages
             PROVE  \A l \in 1 .. Levels : TableAt(s, v, l)' =
                        IF m < l /\ TableAt(s, v, m) = t /\ Index(v, m) = i
                        THEN (IF l = m + 1 THEN n ELSE NULL) ELSE TableAt(s, v, l)
  OBVIOUS
<1>0. Levels \in Nat \ {0, 1}
  BY Sizes
<1> DEFINE W == WalkIn(root[s], table, v)
           V == WalkIn(root[s], table', v)
<1>1. \A l : TableAt(s, v, l) = W[l] /\ TableAt(s, v, l)' = V[l]
  BY WalksOfTable
<1>2. m \in 1 .. Levels - 1 /\ m \in 1 .. Levels /\ m + 1 \in 1 .. Levels
  <2>1. place[t] \in Spots
    BY DEF Tree
  <2>2. place[t].level \in 1 .. Levels
    BY <2>1 DEF Spots
  <2>3. QED BY <1>0, <2>2
<1>3. /\ \A u \in DOMAIN table : u # t => table'[u] = table[u]
      /\ DOMAIN table'[t] = DOMAIN table[t] \cup {i} /\ table'[t][i] = e
      /\ \A j \in DOMAIN table[t] : j # i => table'[t][j] = table[t][j]
  BY SetEntry
<1>4. \A l \in 1 .. Levels : W[l] # NULL =>
          W[l] \in DOMAIN table /\ place[W[l]] = Spot(s, l, v \div Span[l - 1])
  BY <1>1, Walked
<1>5. /\ V[1] = root[s]
      /\ \A l \in 1 .. Levels - 1 : V[l + 1] = UnderIn(table', V[l], Index(v, l))
  BY WalkGoes
<1>6. \A l \in 1 .. Levels : W[l] = t => l = m
  <2> SUFFICES ASSUME NEW l \in 1 .. Levels, W[l] = t PROVE l = m
    OBVIOUS
  <2>1. place[t] = Spot(s, l, v \div Span[l - 1])
    BY <1>4
  <2>2. QED BY <2>1 DEF Spot
<1> HIDE DEF W, m
<1>7. ASSUME NEW l \in 1 .. Levels, ~ (W[l] = t /\ Index(v, l) = i)
      PROVE  UnderIn(table, W[l], Index(v, l)) = UnderIn(table', W[l], Index(v, l))
  <2>1. CASE W[l] = NULL
    BY <2>1 DEF UnderIn
  <2>2. CASE W[l] # NULL /\ W[l] # t
    BY <1>3, <1>4, <2>2 DEF UnderIn
  <2>3. CASE W[l] = t
    BY <1>3, <1>7, <2>3 DEF UnderIn
  <2>4. QED BY <2>1, <2>2, <2>3
<1>8. CASE ~ (W[m] = t /\ Index(v, m) = i)
  <2>1. ASSUME NEW l \in 1 .. Levels, l < Levels
        PROVE  UnderIn(table, W[l], Index(v, l)) = UnderIn(table', W[l], Index(v, l))
    BY <1>6, <1>7, <1>8
  <2>2. Levels \in 1 .. Levels /\ \A l \in 1 .. Levels : l <= Levels
    BY <1>0
  <2>3. \A l \in 1 .. Levels : l <= Levels => W[l] = V[l]
    BY <2>1, <2>2, SameWalk DEF W
  <2> HIDE DEF V
  <2>4. QED BY <1>1, <1>8, <2>2, <2>3
<1>9. CASE W[m] = t /\ Index(v, m) = i
  <2>1. ASSUME NEW l \in 1 .. Levels, l < m
        PROVE  UnderIn(table, W[l], Index(v, l)) = UnderIn(table', W[l], Index(v, l))
    <3>1. l # m
      BY <1>2, <2>1
    <3>2. QED BY <1>6, <1>7, <3>1
  <2>2. \A l \in 1 .. Levels : l <= m => W[l] = V[l]
    BY <1>2, <2>1, SameWalk DEF W
  <2> HIDE DEF V
  <2>3. V[m] = t
    BY <1>2, <1>9, <2>2
  <2>4. V[m + 1] = n
    <3>1. t # NULL
      OBVIOUS
    <3>2. QED BY <1>2, <1>3, <1>5, <1>9, <2>3, <3>1 DEF UnderIn
  <2>5. n # t /\ n \in DOMAIN table
    BY <1>1, <1>2, <1>9 DEF Loose
  <2>6. \A l \in 1 .. Levels : m + 2 <= l => V[l] = NULL
    <3>1. CASE m + 2 > Levels
      BY <1>0, <1>2, <3>1
    <3>2. CASE m + 2 <= Levels
      <4>1. m + 1 \in 1 .. Levels - 1 /\ (m + 1) + 1 = m + 2 /\ m + 2 \in 1 .. Levels
        BY <1>0, <1>2, <3>2
      <4>2. V[m + 2] = UnderIn(table', V[m + 1], Index(v, m + 1))
        BY <1>5, <4>1
      <4>3. DOMAIN table'[n] = {}
        BY <1>3, <2>5 DEF Loose
      <4>4. V[m + 2] = NULL
        BY <2>4, <4>2, <4>3 DEF UnderIn
      <4>5. QED BY <4>1, <4>4, DeadEnd DEF V
    <3>3. QED BY <1>0, <1>2, <3>1, <3>2
  <2>7. ASSUME NEW l \in 1 .. Levels
        PROVE  V[l] = IF m < l THEN (IF l = m + 1 THEN n ELSE NULL) ELSE W[l]
    <3>1. CASE l <= m
      BY <1>2, <2>2, <3>1
    <3>2. CASE l = m + 1
      BY <1>2, <2>4, <3>2
    <3>3. CASE m + 2 <= l
      BY <1>2, <2>6, <3>3
    <3>4. QED BY <1>2, <3>1, <3>2, <3>3
  <2>8. QED BY <1>1, <1>2, <1>9, <2>7
<1>10. QED BY <1>8, <1>9

----------------------------------------------------------------------------
(* The calls under way *)

\* The last of a list, the list with another last, without it, and with one more.
LEMMA LastOfList ==
    ASSUME NEW S, NEW s \in Seq(S), s # <<>>
    PROVE  /\ Len(s) \in Nat \ {0} /\ DOMAIN s = 1 .. Len(s)
           /\ Last(s) = s[Len(s)] /\ s[Len(s)] \in S
           /\ Front(s) \in Seq(S) /\ Len(Front(s)) = Len(s) - 1
           /\ \A k \in 1 .. Len(s) - 1 : Front(s)[k] = s[k]
<1>1. Len(s) \in Nat \ {0} /\ DOMAIN s = 1 .. Len(s)
  <2>1. Len(s) # 0
    BY EmptySeq
  <2>2. QED BY <2>1
<1>2. Last(s) = s[Len(s)] /\ s[Len(s)] \in S
  BY <1>1, ElementOfSeq DEF Last
<1>3. /\ SubSeq(s, 1, Len(s) - 1) \in Seq(S)
      /\ Len(SubSeq(s, 1, Len(s) - 1)) = Len(s) - 1
      /\ \A k \in 1 .. Len(s) - 1 : SubSeq(s, 1, Len(s) - 1)[k] = s[k]
  BY <1>1, SubSeqProperties
<1>4. QED BY <1>1, <1>2, <1>3 DEF Front

\* A list with another last element.
LEMMA OtherLast ==
    ASSUME NEW S, NEW s \in Seq(S), s # <<>>, NEW e \in S,
           NEW r, r = [s EXCEPT ![Len(s)] = e]
    PROVE  /\ r \in Seq(S) /\ Len(r) = Len(s) /\ DOMAIN r = DOMAIN s /\ r[Len(s)] = e
           /\ \A k \in DOMAIN s : k # Len(s) => r[k] = s[k]
           /\ r # <<>>
<1>1. Len(s) \in Nat \ {0} /\ DOMAIN s = 1 .. Len(s)
  BY LastOfList
<1>2. Len(s) \in 1 .. Len(s)
  BY <1>1
<1>5. /\ r \in Seq(S) /\ Len(r) = Len(s)
      /\ \A k \in 1 .. Len(s) : r[k] = IF k = Len(s) THEN e ELSE s[k]
  BY <1>2, ExceptSeq
<1>6. r # <<>>
  BY <1>1, <1>5
<1>7. DOMAIN r = 1 .. Len(s)
  BY <1>5
<1>8. QED BY <1>1, <1>2, <1>5, <1>6, <1>7

\* A list with one element more.
LEMMA OneMore ==
    ASSUME NEW S, NEW s \in Seq(S), NEW e \in S
    PROVE  /\ Append(s, e) \in Seq(S) /\ Len(Append(s, e)) = Len(s) + 1 /\ Len(s) \in Nat
           /\ DOMAIN Append(s, e) = 1 .. Len(s) + 1 /\ DOMAIN s = 1 .. Len(s)
           /\ Append(s, e)[Len(s) + 1] = e
           /\ \A k \in 1 .. Len(s) : Append(s, e)[k] = s[k]
  BY AppendProperties


\* Where each call of paging_map_page is in the tree.
LEMMA FrameSpots ==
    ASSUME NEW place, Tree(place), Frames(place), Types, NEW k \in DOMAIN stack
    PROVE  /\ stack[k] \in FrameSet
           /\ stack[k].at \in DOMAIN table
           /\ place[stack[k].at] = Spot(pml4, stack[k].level, stack[k].virt \div Span[stack[k].level - 1])
           /\ place[stack[k].at].level = stack[k].level
<1>1. stack[k] \in FrameSet
  <2>1. stack \in Seq(FrameSet)
    BY DEF Types
  <2>2. QED BY <2>1, ElementOfSeq
<1>2. /\ stack[k].virt \in Pages /\ stack[k].level \in 1 .. Levels
      /\ pml4 \in Spaces /\ root \in [Spaces -> Pages]
  BY <1>1 DEF FrameSet, Types
<1>3. TableAt(pml4, stack[k].virt, stack[k].level) = stack[k].at /\ stack[k].at # NULL
  BY DEF Frames
<1>4. /\ stack[k].at \in DOMAIN table
      /\ place[stack[k].at] = Spot(pml4, stack[k].level, stack[k].virt \div Span[stack[k].level - 1])
  BY <1>2, <1>3, Walked
<1>5. QED BY <1>1, <1>4 DEF Spot

\* What the step of the current call has to go by.
LEMMA TopFrame ==
    ASSUME NEW place, Tree(place), Frames(place), Types, stack # <<>>
    PROVE  /\ Len(stack) \in Nat \ {0} /\ DOMAIN stack = 1 .. Len(stack)
           /\ Len(stack) \in DOMAIN stack /\ Top = stack[Len(stack)] /\ Top \in FrameSet
           /\ Top.at \in DOMAIN table /\ place[Top.at].level = Top.level
           /\ place[Top.at].space = pml4
           /\ TableAt(pml4, Top.virt, Top.level) = Top.at /\ Top.at # NULL
           /\ At(Top) \in 0 .. Radix - 1
<1>1. stack \in Seq(FrameSet)
  BY DEF Types
<1>2. /\ Len(stack) \in Nat \ {0} /\ DOMAIN stack = 1 .. Len(stack)
      /\ Len(stack) \in DOMAIN stack /\ Top = stack[Len(stack)]
  BY <1>1, LastOfList DEF Top
<1>3. /\ Top \in FrameSet /\ Top.at \in DOMAIN table /\ place[Top.at].level = Top.level
      /\ place[Top.at].space = pml4
  <2>1. /\ Top \in FrameSet /\ Top.at \in DOMAIN table /\ place[Top.at].level = Top.level
        /\ place[Top.at] = Spot(pml4, Top.level, Top.virt \div Span[Top.level - 1])
    BY <1>2, FrameSpots
  <2>2. QED BY <2>1 DEF Spot
<1>4. TableAt(pml4, Top.virt, Top.level) = Top.at /\ Top.at # NULL
  BY <1>2 DEF Frames
<1>5. At(Top) \in 0 .. Radix - 1
  <2>1. Top.virt \in Nat /\ Top.level \in 1 .. Levels
    BY <1>3, Sizes DEF FrameSet, Pages
  <2>2. QED BY <2>1, Indices DEF At
<1>6. QED BY <1>2, <1>3, <1>4, <1>5

\* The walk goes on below the table of a call as its entry says.
LEMMA NextLevel ==
    ASSUME NEW s, NEW v, NEW l \in 1 .. Levels - 1
    PROVE  TableAt(s, v, l + 1) = UnderIn(table, TableAt(s, v, l), Index(v, l))
  BY WalksOfTable, WalkGoes

\* A walk begins at the root.
LEMMA AtRoot ==
    ASSUME NEW s, NEW v
    PROVE  TableAt(s, v, 1) = root[s] /\ TableAt(s, v, 1)' = root'[s]
  BY WalksOfTable, WalkGoes

\* A walk that has ended finds nothing further down.
LEMMA NothingBelow ==
    ASSUME NEW s, NEW v, NEW m \in 1 .. Levels, NEW l \in 1 .. Levels, m <= l,
           TableAt(s, v, m) = NULL
    PROVE  TableAt(s, v, l) = NULL
  BY WalksOfTable, DeadEnd

----------------------------------------------------------------------------
(* Pages and their owners *)

\* What the assumptions say of pages, and Types of the pages of tables.
LEMMA SomePages ==
    /\ Pool \subseteq Pages /\ NULL \in Pages /\ Pages \subseteq Nat /\ NULL \notin Pool
    /\ Levels \in Nat \ {0, 1} /\ Levels \in 1 .. Levels /\ 1 \in 1 .. Levels
    /\ Abar \in Pages /\ UserVirts \subseteq Pages /\ ToSet(Framebuffer) \subseteq Pages
<1>1. Span[0] \in Nat \ {0} /\ Levels \in Nat \ {0, 1}
  BY Sizes
<1>2. NULL \in Pages /\ Pages \subseteq Nat
  BY <1>1 DEF Pages, NULL
<1>3. KernelPairs \subseteq [virt : Pages, phys : Pages]
  BY Layout
<1>4. ASSUME NEW p \in Pool \cup {Abar}
      PROVE  p \in Pages
  <2>1. Pair(p + 0, p) \in KernelPairs
    BY DEF KernelPairs, Moved
  <2>2. QED BY <1>3, <2>1 DEF Pair
<1>5. ToSet(Framebuffer) \subseteq Pages
  <2>1. Framebuffer \in Seq(Pages)
    BY Lists
  <2>2. QED BY <2>1, ElementOfSeq DEF ToSet
<1>6. NULL \notin Pool /\ UserVirts \subseteq Pages
  BY NothingAtNull, Layout
<1>7. QED BY <1>1, <1>2, <1>4, <1>5, <1>6

\* The page handed out next is a free one, and not the null page.
LEMMA NextFree ==
    ASSUME Types, free # {}
    PROVE  NextPage \in free /\ NextPage \in Pool /\ NextPage \in Pages /\ NextPage # NULL
<1>1. free \subseteq Pool /\ free \subseteq Nat
  BY SomePages DEF Types
<1>2. \E x \in free : \A y \in free : x <= y
  BY <1>1, LeastNatural
<1>3. NextPage \in free
  BY <1>2 DEF NextPage, Min
<1>4. QED BY <1>1, <1>3, SomePages

\* What paging_walk_page returns is a page.
LEMMA WalkPages ==
    ASSUME Types, NEW place, Tree(place), NEW s \in Spaces, NEW v \in Pages
    PROVE  /\ paging_walk_page(s, v) \in Pages
           /\ Leaf(s, v) # NULL => Leaf(s, v) \in DOMAIN table
           /\ Mapped(s, v) => LeafEntry(s, v) \in Entries /\ paging_walk_page(s, v) = LeafEntry(s, v).at
<1>1. Leaf(s, v) # NULL => Leaf(s, v) \in DOMAIN table
  BY Walked, SomePages DEF Leaf, Types
<1>2. ASSUME Mapped(s, v)
      PROVE  LeafEntry(s, v) \in Entries /\ paging_walk_page(s, v) = LeafEntry(s, v).at
  BY <1>1, <1>2 DEF Mapped, LeafEntry, paging_walk_page, Types
<1>3. paging_walk_page(s, v) \in Pages
  <2>1. CASE Mapped(s, v)
    BY <1>2, <2>1 DEF Entries
  <2>2. CASE ~ Mapped(s, v)
    BY <2>2, SomePages DEF paging_walk_page
  <2>3. QED BY <2>1, <2>2
<1>4. QED BY <1>1, <1>2, <1>3

----------------------------------------------------------------------------
(* What is laid out *)

\* What the kernel's space, and the task's, are made of.
KernelLaid == {o \in Ops : o.kind = "map" /\ Pair(o.virt, o.phys) \in KernelPairs /\ ~ o.user}
TaskMapped ==
    {o \in Ops : /\ o.kind = "map" /\ Pair(o.virt, o.phys) \in TaskPairs
                 /\ o.user => o.phys \in Programs}
TaskAliased == {o \in Ops : o.kind = "alias" /\ o.virt = Context /\ ~ o.user}
TaskLaid == TaskMapped \cup TaskAliased

\* What one operation is.
LEMMA OneOp ==
    ASSUME NEW v \in Pages, NEW p \in Pages, NEW user \in BOOLEAN
    PROVE  /\ MapOp(v, p, user) \in Ops
           /\ MapOp(v, p, user).kind = "map" /\ MapOp(v, p, user).virt = v
           /\ MapOp(v, p, user).phys = p /\ MapOp(v, p, user).user = user
           /\ UnmapOp(v) \in Ops /\ UnmapOp(v).kind = "unmap" /\ UnmapOp(v).virt = v
           /\ AliasOp(v) \in Ops /\ AliasOp(v).kind = "alias" /\ AliasOp(v).virt = v
           /\ ~ AliasOp(v).user
<1>1. /\ MapOp(v, p, user) \in Ops
      /\ MapOp(v, p, user).kind = "map" /\ MapOp(v, p, user).virt = v
      /\ MapOp(v, p, user).phys = p /\ MapOp(v, p, user).user = user
  BY DEF MapOp, Ops
<1>2. PICK o : o = MapOp(v, NULL, FALSE)
  OBVIOUS
<1>3. /\ o \in [kind : {"map", "unmap", "alias"}, virt : Pages, phys : Pages, user : BOOLEAN]
      /\ o.virt = v /\ ~ o.user
  BY <1>2, SomePages DEF MapOp
<1>4. /\ UnmapOp(v) = [o EXCEPT !.kind = "unmap"] /\ AliasOp(v) = [o EXCEPT !.kind = "alias"]
  BY <1>2 DEF UnmapOp, AliasOp
<1>5. /\ UnmapOp(v) \in Ops /\ UnmapOp(v).kind = "unmap" /\ UnmapOp(v).virt = v
  BY <1>3, <1>4 DEF Ops
<1>6. /\ AliasOp(v) \in Ops /\ AliasOp(v).kind = "alias" /\ AliasOp(v).virt = v
      /\ ~ AliasOp(v).user
  BY <1>3, <1>4 DEF Ops
<1>7. QED BY <1>1, <1>5, <1>6

\* A pair of a layout makes an operation.
LEMMA PairMaps ==
    ASSUME NEW v, NEW p, NEW user \in BOOLEAN
    PROVE  /\ Pair(v, p) \in KernelPairs /\ ~ user => MapOp(v, p, user) \in KernelLaid
           /\ Pair(v, p) \in TaskPairs /\ (user => p \in Programs) => MapOp(v, p, user) \in TaskMapped
<1>1. KernelPairs \subseteq [virt : Pages, phys : Pages] /\ TaskPairs \subseteq [virt : Pages, phys : Pages]
  BY Layout
<1>2. Pair(v, p) \in [virt : Pages, phys : Pages] => v \in Pages /\ p \in Pages
  BY DEF Pair
<1>3. v \in Pages /\ p \in Pages =>
          /\ MapOp(v, p, user) \in Ops
          /\ MapOp(v, p, user).kind = "map" /\ MapOp(v, p, user).virt = v
          /\ MapOp(v, p, user).phys = p /\ MapOp(v, p, user).user = user
  BY OneOp
<1>4. QED BY <1>1, <1>2, <1>3 DEF KernelLaid, TaskMapped

\* What is mapped page by page, page for page or at an offset, is a list.
LEMMA PageLists ==
    ASSUME NEW pages \in Seq(Pages), NEW offset, NEW user, NEW S
    PROVE  /\ (\A p \in ToSet(pages) : MapOp(p + offset, p, user) \in S)
                  => Shifted(pages, offset, user) \in Seq(S)
           /\ (\A p \in ToSet(pages) : MapOp(p, p, user) \in S) => Identity(pages, user) \in Seq(S)
           /\ Len(Shifted(pages, offset, user)) = Len(pages)
<1>1. DOMAIN pages = 1 .. Len(pages) /\ Len(pages) \in Nat /\ \A i \in DOMAIN pages : pages[i] \in ToSet(pages)
  BY DEF ToSet
<1>2. QED BY <1>1 DEF Shifted, Identity

\* The operations of paging_reload_kernel_map.
LEMMA KernelList == KernelOps \in Seq(KernelLaid)
<1>1. Memory \in Seq(Pages) /\ KernelImage \in Seq(Pages)
  BY Lists
<1>2. ASSUME NEW p \in ToSet(Memory)
      PROVE  MapOp(p, p, FALSE) \in KernelLaid /\ MapOp(p + VirtualOffset, p, FALSE) \in KernelLaid
  <2>1. p \in Pages
    BY <1>1, ElementOfSeq DEF ToSet
  <2>2. p + 0 = p
    BY <2>1, SomePages
  <2>3. Pair(p + 0, p) \in KernelPairs /\ Pair(p + VirtualOffset, p) \in KernelPairs
    BY DEF KernelPairs, Moved
  <2>4. QED BY <2>2, <2>3, PairMaps
<1>3. Shifted(KernelImage, KernelOffset, FALSE) \in Seq(KernelLaid)
  <2>1. ASSUME NEW p \in ToSet(KernelImage)
        PROVE  MapOp(p + KernelOffset, p, FALSE) \in KernelLaid
    <3>1. Pair(p + KernelOffset, p) \in KernelPairs
      BY DEF KernelPairs, Moved
    <3>2. QED BY <3>1, PairMaps
  <2>2. QED BY <1>1, <2>1, PageLists
<1> DEFINE op(k) ==
        LET page == Memory[(k + 1) \div 2]
        IN MapOp(IF k % 2 = 1 THEN page ELSE page + VirtualOffset, page, FALSE)
<1>4. ASSUME NEW k \in 1 .. 2 * Len(Memory)
      PROVE  op(k) \in KernelLaid
  <2>1. Len(Memory) \in Nat /\ DOMAIN Memory = 1 .. Len(Memory)
    BY <1>1
  <2>2. (k + 1) \div 2 \in 1 .. Len(Memory)
    BY <2>1
  <2>3. Memory[(k + 1) \div 2] \in ToSet(Memory)
    BY <2>1, <2>2 DEF ToSet
  <2>4. QED BY <1>2, <2>3
<1>5. [k \in 1 .. 2 * Len(Memory) |-> op(k)] \in Seq(KernelLaid)
  <2>1. 2 * Len(Memory) \in Nat
    BY <1>1
  <2> HIDE DEF op
  <2>2. QED BY <1>4, <2>1
<1>6. KernelOps = [k \in 1 .. 2 * Len(Memory) |-> op(k)] \o Shifted(KernelImage, KernelOffset, FALSE)
  BY DEF KernelOps
<1> HIDE DEF op
<1>7. QED BY <1>3, <1>5, <1>6, ConcatProperties

\* The operations of task_new_page_table.
LEMMA TaskList ==
    ASSUME NEW n \in Pool
    PROVE  TaskOps(n) \in Seq(TaskLaid)
<1>1. KernelImage \in Seq(Pages) /\ Stack \in Seq(Pages) /\ Ist \in Seq(Pages) /\ Ist # <<>>
      /\ Segments \in Seq([virt : Pages, phys : Pages])
  BY Lists
<1>2. Shifted(KernelImage, KernelOffset, FALSE) \in Seq(TaskLaid)
  <2>1. ASSUME NEW p \in ToSet(KernelImage)
        PROVE  MapOp(p + KernelOffset, p, FALSE) \in TaskLaid
    <3>1. Pair(p + KernelOffset, p) \in TaskPairs
      BY DEF TaskPairs, Moved
    <3>2. QED BY <3>1, PairMaps DEF TaskLaid
  <2>2. QED BY <1>1, <2>1, PageLists
<1>3. [i \in DOMAIN Segments |-> MapOp(Segments[i].virt, Segments[i].phys, TRUE)] \in Seq(TaskLaid)
  <2> DEFINE op(i) == MapOp(Segments[i].virt, Segments[i].phys, TRUE)
  <2>1. ASSUME NEW i \in DOMAIN Segments
        PROVE  op(i) \in TaskLaid
    <3>1. Segments[i] \in ToSet(Segments)
      BY DEF ToSet
    <3>2. Pair(Segments[i].virt, Segments[i].phys) \in TaskPairs
      BY <3>1 DEF TaskPairs
    <3>3. Segments[i].phys \in Programs
      BY <3>1 DEF Programs
    <3>4. QED BY <3>2, <3>3, PairMaps DEF TaskLaid
  <2>2. DOMAIN Segments = 1 .. Len(Segments) /\ Len(Segments) \in Nat
    BY <1>1
  <2> HIDE DEF op
  <2>3. [i \in DOMAIN Segments |-> op(i)] \in Seq(TaskLaid)
    BY <2>1, <2>2
  <2>4. QED BY <2>3 DEF op
<1>4. ASSUME NEW p \in ToSet(Stack) \cup ToSet(Ist) \cup Pool \cup {Last(Ist) + 1, GsBase},
             NEW user \in BOOLEAN, user => p \in Programs
      PROVE  MapOp(p, p, user) \in TaskLaid
  <2>1. Pair(p + 0, p) \in TaskPairs
    BY DEF TaskPairs, Moved
  <2>2. Pair(p + 0, p) \in [virt : Pages, phys : Pages]
    BY <2>1, Layout
  <2>3. p \in Nat
    BY <2>2, SomePages DEF Pair
  <2>4. p + 0 = p
    BY <2>3
  <2>5. QED BY <1>4, <2>1, <2>4, PairMaps DEF TaskLaid
<1>5. Identity(Stack, TRUE) \in Seq(TaskLaid)
  <2>1. \A p \in ToSet(Stack) : MapOp(p, p, TRUE) \in TaskLaid
    BY <1>4 DEF Programs
  <2>2. QED BY <1>1, <2>1, PageLists
<1>6. Identity(<<Last(Ist) + 1>> \o Reverse(Ist), FALSE) \in Seq(TaskLaid)
  <2> DEFINE pages == <<Last(Ist) + 1>> \o Reverse(Ist)
  <2>1. Reverse(Ist) \in Seq(Pages) /\ ToSet(Reverse(Ist)) \subseteq ToSet(Ist)
    <3>1. DOMAIN Ist = 1 .. Len(Ist) /\ Len(Ist) \in Nat
      BY <1>1
    <3>2. Reverse(Ist) = [i \in 1 .. Len(Ist) |-> Ist[(Len(Ist) - i) + 1]]
      BY DEF Reverse
    <3>3. \A i \in 1 .. Len(Ist) : (Len(Ist) - i) + 1 \in DOMAIN Ist
      BY <3>1
    <3>4. \A i \in 1 .. Len(Ist) : Ist[(Len(Ist) - i) + 1] \in Pages
      BY <1>1, <3>3, ElementOfSeq
    <3>5. Reverse(Ist) \in Seq(Pages)
      BY <3>1, <3>2, <3>4
    <3>6. QED BY <3>1, <3>2, <3>3, <3>5 DEF ToSet
  <2>2. Last(Ist) + 1 \in Pages
    <3>1. Pair((Last(Ist) + 1) + 0, Last(Ist) + 1) \in TaskPairs
      BY DEF TaskPairs, Moved
    <3>2. Pair((Last(Ist) + 1) + 0, Last(Ist) + 1) \in [virt : Pages, phys : Pages]
      BY <3>1, Layout
    <3>3. QED BY <3>2 DEF Pair
  <2>3. pages \in Seq(Pages) /\ \A i \in DOMAIN pages : pages[i] \in ToSet(Ist) \cup {Last(Ist) + 1}
    <3> DEFINE rest == Reverse(Ist)
               one == <<Last(Ist) + 1>>
    <3>1. one \in Seq(Pages) /\ Len(one) = 1 /\ one[1] = Last(Ist) + 1
      BY <2>2
    <3>2. rest \in Seq(Pages) /\ \A i \in 1 .. Len(rest) : rest[i] \in ToSet(Ist)
      BY <2>1 DEF ToSet
    <3> HIDE DEF rest, one
    <3>3. /\ one \o rest \in Seq(Pages) /\ Len(one \o rest) = 1 + Len(rest) /\ Len(rest) \in Nat
          /\ \A i \in 1 .. 1 + Len(rest) : (one \o rest)[i] = IF i <= 1 THEN one[i] ELSE rest[i - 1]
      <4>1. Len(one \o rest) = Len(one) + Len(rest) /\ one \o rest \in Seq(Pages)
        BY <3>1, <3>2, ConcatProperties
      <4>2. \A i \in 1 .. Len(one) + Len(rest) :
               (one \o rest)[i] = IF i <= Len(one) THEN one[i] ELSE rest[i - Len(one)]
        BY <3>1, <3>2, ConcatProperties
      <4>3. QED BY <3>1, <3>2, <4>1, <4>2
    <3>4. DOMAIN (one \o rest) = 1 .. 1 + Len(rest)
      BY <3>3
    <3>5. ASSUME NEW i \in 1 .. 1 + Len(rest)
          PROVE  (one \o rest)[i] \in ToSet(Ist) \cup {Last(Ist) + 1}
      <4>1. CASE i = 1
        BY <3>1, <3>3, <4>1
      <4>2. CASE i # 1
        <5>1. i - 1 \in 1 .. Len(rest) /\ ~ (i <= 1)
          BY <3>3, <4>2
        <5>2. QED BY <3>2, <3>3, <5>1
      <4>3. QED BY <4>1, <4>2
    <3>6. QED BY <3>3, <3>4, <3>5 DEF one, rest
  <2> HIDE DEF pages
  <2>4. \A p \in ToSet(pages) : MapOp(p, p, FALSE) \in TaskLaid
    <3>1. \A p \in ToSet(pages) : p \in ToSet(Ist) \cup {Last(Ist) + 1}
      BY <2>3 DEF ToSet
    <3>2. QED BY <1>4, <3>1
  <2>5. Identity(pages, FALSE) \in Seq(TaskLaid)
    BY <2>3, <2>4, PageLists
  <2>6. QED BY <2>5 DEF pages
<1>7. <<AliasOp(Context), MapOp(n, n, FALSE), MapOp(GsBase, GsBase, FALSE)>> \in Seq(TaskLaid)
  <2>1. MapOp(n, n, FALSE) \in TaskLaid /\ MapOp(GsBase, GsBase, FALSE) \in TaskLaid
    BY <1>4
  <2>2. AliasOp(Context) \in TaskLaid
    <3>1. Pair(Context, NULL) \in TaskPairs
      BY DEF TaskPairs
    <3>2. Pair(Context, NULL) \in [virt : Pages, phys : Pages]
      BY <3>1, Layout
    <3>3. Context \in Pages
      BY <3>2 DEF Pair
    <3>4. QED BY <3>3, SomePages, OneOp DEF TaskAliased, TaskLaid
  <2> DEFINE x == AliasOp(Context)
             y == MapOp(n, n, FALSE)
             z == MapOp(GsBase, GsBase, FALSE)
  <2>3. x \in TaskLaid /\ y \in TaskLaid /\ z \in TaskLaid
    BY <2>1, <2>2
  <2> HIDE DEF x, y, z
  <2>4. <<x, y, z>> \in Seq(TaskLaid)
    BY <2>3
  <2>5. QED BY <2>4 DEF x, y, z
<1> DEFINE a == Shifted(KernelImage, KernelOffset, FALSE)
           b == [i \in DOMAIN Segments |-> MapOp(Segments[i].virt, Segments[i].phys, TRUE)]
           c == Identity(Stack, TRUE)
           d == Identity(<<Last(Ist) + 1>> \o Reverse(Ist), FALSE)
           e == <<AliasOp(Context), MapOp(n, n, FALSE), MapOp(GsBase, GsBase, FALSE)>>
<1>8. TaskOps(n) = a \o b \o c \o d \o e
  BY DEF TaskOps
<1>9. /\ a \in Seq(TaskLaid) /\ b \in Seq(TaskLaid) /\ c \in Seq(TaskLaid)
      /\ d \in Seq(TaskLaid) /\ e \in Seq(TaskLaid)
  BY <1>2, <1>3, <1>5, <1>6, <1>7
<1> HIDE DEF a, b, c, d, e
<1>10. QED BY <1>8, <1>9, ConcatProperties


\* The framebuffer's pages, mapped and unmapped.
Lent ==
    {o \in Ops : /\ o.kind = "map" /\ Pair(o.virt, o.phys) \in TaskPairs
                 /\ o.phys \in ToSet(Framebuffer)}
Gone == {o \in Ops : o.kind = "unmap"}

\* The operations of fb_req and of fb_kill.
LEMMA FramebufferLists ==
    /\ Shifted(Framebuffer, VirtualOffset, TRUE) \in Seq(Lent)
    /\ [i \in DOMAIN Framebuffer |-> UnmapOp(Framebuffer[i] + VirtualOffset)] \in Seq(Gone)
    /\ \A p \in ToSet(Framebuffer) :
          \E i \in DOMAIN Framebuffer : UnmapOp(Framebuffer[i] + VirtualOffset).virt = p + VirtualOffset
<1> DEFINE op(i) == UnmapOp(Framebuffer[i] + VirtualOffset)
<1>1. Framebuffer \in Seq(Pages) /\ DOMAIN Framebuffer = 1 .. Len(Framebuffer) /\ Len(Framebuffer) \in Nat
  BY Lists
<1>2. ASSUME NEW p \in ToSet(Framebuffer)
      PROVE  /\ MapOp(p + VirtualOffset, p, TRUE) \in Lent
             /\ UnmapOp(p + VirtualOffset) \in Gone /\ UnmapOp(p + VirtualOffset).virt = p + VirtualOffset
  <2>1. Pair(p + VirtualOffset, p) \in TaskPairs
    BY DEF TaskPairs, Moved
  <2>2. Pair(p + VirtualOffset, p) \in [virt : Pages, phys : Pages]
    BY <2>1, Layout
  <2>3. p + VirtualOffset \in Pages /\ p \in Pages
    BY <2>2 DEF Pair
  <2>4. PICK v : v = p + VirtualOffset
    OBVIOUS
  <2>5. v \in Pages /\ p \in Pages /\ Pair(v, p) \in TaskPairs
    BY <2>1, <2>3, <2>4
  <2>6. PICK m, u : m = MapOp(v, p, TRUE) /\ u = UnmapOp(v)
    OBVIOUS
  <2>7. /\ m \in Ops /\ m.kind = "map" /\ m.virt = v /\ m.phys = p
        /\ u \in Ops /\ u.kind = "unmap" /\ u.virt = v
    <3>1. u \in Ops /\ u.kind = "unmap" /\ u.virt = v
      BY <2>5, <2>6, OneOp
    <3>2. m \in Ops /\ m.kind = "map" /\ m.virt = v /\ m.phys = p
      BY <2>5, <2>6 DEF MapOp, Ops
    <3>3. QED BY <3>1, <3>2
  <2>8. m \in Lent
    BY <2>5, <2>7 DEF Lent
  <2>9. u \in Gone
    BY <2>5, <2>7 DEF Gone
  <2>10. QED BY <2>4, <2>6, <2>7, <2>8, <2>9
<1>3. ASSUME NEW i \in DOMAIN Framebuffer
      PROVE  op(i) \in Gone
  <2>1. Framebuffer[i] \in ToSet(Framebuffer)
    BY DEF ToSet
  <2>2. QED BY <1>2, <2>1
<1>4. \A p \in ToSet(Framebuffer) : \E i \in DOMAIN Framebuffer : op(i).virt = p + VirtualOffset
  <2> SUFFICES ASSUME NEW p \in ToSet(Framebuffer)
               PROVE  \E i \in DOMAIN Framebuffer : op(i).virt = p + VirtualOffset
    OBVIOUS
  <2>1. PICK i \in DOMAIN Framebuffer : p = Framebuffer[i]
    BY DEF ToSet
  <2>2. QED BY <1>2, <2>1
<1>5. \A p \in ToSet(Framebuffer) : MapOp(p + VirtualOffset, p, TRUE) \in Lent
  BY <1>2
<1> HIDE DEF op
<1>6. Shifted(Framebuffer, VirtualOffset, TRUE) \in Seq(Lent)
  BY <1>1, <1>5, PageLists
<1>7. [i \in DOMAIN Framebuffer |-> op(i)] \in Seq(Gone)
  BY <1>1, <1>3
<1>8. QED BY <1>4, <1>6, <1>7 DEF op

----------------------------------------------------------------------------
(* Types and owners are kept *)

\* A call of paging_map_page is one, in the space it works in.
LEMMA NewFrame ==
    ASSUME Types, NEW v \in Pages, NEW p \in Pages, NEW user \in BOOLEAN, NEW intent \in Spaces
    PROVE  /\ Frame(v, p, user, intent) \in FrameSet
           /\ Frame(v, p, user, intent).virt = v /\ Frame(v, p, user, intent).phys = p
           /\ Frame(v, p, user, intent).user = user /\ Frame(v, p, user, intent).intent = intent
           /\ Frame(v, p, user, intent).at = root[pml4]
           /\ Frame(v, p, user, intent).level = 1 /\ Frame(v, p, user, intent).new = NULL
<1>1. root[pml4] \in Pages
  BY DEF Types
<1>2. QED BY <1>1, SomePages DEF Frame, FrameSet

\* What is changed of the current call, and what is not.
LEMMA OtherFrame ==
    ASSUME NEW f \in FrameSet, NEW t \in Pages
    PROVE  /\ [f EXCEPT !.new = t] \in FrameSet /\ [f EXCEPT !.new = t].new = t
           /\ [f EXCEPT !.new = t].virt = f.virt /\ [f EXCEPT !.new = t].phys = f.phys
           /\ [f EXCEPT !.new = t].user = f.user /\ [f EXCEPT !.new = t].intent = f.intent
           /\ [f EXCEPT !.new = t].at = f.at /\ [f EXCEPT !.new = t].level = f.level
           /\ f.level < Levels =>
                 /\ Down(f, t) \in FrameSet /\ Down(f, t).new = NULL
                 /\ Down(f, t).virt = f.virt /\ Down(f, t).phys = f.phys
                 /\ Down(f, t).user = f.user /\ Down(f, t).intent = f.intent
                 /\ Down(f, t).at = t /\ Down(f, t).level = f.level + 1
<1>1. f \in [virt : Pages, phys : Pages, user : BOOLEAN, intent : Spaces,
             at : Pages, level : 1 .. Levels, new : Pages]
  BY DEF FrameSet
<1>2. /\ [f EXCEPT !.new = t] \in FrameSet /\ [f EXCEPT !.new = t].new = t
      /\ [f EXCEPT !.new = t].virt = f.virt /\ [f EXCEPT !.new = t].phys = f.phys
      /\ [f EXCEPT !.new = t].user = f.user /\ [f EXCEPT !.new = t].intent = f.intent
      /\ [f EXCEPT !.new = t].at = f.at /\ [f EXCEPT !.new = t].level = f.level
  BY <1>1 DEF FrameSet
<1>3. ASSUME f.level < Levels
      PROVE  /\ Down(f, t) \in FrameSet /\ Down(f, t).new = NULL
             /\ Down(f, t).virt = f.virt /\ Down(f, t).phys = f.phys
             /\ Down(f, t).user = f.user /\ Down(f, t).intent = f.intent
             /\ Down(f, t).at = t /\ Down(f, t).level = f.level + 1
  <2>1. PICK n : n = f.level + 1
    OBVIOUS
  <2>2. n \in 1 .. Levels
    BY <1>1, <1>3, <2>1, SomePages
  <2>3. Down(f, t) = [f EXCEPT !.at = t, !.level = n, !.new = NULL]
    BY <1>1, <2>1 DEF Down
  <2>4. /\ [f EXCEPT !.at = t, !.level = n, !.new = NULL] \in FrameSet
        /\ [f EXCEPT !.at = t, !.level = n, !.new = NULL].new = NULL
        /\ [f EXCEPT !.at = t, !.level = n, !.new = NULL].virt = f.virt
        /\ [f EXCEPT !.at = t, !.level = n, !.new = NULL].phys = f.phys
        /\ [f EXCEPT !.at = t, !.level = n, !.new = NULL].user = f.user
        /\ [f EXCEPT !.at = t, !.level = n, !.new = NULL].intent = f.intent
        /\ [f EXCEPT !.at = t, !.level = n, !.new = NULL].at = t
        /\ [f EXCEPT !.at = t, !.level = n, !.new = NULL].level = n
    BY <1>1, <2>2, SomePages DEF FrameSet
  <2>5. QED BY <2>1, <2>3, <2>4
<1>4. QED BY <1>2, <1>3

\* The first operation of a list and the rest.
LEMMA FirstOp ==
    ASSUME NEW S, NEW s \in Seq(S), s # <<>>
    PROVE  /\ Head(s) \in S /\ Head(s) = s[1] /\ Tail(s) \in Seq(S)
           /\ Len(s) \in Nat \ {0} /\ DOMAIN s = 1 .. Len(s)
           /\ Len(Tail(s)) = Len(s) - 1 /\ DOMAIN Tail(s) = 1 .. Len(s) - 1
           /\ \A i \in 1 .. Len(s) - 1 : Tail(s)[i] = s[i + 1] /\ i + 1 \in DOMAIN s
<1>1. Len(s) \in Nat \ {0} /\ DOMAIN s = 1 .. Len(s)
  BY LastOfList
<1>2. Head(s) \in S /\ Head(s) = s[1]
  <2>1. 1 \in 1 .. Len(s)
    BY <1>1
  <2>2. QED BY <1>1, <2>1, ElementOfSeq
<1>3. /\ Tail(s) \in Seq(S) /\ Len(Tail(s)) = Len(s) - 1
      /\ \A i \in 1 .. Len(s) - 1 : Tail(s)[i] = s[i + 1]
  BY HeadTailProperties
<1>4. QED BY <1>1, <1>2, <1>3

\* A table changed at one entry, for a page and by a flag, has entries still.
LEMMA EntrySet ==
    ASSUME Types, NEW t \in DOMAIN table, NEW i \in 0 .. Radix - 1, NEW e \in Entries,
           table' = Set(t, i, e)
    PROVE  /\ DOMAIN table' = DOMAIN table
           /\ \A u \in DOMAIN table' : \A j \in DOMAIN table'[u] :
                 j \in 0 .. Radix - 1 /\ table'[u][j] \in Entries
<1>1. /\ DOMAIN table' = DOMAIN table
      /\ \A u \in DOMAIN table : u # t => table'[u] = table[u]
      /\ DOMAIN table'[t] = DOMAIN table[t] \cup {i} /\ table'[t][i] = e
      /\ \A j \in DOMAIN table[t] : j # i => table'[t][j] = table[t][j]
  BY SetEntry
<1>2. \A u \in DOMAIN table : \A j \in DOMAIN table[u] :
          j \in 0 .. Radix - 1 /\ table[u][j] \in Entries
  BY DEF Types
<1>3. ASSUME NEW u \in DOMAIN table', NEW j \in DOMAIN table'[u]
      PROVE  j \in 0 .. Radix - 1 /\ table'[u][j] \in Entries
  <2>1. CASE u # t
    BY <1>1, <1>2, <1>3, <2>1
  <2>2. CASE u = t
    BY <1>1, <1>2, <1>3, <2>2
  <2>3. QED BY <2>1, <2>2
<1>4. QED BY <1>1, <1>3

\* What is wanted of a page is noted.
LEMMA Noted ==
    ASSUME Types, NEW s \in Spaces, NEW v \in Pages, NEW e,
           NEW new, new = With(wanted[s], v, e), wanted' = [wanted EXCEPT ![s] = new]
    PROVE  /\ DOMAIN wanted' = Spaces /\ \A x \in Spaces : DOMAIN wanted'[x] \subseteq Pages
           /\ \A x \in Spaces : x # s => wanted'[x] = wanted[x]
           /\ DOMAIN wanted'[s] = DOMAIN wanted[s] \cup {v} /\ wanted'[s][v] = e
           /\ \A u \in DOMAIN wanted[s] : u # v => wanted'[s][u] = wanted[s][u]
<1>1. /\ DOMAIN new = DOMAIN wanted[s] \cup {v} /\ new[v] = e
      /\ \A u \in DOMAIN wanted[s] : u # v => new[u] = wanted[s][u]
  BY DEF With
<1>2. DOMAIN wanted = Spaces /\ \A x \in Spaces : DOMAIN wanted[x] \subseteq Pages
  BY DEF Types
<1>3. wanted'[s] = new
  BY <1>2
<1>4. QED BY <1>1, <1>2, <1>3

\* Begin.
LEMMA BeginTypes ==
    ASSUME Types, Owners, NEW place, Tree(place), Frames(place), Begin
    PROVE  Types' /\ Owners'
<1>1. /\ Head(todo) \in Ops /\ Tail(todo) \in Seq(Ops)
  BY FirstOp DEF Types, Begin
<1> DEFINE op == Head(todo)
           phys == IF op.kind = "map" THEN op.phys ELSE paging_walk_page(pml4, op.virt)
<1>2. op.virt \in Pages /\ op.phys \in Pages /\ op.user \in BOOLEAN
  BY <1>1 DEF Ops
<1>3. pml4 \in Spaces
  BY DEF Types
<1>4. phys \in Pages
  BY <1>2, <1>3, WalkPages
<1>5. stack' = <<Frame(op.virt, phys, op.user, pml4)>>
  BY DEF Begin
<1> HIDE DEF op, phys
<1>6. PICK f : f = Frame(op.virt, phys, op.user, pml4)
  OBVIOUS
<1>7. f \in FrameSet
  BY <1>2, <1>3, <1>4, <1>6, NewFrame
<1>8. stack' \in Seq(FrameSet)
  BY <1>5, <1>6, <1>7
<1>9. Types'
  BY <1>1, <1>8 DEF Types, Begin, caller
<1>10. Owners'
  <2>1. call # Idle /\ call.name # "start"
    BY DEF Begin, Owners
  <2>2. QED BY <2>1 DEF Owners, Begin, caller
<1>11. QED BY <1>9, <1>10

\* Descend.
LEMMA DescendTypes ==
    ASSUME Types, Owners, NEW place, Tree(place), Frames(place), Descend
    PROVE  Types' /\ Owners'
<1>1. stack # <<>> /\ Top.level < Levels /\ At(Top) \in DOMAIN table[Top.at]
  BY DEF Descend, Above
<1>2. /\ Top \in FrameSet /\ Top.at \in DOMAIN table
      /\ At(Top) \in 0 .. Radix - 1 /\ stack \in Seq(FrameSet)
  BY <1>1, TopFrame DEF Types
<1> DEFINE entry == table[Top.at][At(Top)]
           now == [entry EXCEPT !.user = @ \/ Top.user]
<1>3. entry \in [at : Pages, user : BOOLEAN]
  BY <1>1, <1>2 DEF Types, Entries
<1>4. now \in Entries
  BY <1>3 DEF Entries
<1>5. table' = Set(Top.at, At(Top), now) /\ stack' = [stack EXCEPT ![Len(stack)] = Down(Top, entry.at)]
  BY DEF Descend, SetTop
<1> HIDE DEF entry, now
<1>6. PICK f : f = Down(Top, entry.at)
  OBVIOUS
<1>7. f \in FrameSet
  BY <1>1, <1>2, <1>3, <1>6, OtherFrame
<1>8. stack' \in Seq(FrameSet) /\ stack' # <<>>
  BY <1>1, <1>2, <1>5, <1>6, <1>7, OtherLast
<1>9. /\ DOMAIN table' = DOMAIN table
      /\ \A u \in DOMAIN table' : \A j \in DOMAIN table'[u] :
            j \in 0 .. Radix - 1 /\ table'[u][j] \in Entries
  BY <1>2, <1>4, <1>5, EntrySet
<1>10. Types'
  BY <1>8, <1>9 DEF Types, Descend, caller
<1>11. Owners'
  BY <1>1, <1>9 DEF Owners, Descend, caller
<1>12. QED BY <1>10, <1>11

\* AddTable.
LEMMA AddTableTypes ==
    ASSUME Types, Owners, NEW place, Tree(place), Frames(place), AddTable
    PROVE  Types' /\ Owners'
<1>1. stack # <<>> /\ free # {}
  BY DEF AddTable, Above
<1>2. Top \in FrameSet /\ stack \in Seq(FrameSet)
  BY <1>1, TopFrame DEF Types
<1>3. NextPage \in free /\ NextPage \in Pool /\ NextPage \in Pages
  BY <1>1, NextFree
<1>4. PICK f : f = [Top EXCEPT !.new = NextPage]
  OBVIOUS
<1>5. stack' = [stack EXCEPT ![Len(stack)] = f]
  BY <1>4 DEF AddTable, SetTop
<1>6. f \in FrameSet
  BY <1>2, <1>3, <1>4, OtherFrame
<1>7. stack' \in Seq(FrameSet) /\ stack' # <<>>
  BY <1>1, <1>2, <1>5, <1>6, OtherLast
<1>8. NextPage \notin DOMAIN table /\ NextPage \notin own
  BY <1>3 DEF Owners
<1>9. table' = With(table, NextPage, <<>>)
  BY DEF AddTable
<1>10. /\ DOMAIN table' = DOMAIN table \cup {NextPage} /\ DOMAIN table'[NextPage] = {}
       /\ \A u \in DOMAIN table : table'[u] = table[u]
  BY <1>8, <1>9, NewTable
<1>11. Types'
  BY <1>3, <1>7, <1>10 DEF Types, AddTable, caller
<1>12. Owners'
  <2>1. free' = free \ {NextPage}
    BY DEF AddTable
  <2>2. call.name # "start"
    BY <1>1 DEF Owners
  <2>3. QED BY <1>3, <1>8, <1>10, <2>1, <2>2 DEF Owners, AddTable, caller
<1>13. QED BY <1>11, <1>12

\* Install.
LEMMA InstallTypes ==
    ASSUME Types, Owners, NEW place, Tree(place), Frames(place), Install
    PROVE  Types' /\ Owners'
<1>1. stack # <<>> /\ Top.level < Levels
  BY DEF Install, Above
<1>2. /\ Top \in FrameSet /\ stack \in Seq(FrameSet) /\ Top.at \in DOMAIN table
      /\ At(Top) \in 0 .. Radix - 1
  BY <1>1, TopFrame DEF Types
<1>3. Top.new \in Pages /\ Top.user \in BOOLEAN /\ pml4 \in Spaces
  BY <1>2 DEF FrameSet, Types
<1>4. PICK f, g : f = Down(Top, Top.new) /\ g = Frame(Top.new, Top.new, FALSE, pml4)
  OBVIOUS
<1>5. stack' = Append([stack EXCEPT ![Len(stack)] = f], g)
  BY <1>4 DEF Install, SetTop
<1>6. f \in FrameSet
  BY <1>1, <1>2, <1>3, <1>4, OtherFrame
<1>7. g \in FrameSet
  <2>1. FALSE \in BOOLEAN
    OBVIOUS
  <2>2. QED BY <1>3, <1>4, <2>1, NewFrame
<1>8. PICK r : r = [stack EXCEPT ![Len(stack)] = f]
  OBVIOUS
<1>9. r \in Seq(FrameSet)
  BY <1>1, <1>2, <1>6, <1>8, OtherLast
<1>10. stack' \in Seq(FrameSet)
  BY <1>5, <1>7, <1>8, <1>9, OneMore
<1>11. PICK e : e = Entry(Top.new, Top.user)
  OBVIOUS
<1>12. e \in Entries
  BY <1>3, <1>11 DEF Entry, Entries
<1>13. table' = Set(Top.at, At(Top), e)
  BY <1>11 DEF Install
<1>14. /\ DOMAIN table' = DOMAIN table
       /\ \A u \in DOMAIN table' : \A j \in DOMAIN table'[u] :
             j \in 0 .. Radix - 1 /\ table'[u][j] \in Entries
  BY <1>2, <1>12, <1>13, EntrySet
<1>15. Types'
  BY <1>10, <1>14 DEF Types, Install, caller
<1>16. Owners'
  BY <1>1, <1>14 DEF Owners, Install, caller
<1>17. QED BY <1>15, <1>16

\* SetLeaf.
LEMMA SetLeafTypes ==
    ASSUME Types, Owners, NEW place, Tree(place), Frames(place), SetLeaf
    PROVE  Types' /\ Owners'
<1>1. stack # <<>> /\ Top.level = Levels
  BY DEF SetLeaf
<1>2. /\ Top \in FrameSet /\ stack \in Seq(FrameSet) /\ Top.at \in DOMAIN table
      /\ At(Top) \in 0 .. Radix - 1
  BY <1>1, TopFrame DEF Types
<1>3. Top.virt \in Pages /\ Top.phys \in Pages /\ Top.user \in BOOLEAN /\ Top.intent \in Spaces
  BY <1>2 DEF FrameSet
<1> DEFINE old == IF At(Top) \in DOMAIN table[Top.at] THEN table[Top.at][At(Top)].at ELSE 0
<1>4. old \in Pages
  BY <1>2, SomePages DEF Types, Entries, NULL
<1>5. table' = Set(Top.at, At(Top), Entry(BitOr(old, Top.phys), Top.user))
  BY DEF SetLeaf
<1> HIDE DEF old
<1>6. PICK e : e = Entry(BitOr(old, Top.phys), Top.user)
  OBVIOUS
<1>7. e \in Entries
  BY <1>3, <1>4, <1>6, Ors DEF Entry, Entries
<1>8. /\ DOMAIN table' = DOMAIN table
      /\ \A u \in DOMAIN table' : \A j \in DOMAIN table'[u] :
            j \in 0 .. Radix - 1 /\ table'[u][j] \in Entries
  BY <1>2, <1>5, <1>6, <1>7, EntrySet
<1>9. PICK w, new : w = Entry(Top.phys, Top.user) /\ new = With(wanted[Top.intent], Top.virt, w)
  OBVIOUS
<1>10. wanted' = [wanted EXCEPT ![Top.intent] = new]
  BY <1>9 DEF SetLeaf
<1>11. DOMAIN wanted' = Spaces /\ \A x \in Spaces : DOMAIN wanted'[x] \subseteq Pages
  BY <1>3, <1>9, <1>10, Noted
<1>12. stack' \in Seq(FrameSet)
  BY <1>1, <1>2, LastOfList DEF SetLeaf
<1>13. overlaid' = Overlay(old)
  BY DEF SetLeaf, old
<1>14. overlaid' \in [Spaces -> SUBSET Pages]
  BY <1>3, <1>13 DEF Overlay, Types
<1>15. Types'
  BY <1>8, <1>11, <1>12, <1>14 DEF Types, SetLeaf, caller
<1>16. Owners'
  BY <1>1, <1>8 DEF Owners, SetLeaf, caller
<1>17. QED BY <1>15, <1>16

\* The entry a page's leaf has is gone, and no other; so is what was wanted.
LEMMA EntryGone ==
    ASSUME Types, NEW place, Tree(place), paging_unmap_page
    PROVE  /\ Head(todo) \in Ops /\ Head(todo).kind = "unmap" /\ Tail(todo) \in Seq(Ops)
           /\ DOMAIN table' = DOMAIN table
           /\ \A u \in DOMAIN table :
                 DOMAIN table'[u] = IF u = Leaf(pml4, Head(todo).virt)
                                    THEN DOMAIN table[u] \ {Index(Head(todo).virt, Levels)}
                                    ELSE DOMAIN table[u]
           /\ \A u \in DOMAIN table : \A j \in DOMAIN table'[u] : table'[u][j] = table[u][j]
           /\ DOMAIN wanted' = Spaces
           /\ \A s \in Spaces :
                 DOMAIN wanted'[s] = IF s = pml4 THEN DOMAIN wanted[s] \ {Head(todo).virt}
                                                 ELSE DOMAIN wanted[s]
           /\ \A s \in Spaces : \A v \in DOMAIN wanted'[s] : wanted'[s][v] = wanted[s][v]
<1>1. PICK virt : virt = Head(todo).virt
  OBVIOUS
<1>2. PICK t : t = Leaf(pml4, virt)
  OBVIOUS
<1>3. PICK i : i = Index(virt, Levels)
  OBVIOUS
<1>4. /\ Head(todo) \in Ops /\ Head(todo).kind = "unmap" /\ Tail(todo) \in Seq(Ops)
  BY FirstOp DEF Types, paging_unmap_page
<1>5. virt \in Pages /\ pml4 \in Spaces
  BY <1>1, <1>4 DEF Ops, Types
<1>6. t # NULL => t \in DOMAIN table
  BY <1>2, <1>5, WalkPages
<1>7. table' = IF t = NULL THEN table
               ELSE [table EXCEPT ![t] = [j \in DOMAIN @ \ {i} |-> @[j]]]
  BY <1>1, <1>2, <1>3 DEF paging_unmap_page
<1>8. /\ DOMAIN table' = DOMAIN table
      /\ \A u \in DOMAIN table :
            DOMAIN table'[u] = IF u = t THEN DOMAIN table[u] \ {i} ELSE DOMAIN table[u]
      /\ \A u \in DOMAIN table : \A j \in DOMAIN table'[u] : table'[u][j] = table[u][j]
  <2>1. CASE t = NULL
    <3>1. t \notin DOMAIN table
      BY <2>1, SomePages DEF Types
    <3>2. QED BY <1>7, <2>1, <3>1
  <2>2. CASE t # NULL
    <3>1. PICK new : new = [j \in DOMAIN table[t] \ {i} |-> table[t][j]]
      OBVIOUS
    <3>2. DOMAIN new = DOMAIN table[t] \ {i} /\ \A j \in DOMAIN new : new[j] = table[t][j]
      BY <3>1
    <3>3. table' = [table EXCEPT ![t] = new]
      BY <1>7, <2>2, <3>1
    <3>4. DOMAIN table' = DOMAIN table /\ table'[t] = new
          /\ \A u \in DOMAIN table : u # t => table'[u] = table[u]
      BY <1>6, <2>2, <3>3
    <3>5. QED BY <3>2, <3>4
  <2>3. QED BY <2>1, <2>2
<1>9. /\ DOMAIN wanted' = Spaces
      /\ \A s \in Spaces :
            DOMAIN wanted'[s] = IF s = pml4 THEN DOMAIN wanted[s] \ {virt} ELSE DOMAIN wanted[s]
      /\ \A s \in Spaces : \A v \in DOMAIN wanted'[s] : wanted'[s][v] = wanted[s][v]
  <2>1. PICK new : new = [v \in DOMAIN wanted[pml4] \ {virt} |-> wanted[pml4][v]]
    OBVIOUS
  <2>2. DOMAIN new = DOMAIN wanted[pml4] \ {virt} /\ \A v \in DOMAIN new : new[v] = wanted[pml4][v]
    BY <2>1
  <2>3. wanted' = [wanted EXCEPT ![pml4] = new]
    BY <1>1, <2>1 DEF paging_unmap_page
  <2>4. DOMAIN wanted = Spaces
    BY DEF Types
  <2>5. DOMAIN wanted' = Spaces /\ wanted'[pml4] = new
        /\ \A s \in Spaces : s # pml4 => wanted'[s] = wanted[s]
    BY <1>5, <2>3, <2>4
  <2>6. QED BY <2>2, <2>5
<1>10. QED BY <1>1, <1>2, <1>3, <1>4, <1>8, <1>9

\* paging_unmap_page.
LEMMA UnmapTypes ==
    ASSUME Types, Owners, NEW place, Tree(place), Frames(place), paging_unmap_page
    PROVE  Types' /\ Owners'
<1>1. /\ Tail(todo) \in Seq(Ops)
      /\ DOMAIN table' = DOMAIN table
      /\ \A u \in DOMAIN table : DOMAIN table'[u] \subseteq DOMAIN table[u]
      /\ \A u \in DOMAIN table : \A j \in DOMAIN table'[u] : table'[u][j] = table[u][j]
      /\ DOMAIN wanted' = Spaces
      /\ \A s \in Spaces : DOMAIN wanted'[s] \subseteq DOMAIN wanted[s]
  BY EntryGone
<1>2. todo' = Tail(todo)
  BY DEF paging_unmap_page
<1>3. overlaid' \in [Spaces -> SUBSET Pages]
  BY DEF Types, paging_unmap_page
<1>4. Types'
  BY <1>1, <1>2, <1>3 DEF Types, paging_unmap_page, caller
<1>5. Owners'
  <2>1. call # Idle /\ call.name # "start"
    BY DEF paging_unmap_page, Owners
  <2>2. QED BY <1>1, <2>1 DEF Owners, paging_unmap_page, caller
<1>6. QED BY <1>4, <1>5

\* A new space.
LEMMA NewSpaceTypes ==
    ASSUME Types, Owners, NEW space \in Spaces, NEW ops \in Seq(Ops), NEW name \in Names,
           name \notin {"idle", "start"}, free # {}, root[space] = NULL, stack = <<>>,
           space = "task" => root["kernel"] # NULL,
           NewSpace(space, ops, name)
    PROVE  Types' /\ Owners'
<1>1. NextPage \in free /\ NextPage \in Pool /\ NextPage \in Pages /\ NextPage # NULL
  BY NextFree
<1>2. PICK n : n = NextPage
  OBVIOUS
<1>3. /\ table' = With(table, n, <<>>) /\ root' = [root EXCEPT ![space] = n]
      /\ free' = free \ {n} /\ pml4' = space /\ todo' = ops
      /\ call' = [Idle EXCEPT !.name = name]
      /\ UNCHANGED <<stack, held, buffer, loaded, wanted, overlaid, own, made, disturbed>>
  BY <1>2 DEF NewSpace
<1>4. n \notin DOMAIN table /\ n \notin own
  BY <1>1, <1>2 DEF Owners
<1>5. /\ DOMAIN table' = DOMAIN table \cup {n} /\ DOMAIN table'[n] = {}
      /\ \A u \in DOMAIN table : table'[u] = table[u]
  BY <1>3, <1>4, NewTable
<1>6. call' = [name |-> name, virt |-> NULL]
  BY <1>3 DEF Idle
<1>7. /\ call' \in [name : Names, virt : Pages] /\ call'.name = name /\ call' # Idle
  BY <1>6, SomePages DEF Idle
<1>8. root' \in [Spaces -> Pages] /\ root'[space] = n
      /\ \A s \in Spaces : s # space => root'[s] = root[s]
  BY <1>1, <1>2, <1>3 DEF Types
<1>9. Types'
  BY <1>1, <1>2, <1>3, <1>5, <1>7, <1>8 DEF Types
<1>10. Owners'
  <2>1. DOMAIN table' \cap (free' \cup own') = {} /\ free' \cap own' = {}
    BY <1>3, <1>4, <1>5 DEF Owners
  <2>2. call'.name # "start" /\ call' # Idle
    BY <1>7
  <2>3. root'["kernel"] # NULL
    BY <1>1, <1>2, <1>8 DEF Spaces
  <2>4. pml4' = "task" => root'["task"] # NULL
    BY <1>1, <1>2, <1>3, <1>8
  <2>5. root'["task"] = NULL => root["task"] = NULL
    BY <1>1, <1>2, <1>8 DEF Spaces
  <2>6. QED BY <1>3, <2>1, <2>2, <2>3, <2>4, <2>5 DEF Owners
<1>11. QED BY <1>9, <1>10

\* paging_reload_kernel_map and task_new_page_table.
LEMMA SpaceTypes ==
    ASSUME Types, Owners, paging_reload_kernel_map \/ task_new_page_table
    PROVE  Types' /\ Owners'
<1>1. CASE paging_reload_kernel_map
  <2>1. /\ root["kernel"] = NULL /\ stack = <<>> /\ free # {}
    BY <1>1, Taken DEF paging_reload_kernel_map, Owners
  <2>2. KernelOps \in Seq(Ops)
    <3>1. KernelLaid \subseteq Ops
      BY DEF KernelLaid
    <3>2. QED BY <3>1, KernelList
  <2>3. "paging_reload_kernel_map" \in Names /\ "kernel" \in Spaces
    BY DEF Names, Spaces
  <2>4. NewSpace("kernel", KernelOps, "paging_reload_kernel_map")
    BY <1>1 DEF paging_reload_kernel_map
  <2>5. QED BY <2>1, <2>2, <2>3, <2>4, NewSpaceTypes
<1>2. CASE task_new_page_table
  <2>1. /\ root["task"] = NULL /\ stack = <<>> /\ free # {} /\ root["kernel"] # NULL
    BY <1>2 DEF task_new_page_table, Ready, Owners, Idle
  <2>2. TaskOps(NextPage) \in Seq(Ops)
    <3>1. TaskLaid \subseteq Ops
      BY DEF TaskLaid, TaskMapped, TaskAliased
    <3>2. NextPage \in Pool
      BY <2>1, NextFree
    <3>3. QED BY <3>1, <3>2, TaskList
  <2>3. "task_new_page_table" \in Names /\ "task" \in Spaces
    BY DEF Names, Spaces
  <2>4. NewSpace("task", TaskOps(NextPage), "task_new_page_table")
    BY <1>2 DEF task_new_page_table
  <2>5. QED BY <2>1, <2>2, <2>3, <2>4, NewSpaceTypes
<1>3. QED BY <1>1, <1>2

\* What every system call has in common.
LEMMA SyscallTypes ==
    ASSUME Types, Owners, NEW name \in Names, name \notin {"idle", "start"}, NEW virt \in Pages,
           NEW space \in Spaces, NEW ops \in Seq(Ops), Syscall(name, virt, space, ops),
           free' \subseteq Pool, held' \in BOOLEAN, buffer' \in Pool \cup {NULL}, own' \subseteq Pages,
           DOMAIN table \cap (free' \cup own') = {}, free' \cap own' = {},
           buffer' # NULL => buffer' \in own'
    PROVE  Types' /\ Owners'
<1>1. /\ call = Idle /\ stack = <<>> /\ free # {} /\ root["task"] # NULL
      /\ made < Calls /\ made' = made + 1 /\ pml4' = space /\ todo' = ops
      /\ call' = [name |-> name, virt |-> virt]
      /\ UNCHANGED <<table, root, stack, loaded, wanted, overlaid, disturbed>>
  BY DEF Syscall, Ready
<1>2. call' \in [name : Names, virt : Pages] /\ call'.name = name /\ call' # Idle
  BY <1>1 DEF Idle
<1>3. made' \in 0 .. Calls
  BY <1>1, SomeCalls DEF Types
<1>4. Types'
  BY <1>1, <1>2, <1>3 DEF Types
<1>5. Owners'
  <2>1. call'.name # "start" /\ root'["kernel"] # NULL
    BY <1>1, <1>2 DEF Owners, Idle
  <2>2. QED BY <1>1, <1>2, <2>1 DEF Owners
<1>6. QED BY <1>4, <1>5

\* The system calls.
LEMMA CallTypes ==
    ASSUME Types, Owners, NEW place, Tree(place), Call
    PROVE  Types' /\ Owners'
<1>0. /\ {"pmap", "punmap", "fb_req", "fb_kill", "kb_man"} \subseteq Names \ {"idle", "start"}
      /\ "task" \in Spaces /\ "kernel" \in Spaces
      /\ TRUE \in BOOLEAN /\ FALSE \in BOOLEAN
  BY DEF Names, Spaces
<1>1. CASE task_new_page_table
  BY <1>1, SpaceTypes
<1>2. ASSUME NEW asked \in UserVirts \cup {NULL}, pmap(asked)
      PROVE  Types' /\ Owners'
  <2>1. free # {}
    BY <1>2 DEF pmap, Syscall, Ready
  <2>2. PICK n : n = NextPage
    OBVIOUS
  <2>3. PICK virt : virt = IF asked = NULL THEN n ELSE asked
    OBVIOUS
  <2>4. n \in free /\ n \in Pool /\ n \in Pages /\ virt \in Pages
    BY <2>1, <2>2, <2>3, NextFree, SomePages
  <2>5. PICK o : o = MapOp(virt, n, TRUE)
    OBVIOUS
  <2>6. o \in Ops
    BY <2>4, <2>5 DEF MapOp, Ops
  <2>7. <<o>> \in Seq(Ops)
    BY <2>6
  <2>8. /\ Syscall("pmap", virt, "task", <<o>>)
        /\ free' = free \ {n} /\ own' = own \cup {n} /\ UNCHANGED <<held, buffer>>
    BY <1>2, <2>2, <2>3, <2>5 DEF pmap
  <2>9. n \notin DOMAIN table
    BY <2>4 DEF Owners
  <2>10. /\ free' \subseteq Pool /\ held' \in BOOLEAN /\ buffer' \in Pool \cup {NULL} /\ own' \subseteq Pages
         /\ DOMAIN table \cap (free' \cup own') = {} /\ free' \cap own' = {}
         /\ buffer' # NULL => buffer' \in own'
    BY <2>4, <2>8, <2>9 DEF Types, Owners
  <2>11. QED BY <1>0, <2>4, <2>7, <2>8, <2>10, SyscallTypes
<1>3. ASSUME NEW virt \in UserVirts \cup (own \cap Pool), punmap(virt)
      PROVE  Types' /\ Owners'
  <2>1. virt \in Pages
    BY SomePages
  <2>2. PICK phys : phys = paging_walk_page("kernel", virt)
    OBVIOUS
  <2>3. phys \in Pages
    BY <1>0, <2>1, <2>2, WalkPages
  <2>4. PICK x, y : x = UnmapOp(virt) /\ y = MapOp(phys, phys, FALSE)
    OBVIOUS
  <2>5. x \in Ops /\ y \in Ops
    BY <1>0, <2>1, <2>3, <2>4, OneOp
  <2>6. <<x, y>> \in Seq(Ops)
    BY <2>5
  <2>7. /\ Syscall("punmap", virt, "kernel", <<x, y>>)
        /\ UNCHANGED <<free, held, buffer, own>>
    BY <1>3, <2>2, <2>4 DEF punmap
  <2>8. /\ free' \subseteq Pool /\ held' \in BOOLEAN /\ buffer' \in Pool \cup {NULL} /\ own' \subseteq Pages
        /\ DOMAIN table \cap (free' \cup own') = {} /\ free' \cap own' = {}
        /\ buffer' # NULL => buffer' \in own'
    BY <2>7 DEF Types, Owners
  <2>9. QED BY <1>0, <2>1, <2>6, <2>7, <2>8, SyscallTypes
<1>4. ToSet(Framebuffer) \subseteq Pages /\ ToSet(Framebuffer) \cap Pool = {} /\ NULL \in Pages
  BY SomePages, Taken
<1>5. CASE fb_req
  <2>1. PICK ops : ops = Shifted(Framebuffer, VirtualOffset, TRUE)
    OBVIOUS
  <2>2. ops \in Seq(Ops)
    <3>1. Lent \subseteq Ops
      BY DEF Lent
    <3>2. ops \in Seq(Lent)
      BY <2>1, FramebufferLists
    <3>3. QED BY <3>1, <3>2
  <2>3. /\ Syscall("fb_req", NULL, "task", ops) /\ held' = TRUE
        /\ own' = own \cup ToSet(Framebuffer) /\ UNCHANGED <<free, buffer>>
    BY <1>5, <2>1 DEF fb_req
  <2>4. /\ free' \subseteq Pool /\ held' \in BOOLEAN /\ buffer' \in Pool \cup {NULL} /\ own' \subseteq Pages
        /\ DOMAIN table \cap (free' \cup own') = {} /\ free' \cap own' = {}
        /\ buffer' # NULL => buffer' \in own'
    BY <1>4, <2>3 DEF Types, Owners
  <2>5. QED BY <1>0, <1>4, <2>2, <2>3, <2>4, SyscallTypes
<1>6. CASE fb_kill
  <2>1. PICK ops : ops = [i \in DOMAIN Framebuffer |-> UnmapOp(Framebuffer[i] + VirtualOffset)]
    OBVIOUS
  <2>2. ops \in Seq(Ops)
    <3>1. Gone \subseteq Ops
      BY DEF Gone
    <3>2. ops \in Seq(Gone)
      BY <2>1, FramebufferLists
    <3>3. QED BY <3>1, <3>2
  <2>3. /\ Syscall("fb_kill", NULL, "task", ops) /\ ~ held'
        /\ own' = own \ ToSet(Framebuffer) /\ UNCHANGED <<free, buffer>>
    BY <1>6, <2>1 DEF fb_kill
  <2>4. /\ free' \subseteq Pool /\ held' \in BOOLEAN /\ buffer' \in Pool \cup {NULL} /\ own' \subseteq Pages
        /\ DOMAIN table \cap (free' \cup own') = {} /\ free' \cap own' = {}
        /\ buffer' # NULL => buffer' \in own'
    <3>1. held' \in BOOLEAN
      BY <1>6 DEF fb_kill
    <3>2. QED BY <1>4, <2>3, <3>1, NothingAtNull DEF Types, Owners
  <2>5. QED BY <1>0, <1>4, <2>2, <2>3, <2>4, SyscallTypes
<1>7. CASE kb_man_take
  <2>1. free # {}
    BY <1>7 DEF kb_man_take, Syscall, Ready
  <2>2. PICK n : n = NextPage
    OBVIOUS
  <2>3. n \in free /\ n \in Pool /\ n \in Pages
    BY <2>1, <2>2, NextFree
  <2>4. PICK o : o = MapOp(n, n, TRUE)
    OBVIOUS
  <2>5. o \in Ops
    BY <2>3, <2>4 DEF MapOp, Ops
  <2>6. <<o>> \in Seq(Ops)
    BY <2>5
  <2>7. /\ Syscall("kb_man", n, "task", <<o>>) /\ buffer' = n
        /\ free' = free \ {n} /\ own' = own \cup {n} /\ UNCHANGED held
    BY <1>7, <2>2, <2>4 DEF kb_man_take
  <2>8. n \notin DOMAIN table
    BY <2>3 DEF Owners
  <2>9. /\ free' \subseteq Pool /\ held' \in BOOLEAN /\ buffer' \in Pool \cup {NULL} /\ own' \subseteq Pages
        /\ DOMAIN table \cap (free' \cup own') = {} /\ free' \cap own' = {}
        /\ buffer' # NULL => buffer' \in own'
    BY <2>3, <2>7, <2>8 DEF Types, Owners
  <2>10. QED BY <1>0, <2>3, <2>6, <2>7, <2>9, SyscallTypes
<1>8. CASE kb_man_give
  <2>1. buffer \in Pool /\ buffer \in Pages /\ buffer \in own
    BY <1>8, SomePages DEF kb_man_give, Types, Owners
  <2>2. PICK o : o = UnmapOp(buffer)
    OBVIOUS
  <2>3. o \in Ops
    BY <1>0, <2>1, <2>2, OneOp
  <2>4. <<o>> \in Seq(Ops)
    BY <2>3
  <2>5. PICK given \in {{buffer}, {}} : free' = free \cup given
    BY <1>8 DEF kb_man_give
  <2>6. /\ Syscall("kb_man", buffer, "task", <<o>>) /\ buffer' = NULL
        /\ own' = own \ {buffer} /\ UNCHANGED held
    BY <1>8, <2>2 DEF kb_man_give
  <2>7. /\ free' \subseteq Pool /\ held' \in BOOLEAN /\ buffer' \in Pool \cup {NULL} /\ own' \subseteq Pages
        /\ DOMAIN table \cap (free' \cup own') = {} /\ free' \cap own' = {}
        /\ buffer' # NULL => buffer' \in own'
    BY <2>1, <2>5, <2>6 DEF Types, Owners
  <2>8. QED BY <1>0, <2>1, <2>4, <2>6, <2>7, SyscallTypes
<1>9. QED BY <1>1, <1>2, <1>3, <1>5, <1>6, <1>7, <1>8 DEF Call

\* Return.
LEMMA ReturnTypes ==
    ASSUME Types, Owners, Return
    PROVE  Types' /\ Owners'
<1>1. call' = Idle /\ pml4' = "kernel" /\ call.name # "start" /\ stack = <<>> /\ todo = <<>>
      /\ UNCHANGED <<table, root, free, stack, todo, held, buffer, loaded, wanted, overlaid,
                     own, made, disturbed>>
  BY DEF Return
<1>2. call' \in [name : Names, virt : Pages] /\ call'.name # "start"
  BY <1>1, SomePages DEF Idle, Names
<1>3. Types'
  BY <1>1, <1>2 DEF Types, Spaces
<1>4. Owners'
  BY <1>1, <1>2 DEF Owners
<1>5. QED BY <1>3, <1>4

\* _ahci_driver_load_pci.
LEMMA DriverTypes ==
    ASSUME Types, Owners, _ahci_driver_load_pci
    PROVE  Types' /\ Owners'
<1>1. PICK n, f : n = NextPage /\ f = Frame(Abar, Abar, FALSE, "kernel")
  OBVIOUS
<1>2. /\ loaded' = TRUE /\ free # {} /\ free' = free \ {n} /\ stack' = Append(stack, f)
      /\ call.name # "start"
      /\ UNCHANGED <<table, root, pml4, todo, call, held, buffer, wanted, overlaid, own, made>>
  BY <1>1 DEF _ahci_driver_load_pci
<1>3. f \in FrameSet
  <2>1. FALSE \in BOOLEAN /\ "kernel" \in Spaces
    BY DEF Spaces
  <2>2. QED BY <1>1, <2>1, NewFrame, SomePages
<1>4. stack' \in Seq(FrameSet)
  BY <1>2, <1>3, OneMore DEF Types
<1>5. loaded' \in BOOLEAN /\ disturbed' \in BOOLEAN
  BY DEF _ahci_driver_load_pci
<1>6. Types'
  BY <1>2, <1>4, <1>5 DEF Types
<1>7. Owners'
  BY <1>2 DEF Owners
<1>8. QED BY <1>6, <1>7

----------------------------------------------------------------------------
(* The tree and the calls in it are kept *)

\* The tables above the leaves lead where they did.
LEMMA SameTree ==
    ASSUME Types, NEW place, Tree(place), root' = root, DOMAIN table' = DOMAIN table,
           \A t \in DOMAIN table : place[t].level < Levels =>
              /\ DOMAIN table'[t] = DOMAIN table[t]
              /\ \A i \in DOMAIN table[t] : table'[t][i].at = table[t][i].at,
           \A t : Loose(t) => DOMAIN table'[t] = {}
    PROVE  /\ Tree(place)'
           /\ \A s \in Spaces, v \in Pages, l \in 1 .. Levels : TableAt(s, v, l)' = TableAt(s, v, l)
           /\ \A t : Loose(t) => Loose(t)'
<1>1. Tree(place)'
  BY DEF Tree
<1>2. \A t \in DOMAIN table : place[t].level < Levels =>
          \A i : UnderIn(table', t, i) = UnderIn(table, t, i)
  BY DEF UnderIn
<1>3. \A s \in Spaces, v \in Pages, l \in 1 .. Levels : TableAt(s, v, l)' = TableAt(s, v, l)
  BY <1>2, WalksKept DEF Types
<1>4. \A t : Loose(t) => Loose(t)'
  BY <1>3 DEF Loose
<1>5. QED BY <1>1, <1>3, <1>4

\* Where walks stay, the calls stay where they were; the current one may go on, or
\* another begin, with no table to enter.
LEMMA SameFrames ==
    ASSUME Types, NEW place, Frames(place), pml4' = pml4,
           \A s \in Spaces, v \in Pages, l \in 1 .. Levels : TableAt(s, v, l)' = TableAt(s, v, l),
           \A t : Loose(t) => Loose(t)',
           stack' \in Seq(FrameSet),
           \A k \in DOMAIN stack' :
              \/ k \in DOMAIN stack /\ stack'[k] = stack[k]
              \/ /\ k = Len(stack') /\ stack'[k].new = NULL
                 /\ TableAt(pml4, stack'[k].virt, stack'[k].level) = stack'[k].at
                 /\ stack'[k].at # NULL
    PROVE  Frames(place)'
<1>1. DOMAIN stack' = 1 .. Len(stack') /\ Len(stack') \in Nat /\ DOMAIN stack = 1 .. Len(stack)
      /\ pml4 \in Spaces
  BY DEF Types
<1>2. ASSUME NEW k \in DOMAIN stack'
      PROVE  /\ stack'[k].virt \in Pages /\ stack'[k].level \in 1 .. Levels
             /\ (TableAt(pml4, stack[k].virt, stack[k].level))'
                   = TableAt(pml4, stack'[k].virt, stack'[k].level)
  <2>1. stack'[k] \in FrameSet
    BY ElementOfSeq
  <2>2. stack'[k].virt \in Pages /\ stack'[k].level \in 1 .. Levels
    BY <2>1 DEF FrameSet
  <2>3. PICK v, l : v = stack'[k].virt /\ l = stack'[k].level
    OBVIOUS
  <2>4. TableAt(pml4, v, l)' = TableAt(pml4, v, l)
    BY <1>1, <2>2, <2>3
  <2>5. (TableAt(pml4, stack[k].virt, stack[k].level))' = TableAt(pml4, v, l)'
    BY <2>3
  <2>6. QED BY <2>2, <2>3, <2>4, <2>5
<1>3. ASSUME NEW k \in DOMAIN stack'
      PROVE  /\ (TableAt(pml4, stack[k].virt, stack[k].level) = stack[k].at)'
             /\ stack'[k].at # NULL
  <2>1. CASE k \in DOMAIN stack /\ stack'[k] = stack[k]
    BY <1>2, <2>1 DEF Frames
  <2>2. CASE /\ TableAt(pml4, stack'[k].virt, stack'[k].level) = stack'[k].at
             /\ stack'[k].at # NULL
    BY <1>2, <2>2
  <2>3. QED BY <2>1, <2>2
<1>4. ASSUME NEW k \in DOMAIN stack', stack'[k].new # NULL
      PROVE  (/\ stack[k].level < Levels /\ Loose(stack[k].new)
              /\ place[stack[k].new] = Child(place[stack[k].at], At(stack[k]))
              /\ \A j \in DOMAIN stack :
                    /\ j < k => ~ Through(stack[j], stack[k])
                    /\ j # k => stack[j].new # stack[k].new)'
  <2>1. k \in DOMAIN stack /\ stack'[k] = stack[k] /\ stack[k].new # NULL
    BY <1>4
  <2>2. /\ stack[k].level < Levels /\ Loose(stack[k].new)
        /\ place[stack[k].new] = Child(place[stack[k].at], At(stack[k]))
        /\ \A j \in DOMAIN stack :
              /\ j < k => ~ Through(stack[j], stack[k])
              /\ j # k => stack[j].new # stack[k].new
    BY <2>1 DEF Frames
  <2>3. ASSUME NEW j \in DOMAIN stack', j < k
        PROVE  (~ Through(stack[j], stack[k]))'
    <3>1. j \in DOMAIN stack /\ stack'[j] = stack[j]
      BY <1>1, <2>3
    <3>2. ~ Through(stack[j], stack[k])
      BY <2>2, <2>3, <3>1
    <3>3. stack[j].virt \in Pages /\ stack[k].level \in 1 .. Levels
      BY <1>2, <2>1, <3>1
    <3>4. PICK f, g : f = stack[j] /\ g = stack[k]
      OBVIOUS
    <3>5. TableAt(pml4, f.virt, g.level)' = TableAt(pml4, f.virt, g.level)
      BY <1>1, <3>3, <3>4
    <3>6. (~ Through(f, g))'
      BY <3>2, <3>4, <3>5 DEF Through, At, Index
    <3>7. (Through(stack[j], stack[k]))' <=> Through(f, g)'
      BY <2>1, <3>1, <3>4
    <3>8. QED BY <3>6, <3>7
  <2>4. ASSUME NEW j \in DOMAIN stack', j # k
        PROVE  stack'[j].new # stack'[k].new
    BY <1>4, <2>1, <2>2, <2>4
  <2>5. PICK n : n = stack[k].new
    OBVIOUS
  <2>6. Loose(n)'
    BY <2>2, <2>5
  <2>7. (Loose(stack[k].new))'
    BY <2>1, <2>5, <2>6
  <2>8. (place[stack[k].new] = Child(place[stack[k].at], At(stack[k])))'
    BY <2>1, <2>2 DEF Child, At, Index
  <2>9. QED BY <2>1, <2>2, <2>3, <2>4, <2>7, <2>8
<1>5. QED BY <1>3, <1>4 DEF Frames

\* Begin: at the root, where every walk begins.
LEMMA BeginFrames ==
    ASSUME Types, Owners, NEW place, Tree(place), Frames(place), Begin
    PROVE  Tree(place)' /\ Frames(place)'
<1>1. Types'
  BY BeginTypes
<1>2. root' = root /\ table' = table /\ pml4' = pml4
  BY DEF Begin, caller
<1>3. \A t : Loose(t) => DOMAIN table'[t] = {}
  BY <1>2 DEF Loose
<1>4. /\ Tree(place)'
      /\ \A s \in Spaces, v \in Pages, l \in 1 .. Levels : TableAt(s, v, l)' = TableAt(s, v, l)
      /\ \A t : Loose(t) => Loose(t)'
  BY <1>2, <1>3, SameTree
<1>5. PICK f, v, p, u : f = Frame(v, p, u, pml4) /\ stack' = <<f>>
  BY DEF Begin
<1>6. f.at = root[pml4] /\ f.level = 1 /\ f.new = NULL
  BY <1>5 DEF Frame
<1>7. root[pml4] # NULL
  <2>1. call.name # "start" /\ pml4 \in Spaces
    BY DEF Begin, Owners, Types
  <2>2. QED BY <2>1 DEF Owners, Spaces
<1>8. TableAt(pml4, f.virt, f.level) = f.at
  BY <1>6, AtRoot
<1>9. stack' \in Seq(FrameSet) /\ Len(stack') = 1 /\ DOMAIN stack' = {1} /\ stack'[1] = f
  BY <1>1, <1>5 DEF Types
<1>10. Frames(place)'
  BY <1>2, <1>4, <1>6, <1>7, <1>8, <1>9, SameFrames
<1>11. QED BY <1>4, <1>10

\* Descend: the entry keeps its address.
LEMMA DescendFrames ==
    ASSUME Types, Owners, NEW place, Tree(place), Frames(place), Descend
    PROVE  /\ Tree(place)' /\ Frames(place)'
           /\ \A s \in Spaces, v \in Pages, l \in 1 .. Levels : TableAt(s, v, l)' = TableAt(s, v, l)
<1>1. Types'
  BY DescendTypes
<1>2. /\ root' = root /\ pml4' = pml4 /\ stack # <<>> /\ Top.level < Levels
      /\ At(Top) \in DOMAIN table[Top.at]
  BY DEF Descend, caller, Above
<1>3. /\ Len(stack) \in Nat \ {0} /\ DOMAIN stack = 1 .. Len(stack)
      /\ Len(stack) \in DOMAIN stack /\ Top = stack[Len(stack)] /\ Top \in FrameSet
      /\ Top.at \in DOMAIN table /\ place[Top.at].level = Top.level
      /\ TableAt(pml4, Top.virt, Top.level) = Top.at /\ Top.at # NULL
      /\ stack \in Seq(FrameSet)
  BY <1>2, TopFrame DEF Types
<1>4. PICK t, i : t = Top.at /\ i = At(Top)
  OBVIOUS
<1>5. PICK e, now : e = table[t][i] /\ now = [e EXCEPT !.user = @ \/ Top.user]
  OBVIOUS
<1>6. table' = Set(t, i, now) /\ stack' = [stack EXCEPT ![Len(stack)] = Down(Top, e.at)]
  BY <1>4, <1>5 DEF Descend, SetTop
<1>7. e \in [at : Pages, user : BOOLEAN]
  BY <1>2, <1>3, <1>4, <1>5 DEF Types, Entries
<1>8. now.at = e.at
  BY <1>5, <1>7
<1>9. /\ DOMAIN table' = DOMAIN table
      /\ \A u \in DOMAIN table : u # t => table'[u] = table[u]
      /\ DOMAIN table'[t] = DOMAIN table[t] \cup {i} /\ table'[t][i] = now
      /\ \A j \in DOMAIN table[t] : j # i => table'[t][j] = table[t][j]
  BY <1>3, <1>4, <1>6, SetEntry
<1>10. \A u \in DOMAIN table :
          /\ DOMAIN table'[u] = DOMAIN table[u]
          /\ \A j \in DOMAIN table[u] : table'[u][j].at = table[u][j].at
  BY <1>2, <1>4, <1>5, <1>8, <1>9, ZenonT(30)
<1>11. \A u : Loose(u) => DOMAIN table'[u] = {}
  BY <1>10 DEF Loose
<1>12. /\ Tree(place)'
       /\ \A s \in Spaces, v \in Pages, l \in 1 .. Levels : TableAt(s, v, l)' = TableAt(s, v, l)
       /\ \A u : Loose(u) => Loose(u)'
  BY <1>2, <1>9, <1>10, <1>11, SameTree
<1>13. PICK f : f = Down(Top, e.at)
  OBVIOUS
<1>14. f \in FrameSet /\ f.new = NULL /\ f.virt = Top.virt /\ f.at = e.at /\ f.level = Top.level + 1
  BY <1>2, <1>3, <1>7, <1>13, OtherFrame
<1>15. /\ stack' \in Seq(FrameSet) /\ Len(stack') = Len(stack) /\ DOMAIN stack' = DOMAIN stack
       /\ stack'[Len(stack)] = f /\ \A k \in DOMAIN stack : k # Len(stack) => stack'[k] = stack[k]
  BY <1>2, <1>3, <1>6, <1>13, <1>14, OtherLast
<1>16. TableAt(pml4, f.virt, f.level) = f.at
  <2>1. Top.level \in 1 .. Levels - 1
    BY <1>2, <1>3, SomePages DEF FrameSet
  <2>2. TableAt(pml4, Top.virt, Top.level + 1) = UnderIn(table, Top.at, i)
    BY <1>3, <1>4, <2>1, NextLevel DEF At
  <2>3. QED BY <1>2, <1>3, <1>4, <1>5, <1>14, <2>2 DEF UnderIn
<1>17. f.at # NULL
  <2>1. e.at \in DOMAIN table
    BY <1>2, <1>3, <1>4, <1>5 DEF Tree
  <2>2. QED BY <1>14, <2>1, SomePages DEF Types
<1>18. \A k \in DOMAIN stack' :
          \/ k \in DOMAIN stack /\ stack'[k] = stack[k]
          \/ /\ k = Len(stack') /\ stack'[k].new = NULL
             /\ TableAt(pml4, stack'[k].virt, stack'[k].level) = stack'[k].at
             /\ stack'[k].at # NULL
  BY <1>14, <1>15, <1>16, <1>17
<1>19. Frames(place)'
  BY <1>2, <1>12, <1>15, <1>18, SameFrames
<1>20. QED BY <1>12, <1>19

\* The leaves do not matter to walks.
LEMMA LeafFrames ==
    ASSUME Types, Owners, NEW place, Tree(place), Frames(place), SetLeaf \/ paging_unmap_page
    PROVE  /\ Tree(place)' /\ Frames(place)'
           /\ \A s \in Spaces, v \in Pages, l \in 1 .. Levels : TableAt(s, v, l)' = TableAt(s, v, l)
<1>1. CASE SetLeaf
  <2>1. /\ root' = root /\ pml4' = pml4 /\ stack # <<>> /\ Top.level = Levels /\ stack' = Front(stack)
    BY <1>1 DEF SetLeaf, caller
  <2>2. /\ Len(stack) \in Nat \ {0} /\ DOMAIN stack = 1 .. Len(stack)
        /\ Top \in FrameSet
        /\ Top.at \in DOMAIN table /\ place[Top.at].level = Top.level
        /\ TableAt(pml4, Top.virt, Top.level) = Top.at
        /\ stack \in Seq(FrameSet)
    BY <2>1, TopFrame DEF Types
  <2>3. PICK t, i, e : t = Top.at /\ table' = Set(t, i, e)
    BY <1>1 DEF SetLeaf
  <2>4. /\ DOMAIN table' = DOMAIN table
        /\ \A u \in DOMAIN table : u # t => table'[u] = table[u]
    BY <2>2, <2>3, SetEntry
  <2>5. \A u \in DOMAIN table : place[u].level < Levels => table'[u] = table[u]
    <3>1. ~ (Levels < Levels)
      BY SomePages
    <3>2. QED BY <2>1, <2>2, <2>3, <2>4, <3>1
  <2>6. \A u : Loose(u) => DOMAIN table'[u] = {}
    <3>1. \A u : Loose(u) => u # t
      <4>1. Top.virt \in Pages /\ Top.level \in 1 .. Levels /\ pml4 \in Spaces
        BY <2>2 DEF FrameSet, Types
      <4>2. QED BY <2>2, <2>3, <4>1 DEF Loose
    <3>2. QED BY <2>4, <3>1 DEF Loose
  <2>7. /\ Tree(place)'
        /\ \A s \in Spaces, v \in Pages, l \in 1 .. Levels : TableAt(s, v, l)' = TableAt(s, v, l)
        /\ \A u : Loose(u) => Loose(u)'
    BY <2>1, <2>4, <2>5, <2>6, SameTree
  <2>8. /\ stack' \in Seq(FrameSet) /\ DOMAIN stack' = 1 .. Len(stack) - 1
        /\ \A k \in 1 .. Len(stack) - 1 : stack'[k] = stack[k]
    <3>1. Front(stack) \in Seq(FrameSet) /\ Len(Front(stack)) = Len(stack) - 1
      BY <2>1, <2>2, LastOfList
    <3>2. DOMAIN Front(stack) = 1 .. Len(Front(stack))
      BY <3>1
    <3>3. QED BY <2>1, <2>2, <3>1, <3>2, LastOfList
  <2>9. \A k \in DOMAIN stack' : k \in DOMAIN stack /\ stack'[k] = stack[k]
    BY <2>2, <2>8
  <2>10. Frames(place)'
    BY <2>1, <2>7, <2>8, <2>9, SameFrames
  <2>11. QED BY <2>7, <2>10
<1>2. CASE paging_unmap_page
  <2>1. root' = root /\ pml4' = pml4 /\ stack' = stack /\ stack = <<>>
    BY <1>2 DEF paging_unmap_page, caller
  <2>2. PICK v : v = Head(todo).virt
    OBVIOUS
  <2>3. /\ Head(todo) \in Ops /\ DOMAIN table' = DOMAIN table
        /\ \A u \in DOMAIN table :
              DOMAIN table'[u] = IF u = Leaf(pml4, v) THEN DOMAIN table[u] \ {Index(v, Levels)}
                                                      ELSE DOMAIN table[u]
        /\ \A u \in DOMAIN table : \A j \in DOMAIN table'[u] : table'[u][j] = table[u][j]
    BY <1>2, <2>2, EntryGone
  <2>4. Leaf(pml4, v) \in DOMAIN table => place[Leaf(pml4, v)].level = Levels
    <3>1. v \in Pages /\ pml4 \in Spaces /\ Levels \in 1 .. Levels /\ root \in [Spaces -> Pages]
      BY <2>2, <2>3, SomePages DEF Ops, Types
    <3>2. TableAt(pml4, v, Levels) # NULL =>
             place[TableAt(pml4, v, Levels)] = Spot(pml4, Levels, v \div Span[Levels - 1])
      BY <3>1, Walked
    <3>3. NULL \notin DOMAIN table
      BY SomePages DEF Types
    <3>4. QED BY <3>2, <3>3 DEF Leaf, Spot
  <2>5. \A u \in DOMAIN table : place[u].level < Levels =>
            DOMAIN table'[u] = DOMAIN table[u] /\ \A j \in DOMAIN table[u] : table'[u][j].at = table[u][j].at
    <3>1. ~ (Levels < Levels)
      BY SomePages
    <3>2. QED BY <2>3, <2>4, <3>1
  <2>6. \A u : Loose(u) => DOMAIN table'[u] = {}
    <3>1. \A u \in DOMAIN table : DOMAIN table'[u] \subseteq DOMAIN table[u]
      BY <2>3
    <3>2. QED BY <3>1 DEF Loose
  <2>7. /\ Tree(place)'
        /\ \A s \in Spaces, x \in Pages, l \in 1 .. Levels : TableAt(s, x, l)' = TableAt(s, x, l)
        /\ \A u : Loose(u) => Loose(u)'
    BY <2>1, <2>3, <2>5, <2>6, SameTree
  <2>8. Frames(place)'
    BY <2>1 DEF Frames
  <2>9. QED BY <2>7, <2>8
<1>3. QED BY <1>1, <1>2

\* How to show where the calls are after a step.
LEMMA FramesNow ==
    ASSUME NEW place, NEW r, r = stack', NEW p, p = pml4',
           \A k \in DOMAIN r :
              /\ TableAt(p, r[k].virt, r[k].level)' = r[k].at /\ r[k].at # NULL
              /\ r[k].new # NULL =>
                    /\ r[k].level < Levels /\ Loose(r[k].new)'
                    /\ place[r[k].new] = Child(place[r[k].at], At(r[k]))
                    /\ \A j \in DOMAIN r :
                          /\ j < k => ~ Through(r[j], r[k])'
                          /\ j # k => r[j].new # r[k].new
    PROVE  Frames(place)'
<1> SUFFICES ASSUME NEW k \in DOMAIN stack'
             PROVE  (/\ TableAt(pml4, stack[k].virt, stack[k].level) = stack[k].at
                     /\ stack[k].at # NULL
                     /\ stack[k].new # NULL =>
                           /\ stack[k].level < Levels /\ Loose(stack[k].new)
                           /\ place[stack[k].new] = Child(place[stack[k].at], At(stack[k]))
                           /\ \A j \in DOMAIN stack :
                                 /\ j < k => ~ Through(stack[j], stack[k])
                                 /\ j # k => stack[j].new # stack[k].new)'
  BY DEF Frames
<1>1. PICK f : f = r[k]
  OBVIOUS
<1>2. /\ TableAt(p, f.virt, f.level)' = f.at /\ f.at # NULL
      /\ f.new # NULL =>
            /\ f.level < Levels /\ Loose(f.new)'
            /\ place[f.new] = Child(place[f.at], At(f))
            /\ \A j \in DOMAIN r :
                  /\ j < k => ~ Through(r[j], f)'
                  /\ j # k => r[j].new # f.new
  BY <1>1
<1>3. (TableAt(pml4, stack[k].virt, stack[k].level) = stack[k].at)' /\ stack'[k].at # NULL
  BY <1>1, <1>2
<1>4. ASSUME f.new # NULL, NEW j \in DOMAIN r
      PROVE  (/\ j < k => ~ Through(stack[j], stack[k])
              /\ j # k => stack[j].new # stack[k].new)'
  BY <1>1, <1>2, <1>4
<1>5. ASSUME f.new # NULL
      PROVE  (/\ stack[k].level < Levels /\ Loose(stack[k].new)
              /\ place[stack[k].new] = Child(place[stack[k].at], At(stack[k])))'
  BY <1>1, <1>2, <1>5 DEF Child, At, Index
<1>6. QED BY <1>1, <1>3, <1>4, <1>5

\* The spot of a table's child is one.
LEMMA ChildSpot ==
    ASSUME NEW x \in Spots, x.level < Levels, NEW i \in 0 .. Radix - 1
    PROVE  Child(x, i) \in Spots
<1>1. x.space \in Spaces /\ x.level \in 1 .. Levels /\ x.base \in Nat /\ Radix \in Nat /\ Levels \in Nat
  BY Sizes DEF Spots
<1>2. PICK l, b : l = x.level + 1 /\ b = x.base * Radix + i
  OBVIOUS
<1>3. x.base * Radix \in Nat /\ i \in Nat
  BY <1>1
<1>4. l \in 1 .. Levels /\ b \in Nat
  BY <1>1, <1>2, <1>3
<1>5. Child(x, i) = [space |-> x.space, level |-> l, base |-> b]
  BY <1>2 DEF Child, Spot
<1>6. QED BY <1>1, <1>4, <1>5 DEF Spots

\* AddTable: nothing leads to the new table, and no other call goes through the
\* entry that is to lead to it, since it is absent.
LEMMA AddTableFrames ==
    ASSUME Types, Owners, NEW place, Tree(place), Frames(place), AddTable
    PROVE  /\ \E p : Tree(p)' /\ Frames(p)'
           /\ \A s \in Spaces, v \in Pages, l \in 1 .. Levels : TableAt(s, v, l)' = TableAt(s, v, l)
<1>1. /\ root' = root /\ pml4' = pml4 /\ stack # <<>> /\ Top.level < Levels /\ Top.new = NULL
      /\ At(Top) \notin DOMAIN table[Top.at] /\ free # {}
  BY DEF AddTable, caller, Above
<1>2. /\ Len(stack) \in Nat \ {0} /\ DOMAIN stack = 1 .. Len(stack)
      /\ Len(stack) \in DOMAIN stack /\ Top = stack[Len(stack)] /\ Top \in FrameSet
      /\ Top.at \in DOMAIN table /\ place[Top.at].level = Top.level
      /\ TableAt(pml4, Top.virt, Top.level) = Top.at /\ Top.at # NULL
      /\ stack \in Seq(FrameSet) /\ At(Top) \in 0 .. Radix - 1 /\ pml4 \in Spaces
      /\ root \in [Spaces -> Pages] /\ NULL \notin DOMAIN table
  BY <1>1, TopFrame, SomePages DEF Types
<1>3. PICK n : n = NextPage
  OBVIOUS
<1>4. n \notin DOMAIN table /\ n \in Pages /\ n # NULL
  BY <1>1, <1>3, NextFree DEF Owners
<1>5. table' = With(table, n, <<>>)
  BY <1>3 DEF AddTable
<1>6. /\ DOMAIN table' = DOMAIN table \cup {n} /\ DOMAIN table'[n] = {}
      /\ \A u \in DOMAIN table : table'[u] = table[u]
  BY <1>4, <1>5, NewTable
<1>7. \A s \in Spaces, v \in Pages, l \in 1 .. Levels : TableAt(s, v, l)' = TableAt(s, v, l)
  <2>1. \A t \in DOMAIN table : \A i : UnderIn(table', t, i) = UnderIn(table, t, i)
    BY <1>6 DEF UnderIn
  <2>2. QED BY <1>1, <1>2, <2>1, WalksKept
<1>8. PICK c : c = Child(place[Top.at], At(Top))
  OBVIOUS
<1>9. c \in Spots
  <2>1. place[Top.at] \in Spots
    BY <1>2 DEF Tree
  <2>2. QED BY <1>1, <1>2, <1>8, <2>1, ChildSpot
<1>10. PICK q : q = [t \in DOMAIN table' |-> IF t = n THEN c ELSE place[t]]
  OBVIOUS
<1>11. q[n] = c /\ \A t \in DOMAIN table : q[t] = place[t]
  BY <1>4, <1>6, <1>10
<1>12. Tree(q)'
  <2>1. q \in [DOMAIN table' -> Spots]
    BY <1>6, <1>9, <1>10 DEF Tree
  <2>2. \A s \in Spaces : root'[s] # NULL => root'[s] \in DOMAIN table' /\ q[root'[s]] = Spot(s, 1, 0)
    BY <1>1, <1>6, <1>11 DEF Tree
  <2>3. ASSUME NEW t \in DOMAIN table', q[t].level < Levels, NEW i \in DOMAIN table'[t]
        PROVE  table'[t][i].at \in DOMAIN table' /\ q[table'[t][i].at] = Child(q[t], i)
    <3>1. t # n /\ t \in DOMAIN table /\ table'[t] = table[t]
      BY <1>6, <2>3
    <3>2. table[t][i].at \in DOMAIN table /\ place[table[t][i].at] = Child(place[t], i)
      BY <1>11, <2>3, <3>1 DEF Tree
    <3>3. QED BY <1>6, <1>11, <3>1, <3>2
  <2>4. QED BY <2>1, <2>2, <2>3 DEF Tree
<1>13. \A t : Loose(t) => Loose(t)'
  BY <1>6, <1>7 DEF Loose
<1>14. Loose(n)'
  <2>1. \A s \in Spaces, v \in Pages, l \in 1 .. Levels : TableAt(s, v, l) # n
    BY <1>2, <1>4, Walked
  <2>2. QED BY <1>6, <1>7, <2>1 DEF Loose
<1>15. PICK f : f = [Top EXCEPT !.new = n]
  OBVIOUS
<1>16. f \in FrameSet /\ f.new = n /\ f.virt = Top.virt /\ f.at = Top.at /\ f.level = Top.level
  BY <1>2, <1>4, <1>15, OtherFrame
<1>17. PICK r, N, p : r = stack' /\ N = Len(stack) /\ p = pml4
  OBVIOUS
<1>18. N \in Nat \ {0} /\ N \in 1 .. N /\ DOMAIN stack = 1 .. N /\ p \in Spaces /\ p = pml4 /\ p = pml4'
  BY <1>1, <1>2, <1>17
<1>19. r \in Seq(FrameSet) /\ DOMAIN r = 1 .. N /\ r[N] = f /\ \A k \in 1 .. N : k # N => r[k] = stack[k]
  <2>1. r = [stack EXCEPT ![Len(stack)] = f]
    BY <1>3, <1>15, <1>17 DEF AddTable, SetTop
  <2>2. QED BY <1>1, <1>2, <1>16, <1>17, <2>1, OtherLast
<1>20. \A k \in 1 .. N :
          /\ stack[k] \in FrameSet /\ stack[k].virt \in Pages /\ stack[k].level \in 1 .. Levels
          /\ TableAt(pml4, stack[k].virt, stack[k].level) = stack[k].at /\ stack[k].at # NULL
          /\ stack[k].at \in DOMAIN table
          /\ r[k].virt = stack[k].virt /\ r[k].level = stack[k].level /\ r[k].at = stack[k].at
  <2> SUFFICES ASSUME NEW k \in 1 .. N
               PROVE  /\ stack[k] \in FrameSet /\ stack[k].virt \in Pages /\ stack[k].level \in 1 .. Levels
                      /\ TableAt(pml4, stack[k].virt, stack[k].level) = stack[k].at /\ stack[k].at # NULL
                      /\ stack[k].at \in DOMAIN table
                      /\ r[k].virt = stack[k].virt /\ r[k].level = stack[k].level /\ r[k].at = stack[k].at
    OBVIOUS
  <2>1. stack[k] \in FrameSet /\ stack[k].at \in DOMAIN table
    BY <1>2, <1>17, FrameSpots
  <2>2. TableAt(pml4, stack[k].virt, stack[k].level) = stack[k].at /\ stack[k].at # NULL
    BY <1>2, <1>17 DEF Frames
  <2>3. r[k].virt = stack[k].virt /\ r[k].level = stack[k].level /\ r[k].at = stack[k].at
    BY <1>2, <1>16, <1>17, <1>19
  <2>4. QED BY <2>1, <2>2, <2>3 DEF FrameSet
<1>21. \A k \in 1 .. N : TableAt(p, r[k].virt, r[k].level)' = r[k].at /\ r[k].at # NULL
  <2> SUFFICES ASSUME NEW k \in 1 .. N
               PROVE  TableAt(p, r[k].virt, r[k].level)' = r[k].at /\ r[k].at # NULL
    OBVIOUS
  <2>1. PICK f1 : f1 = r[k]
    OBVIOUS
  <2>2. f1.virt \in Pages /\ f1.level \in 1 .. Levels /\ TableAt(p, f1.virt, f1.level) = f1.at /\ f1.at # NULL
    BY <1>20, <1>18, <2>1
  <2>3. QED BY <1>7, <1>18, <2>1, <2>2
<1>22. ASSUME NEW k \in 1 .. N, r[k].new # NULL, k # N
       PROVE  /\ r[k].level < Levels /\ Loose(r[k].new)'
              /\ q[r[k].new] = Child(q[r[k].at], At(r[k]))
              /\ \A j \in DOMAIN r :
                    /\ j < k => ~ Through(r[j], r[k])'
                    /\ j # k => r[j].new # r[k].new
  <2>1. r[k] = stack[k] /\ stack[k].new # NULL /\ k \in DOMAIN stack
    BY <1>2, <1>17, <1>19, <1>22
  <2>2. /\ stack[k].level < Levels /\ Loose(stack[k].new)
        /\ place[stack[k].new] = Child(place[stack[k].at], At(stack[k]))
        /\ \A j \in DOMAIN stack :
              /\ j < k => ~ Through(stack[j], stack[k])
              /\ j # k => stack[j].new # stack[k].new
    BY <2>1 DEF Frames
  <2>3. Loose(r[k].new)
    BY <2>1, <2>2
  <2>4. Loose(r[k].new)'
    BY <1>13, <2>3
  <2>5. r[k].new \in DOMAIN table
    BY <2>3 DEF Loose
  <2>6. q[r[k].new] = Child(q[r[k].at], At(r[k]))
    BY <1>11, <1>20, <2>1, <2>2, <2>5
  <2>7. ASSUME NEW j \in DOMAIN r, j < k
        PROVE  ~ Through(r[j], r[k])'
    <3>1. j \in DOMAIN stack /\ r[j] = stack[j]
      BY <1>19, <1>18, <2>7
    <3>2. ~ Through(r[j], r[k])
      BY <2>1, <2>2, <2>7, <3>1
    <3>3. TableAt(p, r[j].virt, r[k].level)' = TableAt(p, r[j].virt, r[k].level)
      BY <1>7, <1>19, <1>20, <1>18
    <3>4. QED BY <1>18, <3>2, <3>3 DEF Through, At, Index
  <2>8. ASSUME NEW j \in DOMAIN r, j # k
        PROVE  r[j].new # r[k].new
    <3>1. CASE j = N
      BY <1>4, <1>16, <1>19, <2>5, <3>1
    <3>2. CASE j # N
      BY <1>2, <1>17, <1>19, <2>1, <2>2, <2>8, <3>2
    <3>3. QED BY <3>1, <3>2
  <2>9. QED BY <2>1, <2>2, <2>4, <2>6, <2>7, <2>8
<1>23. /\ r[N].level < Levels /\ Loose(r[N].new)'
       /\ q[r[N].new] = Child(q[r[N].at], At(r[N]))
       /\ \A j \in DOMAIN r :
             /\ j < N => ~ Through(r[j], r[N])'
             /\ j # N => r[j].new # r[N].new
  <2>1. r[N].new = n /\ r[N].level = Top.level /\ r[N].virt = Top.virt /\ r[N].at = Top.at
    BY <1>16, <1>19
  <2>2. At(r[N]) = At(Top)
    BY <2>1 DEF At
  <2>3. q[r[N].new] = Child(q[r[N].at], At(r[N]))
    BY <1>2, <1>8, <1>11, <2>1, <2>2
  <2>4. ASSUME NEW j \in DOMAIN r, j < N
        PROVE  ~ Through(r[j], r[N])'
    <3>1. j \in 1 .. N /\ r[j] = stack[j]
      BY <1>19, <1>18, <2>4
    <3>2. TableAt(p, r[j].virt, r[N].level)' = TableAt(p, r[j].virt, r[N].level)
      BY <1>7, <1>20, <1>18, <3>1
    <3>3. SUFFICES ASSUME Through(r[j], r[N]) PROVE FALSE
      BY <1>18, <3>2 DEF Through, At, Index
    <3>4. PICK v, l, m : v = r[j].virt /\ l = r[j].level /\ m = Top.level
      OBVIOUS
    <3>5. v \in Pages /\ l \in 1 .. Levels /\ m \in 1 .. Levels - 1 /\ m < l
      BY <1>1, <1>2, <1>20, <2>1, <3>1, <3>3, <3>4, SomePages DEF FrameSet, Through
    <3>6. TableAt(pml4, v, m) = Top.at /\ Index(v, m) = At(Top)
      BY <2>1, <2>2, <3>3, <3>4 DEF Through
    <3>7. TableAt(pml4, v, m + 1) = NULL
      BY <1>1, <3>5, <3>6, NextLevel DEF UnderIn
    <3>8. m + 1 \in 1 .. Levels /\ m + 1 <= l
      BY <3>5, SomePages
    <3>9. TableAt(pml4, v, l) = NULL
      BY <3>5, <3>7, <3>8, NothingBelow
    <3>10. QED BY <1>20, <3>1, <3>4, <3>9
  <2>5. ASSUME NEW j \in DOMAIN r, j # N
        PROVE  r[j].new # r[N].new
    <3>1. r[j] = stack[j] /\ j \in DOMAIN stack
      BY <1>2, <1>17, <1>19, <2>5
    <3>2. stack[j].new # NULL => stack[j].new \in DOMAIN table
      BY <3>1 DEF Frames, Loose
    <3>3. QED BY <1>4, <2>1, <3>1, <3>2
  <2>6. QED BY <1>1, <1>14, <2>1, <2>3, <2>4, <2>5
<1>24. Frames(q)'
  <2>1. \A k \in DOMAIN r :
           /\ TableAt(p, r[k].virt, r[k].level)' = r[k].at /\ r[k].at # NULL
           /\ r[k].new # NULL =>
                 /\ r[k].level < Levels /\ Loose(r[k].new)'
                 /\ q[r[k].new] = Child(q[r[k].at], At(r[k]))
                 /\ \A j \in DOMAIN r :
                       /\ j < k => ~ Through(r[j], r[k])'
                       /\ j # k => r[j].new # r[k].new
    BY <1>19, <1>21, <1>22, <1>23
  <2>2. QED BY <1>17, <1>18, <2>1, FramesNow
<1>25. QED BY <1>7, <1>12, <1>24

\* Install: the walk of the current call goes on to the new table; no other call
\* went through the entry; and the new call begins at the root.
LEMMA InstallFrames ==
    ASSUME Types, Owners, NEW place, Tree(place), Frames(place), Install
    PROVE  Tree(place)' /\ Frames(place)'
<1>1. /\ root' = root /\ pml4' = pml4 /\ stack # <<>> /\ Top.level < Levels /\ Top.new # NULL
  BY DEF Install, caller, Above
<1>2. /\ Len(stack) \in Nat \ {0} /\ DOMAIN stack = 1 .. Len(stack)
      /\ Len(stack) \in DOMAIN stack /\ Top = stack[Len(stack)] /\ Top \in FrameSet
      /\ Top.at \in DOMAIN table /\ place[Top.at].level = Top.level
      /\ TableAt(pml4, Top.virt, Top.level) = Top.at /\ Top.at # NULL
      /\ stack \in Seq(FrameSet) /\ At(Top) \in 0 .. Radix - 1 /\ pml4 \in Spaces
      /\ root \in [Spaces -> Pages] /\ NULL \notin DOMAIN table
  BY <1>1, TopFrame, SomePages DEF Types
<1>3. PICK N, p, t, i, m, n :
          N = Len(stack) /\ p = pml4 /\ t = Top.at /\ i = At(Top) /\ m = Top.level /\ n = Top.new
  OBVIOUS
<1>4. /\ N \in Nat \ {0} /\ N \in 1 .. N /\ DOMAIN stack = 1 .. N /\ p \in Spaces /\ p = pml4 /\ p = pml4'
      /\ m \in 1 .. Levels - 1 /\ m \in 1 .. Levels /\ place[t].level = m /\ t \in DOMAIN table
      /\ stack[N].at = t /\ At(stack[N]) = i /\ stack[N].level = m /\ stack[N].new = n
  BY <1>1, <1>2, <1>3, SomePages DEF FrameSet
<1>5. /\ Loose(n) /\ place[n] = Child(place[t], i)
      /\ \A j \in DOMAIN stack :
            /\ j < N => ~ Through(stack[j], stack[N])
            /\ j # N => stack[j].new # n
  BY <1>1, <1>2, <1>3, <1>4 DEF Frames
<1>6. PICK e : e = Entry(n, Top.user)
  OBVIOUS
<1>7. e.at = n /\ table' = Set(t, i, e)
  BY <1>3, <1>6 DEF Entry, Install
<1>8. \A s \in Spaces, v \in Pages, l \in 1 .. Levels :
          TableAt(s, v, l)' =
              IF m < l /\ TableAt(s, v, m) = t /\ Index(v, m) = i
              THEN (IF l = m + 1 THEN n ELSE NULL)
              ELSE TableAt(s, v, l)
  <2>1. place[t].level < Levels
    BY <1>1, <1>3, <1>4
  <2>2. QED BY <1>1, <1>2, <1>4, <1>5, <1>7, <2>1, WalksLinked
<1>9. /\ DOMAIN table' = DOMAIN table
      /\ \A u \in DOMAIN table : u # t => table'[u] = table[u]
      /\ DOMAIN table'[t] = DOMAIN table[t] \cup {i} /\ table'[t][i] = e
      /\ \A j \in DOMAIN table[t] : j # i => table'[t][j] = table[t][j]
  BY <1>4, <1>7, SetEntry
<1>10. n \in DOMAIN table /\ n # NULL /\ \A s \in Spaces, v \in Pages, l \in 1 .. Levels : TableAt(s, v, l) # n
  BY <1>2, <1>5 DEF Loose
<1>11. Tree(place)'
  <2>1. place \in [DOMAIN table' -> Spots]
    BY <1>9 DEF Tree
  <2>2. \A s \in Spaces : root'[s] # NULL => root'[s] \in DOMAIN table' /\ place[root'[s]] = Spot(s, 1, 0)
    BY <1>1, <1>9 DEF Tree
  <2>3. ASSUME NEW u \in DOMAIN table', place[u].level < Levels, NEW j \in DOMAIN table'[u]
        PROVE  table'[u][j].at \in DOMAIN table' /\ place[table'[u][j].at] = Child(place[u], j)
    <3>1. CASE u = t /\ j = i
      BY <1>5, <1>7, <1>9, <1>10, <3>1
    <3>2. CASE ~ (u = t /\ j = i)
      <4>1. u \in DOMAIN table /\ j \in DOMAIN table[u] /\ table'[u][j] = table[u][j]
        BY <1>9, <2>3, <3>2
      <4>2. QED BY <1>9, <2>3, <4>1 DEF Tree
    <3>3. QED BY <3>1, <3>2
  <2>4. QED BY <2>1, <2>2, <2>3 DEF Tree
<1>12. \A x : Loose(x) /\ x # n => Loose(x)'
  <2> SUFFICES ASSUME NEW x, Loose(x), x # n PROVE Loose(x)'
    OBVIOUS
  <2>1. /\ x \in DOMAIN table /\ DOMAIN table[x] = {} /\ x # NULL
        /\ \A s \in Spaces, v \in Pages, l \in 1 .. Levels : TableAt(s, v, l) # x
    BY <1>2 DEF Loose
  <2>2. x # t
    <3>1. Top.virt \in Pages
      BY <1>2 DEF FrameSet
    <3>2. TableAt(p, Top.virt, m) = t
      BY <1>2, <1>3
    <3>3. QED BY <1>4, <2>1, <3>1, <3>2
  <2>3. x \in DOMAIN table' /\ DOMAIN table'[x] = {}
    BY <1>9, <2>1, <2>2
  <2>4. \A s \in Spaces, v \in Pages, l \in 1 .. Levels : TableAt(s, v, l)' # x
    BY <1>8, <2>1
  <2>5. QED BY <2>3, <2>4 DEF Loose
<1>13. PICK f, g : f = Down(Top, n) /\ g = Frame(n, n, FALSE, p)
  OBVIOUS
<1>14. f \in FrameSet /\ f.new = NULL /\ f.virt = Top.virt /\ f.at = n /\ f.level = m + 1
  BY <1>1, <1>2, <1>3, <1>13, OtherFrame DEF FrameSet
<1>15. g.at = root[p] /\ g.level = 1 /\ g.new = NULL
  BY <1>4, <1>13 DEF Frame
<1>16. PICK r : r = stack'
  OBVIOUS
<1>17. /\ DOMAIN r = 1 .. N + 1 /\ r[N] = f /\ r[N + 1] = g
       /\ \A k \in 1 .. N : k # N => r[k] = stack[k]
  <2>1. PICK r0 : r0 = [stack EXCEPT ![Len(stack)] = f]
    OBVIOUS
  <2>2. r = Append(r0, g)
    BY <1>3, <1>4, <1>13, <1>16, <2>1 DEF Install, SetTop
  <2>3. /\ r0 \in Seq(FrameSet) /\ Len(r0) = N /\ r0[N] = f
        /\ \A k \in DOMAIN stack : k # N => r0[k] = stack[k]
    BY <1>1, <1>2, <1>3, <1>14, <2>1, OtherLast
  <2>4. g \in FrameSet
    <3>1. FALSE \in BOOLEAN /\ n \in Pages
      BY <1>2, <1>3 DEF FrameSet
    <3>2. QED BY <1>4, <1>13, <3>1, NewFrame
  <2>5. /\ DOMAIN r = 1 .. N + 1 /\ r[N + 1] = g
        /\ \A k \in 1 .. N : r[k] = r0[k]
    BY <2>2, <2>3, <2>4, OneMore
  <2>6. QED BY <1>4, <2>3, <2>5
<1>18. \A k \in 1 .. N :
          /\ stack[k] \in FrameSet /\ stack[k].virt \in Pages /\ stack[k].level \in 1 .. Levels
          /\ TableAt(p, stack[k].virt, stack[k].level) = stack[k].at /\ stack[k].at # NULL
          /\ stack[k].at \in DOMAIN table
  <2> SUFFICES ASSUME NEW k \in 1 .. N
               PROVE  /\ stack[k] \in FrameSet /\ stack[k].virt \in Pages /\ stack[k].level \in 1 .. Levels
                      /\ TableAt(p, stack[k].virt, stack[k].level) = stack[k].at /\ stack[k].at # NULL
                      /\ stack[k].at \in DOMAIN table
    OBVIOUS
  <2>1. stack[k] \in FrameSet /\ stack[k].at \in DOMAIN table
    BY <1>4, FrameSpots
  <2>2. TableAt(p, stack[k].virt, stack[k].level) = stack[k].at /\ stack[k].at # NULL
    BY <1>4 DEF Frames
  <2>3. QED BY <2>1, <2>2 DEF FrameSet
<1>19. ASSUME NEW k \in 1 .. N, k # N
       PROVE  /\ TableAt(p, r[k].virt, r[k].level)' = r[k].at /\ r[k].at # NULL
              /\ r[k].new # NULL =>
                    /\ r[k].level < Levels /\ Loose(r[k].new)'
                    /\ place[r[k].new] = Child(place[r[k].at], At(r[k]))
                    /\ \A j \in DOMAIN r :
                          /\ j < k => ~ Through(r[j], r[k])'
                          /\ j # k => r[j].new # r[k].new
  <2>1. r[k] = stack[k] /\ k \in DOMAIN stack /\ k < N
    BY <1>4, <1>17, <1>19
  <2>2. PICK h : h = r[k]
    OBVIOUS
  <2>3. /\ h.virt \in Pages /\ h.level \in 1 .. Levels
        /\ TableAt(p, h.virt, h.level) = h.at /\ h.at # NULL
    BY <1>18, <2>1, <2>2
  <2>4. ~ Through(h, stack[N])
    BY <1>5, <2>1, <2>2
  <2>5. TableAt(p, h.virt, h.level)' = h.at
    <3>1. ~ (m < h.level /\ TableAt(p, h.virt, m) = t /\ Index(h.virt, m) = i)
      BY <1>4, <2>4 DEF Through
    <3>2. QED BY <1>4, <1>8, <2>3, <3>1
  <2>6. ASSUME h.new # NULL
        PROVE  /\ h.level < Levels /\ Loose(h.new)'
               /\ place[h.new] = Child(place[h.at], At(h))
               /\ \A j \in DOMAIN r :
                     /\ j < k => ~ Through(r[j], h)'
                     /\ j # k => r[j].new # h.new
    <3>1. /\ h.level < Levels /\ Loose(h.new)
          /\ place[h.new] = Child(place[h.at], At(h))
          /\ \A j \in DOMAIN stack :
                /\ j < k => ~ Through(stack[j], h)
                /\ j # k => stack[j].new # h.new
      BY <2>1, <2>2, <2>6 DEF Frames
    <3>2. h.new # n
      BY <1>5, <2>1, <2>2
    <3>3. Loose(h.new)'
      BY <1>12, <3>1, <3>2
    <3>4. ASSUME NEW j \in DOMAIN r, j < k
          PROVE  ~ Through(r[j], h)'
      <4>1. j \in 1 .. N /\ j # N /\ j \in DOMAIN stack /\ r[j] = stack[j]
        BY <1>4, <1>17, <2>1, <3>4
      <4>2. PICK v : v = r[j].virt
        OBVIOUS
      <4>3. v \in Pages
        BY <1>18, <4>1, <4>2
      <4>4. ~ Through(r[j], h)
        BY <3>1, <3>4, <4>1
      <4>5. h.at # n /\ h.at # NULL
        BY <1>4, <1>10, <2>3
      <4>6. TableAt(p, v, h.level)' = h.at => TableAt(p, v, h.level) = h.at
        BY <1>4, <1>8, <2>3, <4>3, <4>5
      <4>7. QED BY <1>4, <4>2, <4>4, <4>6 DEF Through, At, Index
    <3>5. ASSUME NEW j \in DOMAIN r, j # k
          PROVE  r[j].new # h.new
      <4>1. CASE j = N + 1 \/ j = N
        BY <1>14, <1>15, <1>17, <2>6, <4>1
      <4>2. CASE j # N + 1 /\ j # N
        <5>1. j \in 1 .. N /\ j \in DOMAIN stack /\ r[j] = stack[j]
          BY <1>4, <1>17, <4>2
        <5>2. QED BY <3>1, <3>5, <5>1
      <4>3. QED BY <4>1, <4>2
    <3>6. QED BY <3>1, <3>3, <3>4, <3>5
  <2>7. QED BY <2>2, <2>3, <2>5, <2>6
<1>20. TableAt(p, r[N].virt, r[N].level)' = r[N].at /\ r[N].at # NULL /\ r[N].new = NULL
  <2>1. PICK v : v = Top.virt
    OBVIOUS
  <2>2. v \in Pages /\ TableAt(p, v, m) = t /\ Index(v, m) = i
    BY <1>2, <1>3, <2>1 DEF FrameSet, At
  <2>3. m + 1 \in 1 .. Levels /\ m < m + 1
    BY <1>4, SomePages
  <2>4. TableAt(p, v, m + 1)' = n
    BY <1>4, <1>8, <2>2, <2>3
  <2>5. r[N].virt = v /\ r[N].level = m + 1 /\ r[N].at = n /\ r[N].new = NULL
    BY <1>14, <1>17, <2>1
  <2>6. QED BY <1>10, <2>4, <2>5
<1>21. /\ TableAt(p, r[N + 1].virt, r[N + 1].level)' = r[N + 1].at /\ r[N + 1].at # NULL
       /\ r[N + 1].new = NULL
  <2>1. r[N + 1].at = root[p] /\ r[N + 1].level = 1 /\ r[N + 1].new = NULL
    BY <1>15, <1>17
  <2>2. PICK v : v = r[N + 1].virt
    OBVIOUS
  <2>3. TableAt(p, v, 1)' = root'[p]
    BY AtRoot
  <2>4. root[p] # NULL
    <3>1. call.name # "start"
      BY <1>1 DEF Owners
    <3>2. QED BY <1>4, <3>1 DEF Owners, Spaces
  <2>5. QED BY <1>1, <2>1, <2>2, <2>3, <2>4
<1>22. Frames(place)'
  <2>1. ASSUME NEW k \in DOMAIN r
        PROVE  /\ TableAt(p, r[k].virt, r[k].level)' = r[k].at /\ r[k].at # NULL
               /\ r[k].new # NULL =>
                     /\ r[k].level < Levels /\ Loose(r[k].new)'
                     /\ place[r[k].new] = Child(place[r[k].at], At(r[k]))
                     /\ \A j \in DOMAIN r :
                           /\ j < k => ~ Through(r[j], r[k])'
                           /\ j # k => r[j].new # r[k].new
    <3>1. k = N + 1 \/ k = N \/ (k \in 1 .. N /\ k # N)
      BY <1>4, <1>17
    <3>2. QED BY <1>19, <1>20, <1>21, <3>1
  <2>2. QED BY <1>4, <1>16, <2>1, FramesNow
<1>23. QED BY <1>11, <1>22

\* The other steps: no table is changed, or a root is added and no call is under way.
LEMMA OtherFrames ==
    ASSUME Types, Owners, NEW place, Tree(place), Frames(place),
           \/ paging_reload_kernel_map \/ Call \/ Return \/ _ahci_driver_load_pci
           \/ UNCHANGED vars
    PROVE  \E p : Tree(p)' /\ Frames(p)'
<1>1. ASSUME root' = root, table' = table, stack' = <<>>
      PROVE  Tree(place)' /\ Frames(place)'
  BY <1>1 DEF Tree, Frames
<1>2. ASSUME NEW space \in Spaces, NEW ops, NEW name, NewSpace(space, ops, name),
             stack = <<>>, free # {}, root[space] = NULL
      PROVE  \E p : Tree(p)' /\ Frames(p)'
  <2>1. PICK n : n = NextPage
    OBVIOUS
  <2>2. n \notin DOMAIN table /\ n # NULL
    BY <1>2, <2>1, NextFree DEF Owners
  <2>3. table' = With(table, n, <<>>) /\ root' = [root EXCEPT ![space] = n] /\ stack' = <<>>
    BY <1>2, <2>1 DEF NewSpace
  <2>4. /\ DOMAIN table' = DOMAIN table \cup {n} /\ DOMAIN table'[n] = {}
        /\ \A u \in DOMAIN table : table'[u] = table[u]
    BY <2>2, <2>3, NewTable
  <2>5. PICK c : c = Spot(space, 1, 0)
    OBVIOUS
  <2>6. c \in Spots
    BY <2>5, SomePages DEF Spot, Spots
  <2>7. PICK q : q = [t \in DOMAIN table' |-> IF t = n THEN c ELSE place[t]]
    OBVIOUS
  <2>8. q[n] = c /\ \A t \in DOMAIN table : q[t] = place[t]
    BY <2>2, <2>4, <2>7
  <2>9. Tree(q)'
    <3>1. q \in [DOMAIN table' -> Spots]
      BY <2>4, <2>6, <2>7 DEF Tree
    <3>2. \A s \in Spaces : root'[s] # NULL => root'[s] \in DOMAIN table' /\ q[root'[s]] = Spot(s, 1, 0)
      <4>1. root'[space] = n /\ \A s \in Spaces : s # space => root'[s] = root[s]
        BY <2>3 DEF Types
      <4>2. QED BY <2>4, <2>5, <2>8, <4>1 DEF Tree
    <3>3. ASSUME NEW t \in DOMAIN table', q[t].level < Levels, NEW i \in DOMAIN table'[t]
          PROVE  table'[t][i].at \in DOMAIN table' /\ q[table'[t][i].at] = Child(q[t], i)
      <4>1. t \in DOMAIN table /\ table'[t] = table[t]
        BY <2>4, <3>3
      <4>2. table[t][i].at \in DOMAIN table /\ place[table[t][i].at] = Child(place[t], i)
        BY <2>8, <3>3, <4>1 DEF Tree
      <4>3. QED BY <2>4, <2>8, <4>1, <4>2
    <3>4. QED BY <3>1, <3>2, <3>3 DEF Tree
  <2>10. Frames(q)'
    BY <2>3 DEF Frames
  <2>11. QED BY <2>9, <2>10
<1>3. CASE paging_reload_kernel_map
  <2>1. stack = <<>> /\ free # {} /\ root["kernel"] = NULL /\ "kernel" \in Spaces
    BY <1>3, Taken DEF paging_reload_kernel_map, Owners, Spaces
  <2>2. NewSpace("kernel", KernelOps, "paging_reload_kernel_map")
    BY <1>3 DEF paging_reload_kernel_map
  <2>3. QED BY <1>2, <2>1, <2>2
<1>4. CASE task_new_page_table
  <2>1. stack = <<>> /\ free # {} /\ root["task"] = NULL /\ "task" \in Spaces
    BY <1>4 DEF task_new_page_table, Ready, Spaces
  <2>2. NewSpace("task", TaskOps(NextPage), "task_new_page_table")
    BY <1>4 DEF task_new_page_table
  <2>3. QED BY <1>2, <2>1, <2>2
<1>5. CASE \/ \E virt \in UserVirts \cup {NULL} : pmap(virt)
           \/ \E virt \in UserVirts \cup (own \cap Pool) : punmap(virt)
           \/ fb_req \/ fb_kill \/ kb_man_take \/ kb_man_give
  <2>1. root' = root /\ table' = table /\ stack' = <<>>
    BY <1>5 DEF pmap, punmap, fb_req, fb_kill, kb_man_take, kb_man_give, Syscall, Ready
  <2>2. QED BY <1>1, <2>1
<1>6. CASE Return
  BY <1>1, <1>6 DEF Return
<1>7. CASE _ahci_driver_load_pci \/ UNCHANGED vars
  <2>1. root' = root /\ table' = table /\ pml4' = pml4
    BY <1>7 DEF _ahci_driver_load_pci, vars
  <2>2. \A t : Loose(t) => DOMAIN table'[t] = {}
    BY <2>1 DEF Loose
  <2>3. /\ Tree(place)'
        /\ \A s \in Spaces, v \in Pages, l \in 1 .. Levels : TableAt(s, v, l)' = TableAt(s, v, l)
        /\ \A t : Loose(t) => Loose(t)'
    BY <2>1, <2>2, SameTree
  <2>4. stack' \in Seq(FrameSet) /\ stack \in Seq(FrameSet)
    BY <1>7, DriverTypes DEF vars, Types
  <2>5. CASE UNCHANGED vars
    <3>1. \A k \in DOMAIN stack' : k \in DOMAIN stack /\ stack'[k] = stack[k]
      BY <2>5 DEF vars
    <3>2. QED BY <2>1, <2>3, <2>4, <3>1, SameFrames
  <2>6. CASE _ahci_driver_load_pci
    <3>1. PICK f : f = Frame(Abar, Abar, FALSE, "kernel")
      OBVIOUS
    <3>2. stack' = Append(stack, f) /\ call.name # "start"
      BY <2>6, <3>1 DEF _ahci_driver_load_pci
    <3>3. f.at = root[pml4] /\ f.level = 1 /\ f.new = NULL
      BY <3>1 DEF Frame
    <3>4. f \in FrameSet
      <4>1. FALSE \in BOOLEAN /\ "kernel" \in Spaces
        BY DEF Spaces
      <4>2. QED BY <3>1, <4>1, NewFrame, SomePages
    <3>5. TableAt(pml4, f.virt, f.level) = f.at /\ f.at # NULL
      <4>1. root[pml4] # NULL
        BY <3>2 DEF Owners, Types, Spaces
      <4>2. QED BY <3>3, <4>1, AtRoot
    <3>6. /\ DOMAIN stack' = 1 .. Len(stack) + 1 /\ DOMAIN stack = 1 .. Len(stack) /\ Len(stack) \in Nat
          /\ stack'[Len(stack) + 1] = f /\ Len(stack') = Len(stack) + 1
          /\ \A k \in 1 .. Len(stack) : stack'[k] = stack[k]
      BY <2>4, <3>2, <3>4, OneMore
    <3>7. \A k \in DOMAIN stack' :
             \/ k \in DOMAIN stack /\ stack'[k] = stack[k]
             \/ /\ k = Len(stack') /\ stack'[k].new = NULL
                /\ TableAt(pml4, stack'[k].virt, stack'[k].level) = stack'[k].at
                /\ stack'[k].at # NULL
      <4>1. \A k \in DOMAIN stack' : k \in DOMAIN stack \/ k = Len(stack')
        BY <3>6
      <4>2. QED BY <3>3, <3>5, <3>6, <4>1
    <3>8. QED BY <2>1, <2>3, <2>4, <3>7, SameFrames
  <2>7. QED BY <1>7, <2>5, <2>6
<1>8. QED BY <1>3, <1>4, <1>5, <1>6, <1>7 DEF Call

----------------------------------------------------------------------------
(* The trees are trees, and apart *)

\* The invariant holds at first and is kept.
LEMMA TreeInvHolds == Spec => []TreeInv
<1>1. Init => TreeInv
  <2> SUFFICES ASSUME Init PROVE TreeInv
    OBVIOUS
  <2>1. Types
    <3>1. DOMAIN table = {} /\ \A s \in Spaces : DOMAIN wanted[s] = {}
      BY DEF Init
    <3>2. call = [name |-> "start", virt |-> NULL]
      BY DEF Init, Idle
    <3>3. call \in [name : Names, virt : Pages]
      BY <3>2, SomePages DEF Names
    <3>4. Programs \subseteq Pages
      <4>1. Segments \in Seq([virt : Pages, phys : Pages]) /\ Stack \in Seq(Pages)
        BY Lists
      <4>2. \A s \in ToSet(Segments) : s.phys \in Pages
        <5>1. PICK R : R = [virt : Pages, phys : Pages]
          OBVIOUS
        <5>2. Segments \in Seq(R)
          BY <4>1, <5>1
        <5>3. \A s \in ToSet(Segments) : s \in R
          BY <5>2, ElementOfSeq DEF ToSet
        <5>4. QED BY <5>1, <5>3
      <4>3. \A x \in ToSet(Stack) : x \in Pages
        BY <4>1, ElementOfSeq DEF ToSet
      <4>4. QED BY <4>2, <4>3 DEF Programs
    <3>5. own = Programs
      BY DEF Init, Programs
    <3>6. /\ root \in [Spaces -> Pages] /\ DOMAIN wanted = Spaces
          /\ overlaid \in [Spaces -> SUBSET Pages]
      BY SomePages DEF Init
    <3>7. stack = <<>> /\ todo = <<>> /\ <<>> \in Seq(FrameSet) /\ <<>> \in Seq(Ops)
      BY DEF Init
    <3>8. /\ free \subseteq Pool /\ pml4 \in Spaces /\ held \in BOOLEAN /\ loaded \in BOOLEAN
          /\ disturbed \in BOOLEAN /\ buffer \in Pool \cup {NULL} /\ made \in 0 .. Calls
      <4>1. 0 \in 0 .. Calls
        BY SomeCalls
      <4>2. held \in BOOLEAN /\ loaded \in BOOLEAN /\ disturbed \in BOOLEAN
        BY Zenon DEF Init
      <4>3. free \subseteq Pool /\ pml4 \in Spaces /\ buffer \in Pool \cup {NULL} /\ made = 0
        BY DEF Init, Spaces
      <4>4. QED BY <4>1, <4>2, <4>3
    <3>9. DOMAIN table \subseteq Pool /\ \A t \in DOMAIN table : \A i \in DOMAIN table[t] :
             i \in 0 .. Radix - 1 /\ table[t][i] \in Entries
      BY <3>1
    <3>10. \A s \in Spaces : DOMAIN wanted[s] \subseteq Pages
      BY <3>1
    <3>11. stack \in Seq(FrameSet) /\ todo \in Seq(Ops)
      BY <3>7
    <3>12. QED BY <3>3, <3>4, <3>5, <3>6, <3>8, <3>9, <3>10, <3>11 DEF Types
  <2>2. Owners
    <3>1. DOMAIN table = {} /\ own = Programs /\ free = Pool
      BY DEF Init, Programs
    <3>2. Pool \cap Programs = {}
      BY Taken DEF Programs
    <3>3. call = [name |-> "start", virt |-> NULL]
      BY DEF Init, Idle
    <3>4. call.name = "start" /\ call # Idle
      BY <3>3 DEF Idle
    <3>5. /\ root["kernel"] = NULL /\ root["task"] = NULL /\ stack = <<>> /\ todo = <<>>
          /\ pml4 = "kernel" /\ buffer = NULL
      BY DEF Init, Spaces
    <3>6. QED BY <3>1, <3>2, <3>4, <3>5 DEF Owners
  <2>3. \E place : Tree(place) /\ Frames(place)
    <3>1. PICK place : place = [t \in {} |-> t]
      OBVIOUS
    <3>2. DOMAIN table = {} /\ DOMAIN stack = {} /\ \A s \in Spaces : root[s] = NULL
      BY DEF Init
    <3>3. Tree(place)
      BY <3>1, <3>2 DEF Tree
    <3>4. Frames(place)
      BY <3>2 DEF Frames
    <3>5. QED BY <3>3, <3>4
  <2>4. QED BY <2>1, <2>2, <2>3 DEF TreeInv
<1>2. TreeInv /\ [Next]_vars => TreeInv'
  <2> SUFFICES ASSUME TreeInv, [Next]_vars PROVE TreeInv'
    OBVIOUS
  <2>1. PICK place : Tree(place) /\ Frames(place)
    BY DEF TreeInv
  <2>2. Types /\ Owners
    BY DEF TreeInv
  <2>3. CASE Begin
    BY <2>1, <2>2, <2>3, BeginTypes, BeginFrames DEF TreeInv
  <2>4. CASE Descend
    BY <2>1, <2>2, <2>4, DescendTypes, DescendFrames DEF TreeInv
  <2>5. CASE AddTable
    BY <2>1, <2>2, <2>5, AddTableTypes, AddTableFrames DEF TreeInv
  <2>6. CASE Install
    BY <2>1, <2>2, <2>6, InstallTypes, InstallFrames DEF TreeInv
  <2>7. CASE SetLeaf
    BY <2>1, <2>2, <2>7, SetLeafTypes, LeafFrames DEF TreeInv
  <2>8. CASE paging_unmap_page
    BY <2>1, <2>2, <2>8, UnmapTypes, LeafFrames DEF TreeInv
  <2>9. CASE paging_reload_kernel_map \/ Call \/ Return \/ _ahci_driver_load_pci
    <3>1. Types' /\ Owners'
      BY <2>1, <2>2, <2>9, SpaceTypes, CallTypes, ReturnTypes, DriverTypes
    <3>2. QED BY <2>1, <2>2, <2>9, <3>1, OtherFrames DEF TreeInv
  <2>10. CASE UNCHANGED vars
    <3>1. Types' /\ Owners'
      BY <2>2, <2>10 DEF Types, Owners, vars
    <3>2. QED BY <2>1, <2>2, <2>10, <3>1, OtherFrames DEF TreeInv
  <2>11. QED BY <2>3, <2>4, <2>5, <2>6, <2>7, <2>8, <2>9, <2>10 DEF Next, Step,
      paging_map_page
<1>3. QED BY <1>1, <1>2, PTL DEF Spec

\* An address rounded down to a block is in it.
LEMMA Rounded ==
    ASSUME NEW v \in Nat, NEW m \in Nat \ {0}
    PROVE  /\ (v \div m) * m \in Nat /\ (v \div m) * m <= v
           /\ ((v \div m) * m) \div m = v \div m
<1> DEFINE q == v \div m
           r == v % m
           x == q * m
<1>1. q \in Nat /\ r \in 0 .. m - 1 /\ v = m * q + r
  OBVIOUS
<1> HIDE DEF q, r
<1>2. x \in Nat /\ x = m * q /\ x <= v
  <2>1. m * q \in Nat /\ m * q = q * m
    BY <1>1
  <2>2. QED BY <1>1, <2>1
<1>3. x \div m = q
  <2>1. x = q * m + 0 /\ 0 \in 0 .. m - 1
    BY <1>1, <1>2
  <2>2. x \div m \in Nat /\ x % m \in 0 .. m - 1 /\ x = (x \div m) * m + (x % m)
    <3>1. PICK y : y = x /\ y \in Nat
      BY <1>2
    <3>2. PICK c, d : c = y \div m /\ d = y % m
      OBVIOUS
    <3>3. c \in Nat /\ d \in 0 .. m - 1 /\ y = m * c + d
      BY <3>1, <3>2
    <3>4. m * c = c * m
      BY <3>3
    <3>5. QED BY <3>1, <3>2, <3>3, <3>4
  <2>3. QED BY <1>1, <2>1, <2>2, SameBase
<1>4. QED BY <1>2, <1>3 DEF q

\* A place of a tree is the one its table stands at.
LEMMA PlaceOfTable ==
    ASSUME Types, NEW place, Tree(place), NEW p \in UNION {Places(s) : s \in Spaces}
    PROVE  /\ TableIn(p) \in DOMAIN table
           /\ p = <<place[TableIn(p)].space, place[TableIn(p)].level, place[TableIn(p)].base>>
<1>1. PICK s \in Spaces : p \in Places(s)
  OBVIOUS
<1>2. PICK l \in 1 .. Levels, v \in Pages : p = <<s, l, v \div Span[l - 1]>>
  BY <1>1 DEF Places
<1>3. TableAt(s, p[3] * Span[p[2] - 1], p[2]) # NULL
  BY <1>1 DEF Places
<1>4. PICK m, b, w : m = Span[l - 1] /\ b = v \div m /\ w = b * m
  OBVIOUS
<1>5. p = <<s, l, b>> /\ p[1] = s /\ p[2] = l /\ p[3] = b
  BY <1>2, <1>4
<1>6. TableAt(s, w, l) # NULL /\ TableIn(p) = TableAt(s, w, l)
  BY <1>3, <1>4, <1>5 DEF TableIn
<1>7. m \in Nat \ {0} /\ v \in Nat /\ Span[0] \in Nat
  <2>1. l - 1 \in 0 .. Levels /\ 0 \in 0 .. Levels
    BY SomePages
  <2>2. v \in Nat
    BY SomePages
  <2>3. QED BY <1>4, <2>1, <2>2, Sizes
<1>8. w \in Nat /\ w <= v /\ w \div m = b
  BY <1>4, <1>7, Rounded
<1>9. w \in Pages
  BY <1>7, <1>8 DEF Pages
<1>10. /\ TableAt(s, w, l) \in DOMAIN table
       /\ place[TableAt(s, w, l)] = Spot(s, l, w \div Span[l - 1])
  BY <1>6, <1>9, Walked DEF Types
<1>11. place[TableIn(p)] = Spot(s, l, b)
  BY <1>4, <1>6, <1>8, <1>10
<1>12. place[TableIn(p)].space = s /\ place[TableIn(p)].level = l /\ place[TableIn(p)].base = b
  BY <1>11 DEF Spot
<1>13. QED BY <1>5, <1>6, <1>10, <1>12

\* Types, and the calls in the tree, are what TypeOK says.
LEMMA TypesAreRight == TreeInv => TypeOK
<1> SUFFICES ASSUME Types, NEW place, Tree(place), Frames(place)
             PROVE  TypeOK
  BY DEF TreeInv
<1>1. \A t \in DOMAIN table : \A i \in DOMAIN table[t] :
          t \in Pool /\ i \in 0 .. Radix - 1 /\ table[t][i] \in Entries
  BY DEF Types
<1>2. root \in [Spaces -> Pool \cup {NULL}]
  BY DEF Types, Tree
<1>3. \A k \in DOMAIN stack :
          /\ stack[k].at \in DOMAIN table /\ stack[k].level \in 1 .. Levels
          /\ stack[k].new \in DOMAIN table \cup {NULL}
  <2> SUFFICES ASSUME NEW k \in DOMAIN stack
               PROVE  /\ stack[k].at \in DOMAIN table /\ stack[k].level \in 1 .. Levels
                      /\ stack[k].new \in DOMAIN table \cup {NULL}
    OBVIOUS
  <2>1. stack[k] \in FrameSet /\ stack[k].at \in DOMAIN table
    BY FrameSpots
  <2>2. stack[k].new \in DOMAIN table \cup {NULL}
    BY DEF Frames, Loose
  <2>3. QED BY <2>1, <2>2 DEF FrameSet
<1>4. DOMAIN wanted["task"] \subseteq Pages /\ DOMAIN wanted["kernel"] \subseteq Pages
  BY DEF Types, Spaces
<1>5. QED BY <1>1, <1>2, <1>3, <1>4 DEF Types, TypeOK

\* In trees, tables are apart.
LEMMA TreesApart == TreeInv => TablesApart
<1> SUFFICES ASSUME Types, Owners, NEW place, Tree(place), Frames(place)
             PROVE  TablesApart
  BY DEF TreeInv
<1> DEFINE places == UNION {Places(s) : s \in Spaces}
           tables == {TableIn(p) : p \in places}
           spot(t) == <<place[t].space, place[t].level, place[t].base>>
           f == [t \in tables |-> spot(t)]
<1>1. \A p \in places : TableIn(p) \in DOMAIN table /\ p = spot(TableIn(p))
  BY PlaceOfTable
<1> HIDE DEF places, spot
<1>2. tables \subseteq DOMAIN table
  BY <1>1
<1>3. IsFiniteSet(tables)
  <2>1. Span[0] \in Nat \ {0}
    BY Sizes
  <2>2. IsFiniteSet(Pages)
    BY <2>1, FS_Interval DEF Pages
  <2>3. tables \subseteq Pages
    BY <1>2, SomePages DEF Types
  <2>4. QED BY <2>2, <2>3, FS_Subset
<1>4. f \in Bijection(tables, places)
  <2>1. \A t \in tables : f[t] = spot(t) /\ spot(t) \in places /\ t = TableIn(spot(t))
    BY <1>1
  <2>2. f \in [tables -> places]
    BY <2>1
  <2>3. \A a, b \in tables : f[a] = f[b] => a = b
    BY <2>1
  <2>4. \A p \in places : \E t \in tables : f[t] = p
    BY <1>1, <2>1
  <2> HIDE DEF f, tables
  <2>5. f \in Injection(tables, places)
    BY <2>2, <2>3 DEF Injection, IsInjective
  <2>6. f \in Surjection(tables, places)
    BY <2>2, <2>4 DEF Surjection
  <2>7. QED BY <2>5, <2>6 DEF Bijection
<1>5. Cardinality(places) = Cardinality(tables)
  <2> HIDE DEF f, tables
  <2>1. ExistsBijection(tables, places)
    BY <1>4 DEF ExistsBijection
  <2>2. QED BY <1>3, <2>1, FS_Bijection
<1>6. tables \cap (free \cup own) = {}
  BY <1>2 DEF Owners
<1>7. QED BY <1>5, <1>6 DEF TablesApart, places

\* No table of pages is in two places, in two spaces, free, or a page of the
\* program: paging_map_page enters a table only where, and only once, the tree is
\* to have it, even though another call may add tables, through an interrupt,
\* between the two.
THEOREM TablesStayApart == Spec => []TablesApart
<1>1. TreeInv => TablesApart
  BY TreesApart
<1>2. QED BY <1>1, TreeInvHolds, PTL

----------------------------------------------------------------------------
(* What each step maps *)

\* A page is mapped after a step only if it was, and where it was; or exactly if.
Remains(s, v) == Mapped(s, v)' => Mapped(s, v) /\ LeafEntry(s, v)' = LeafEntry(s, v)
Stays(s, v) == Remains(s, v) /\ (Mapped(s, v) => Mapped(s, v)')

\* What a page's leaf is.
LEMMA LeafSpot ==
    ASSUME Types, NEW place, Tree(place), NEW s \in Spaces, NEW v \in Pages, Leaf(s, v) # NULL
    PROVE  /\ Leaf(s, v) \in DOMAIN table /\ place[Leaf(s, v)].level = Levels
           /\ place[Leaf(s, v)].space = s /\ place[Leaf(s, v)].base = v \div Span[Levels - 1]
<1>1. Leaf(s, v) = TableAt(s, v, Levels)
  BY DEF Leaf
<1>2. /\ Leaf(s, v) \in DOMAIN table
      /\ place[Leaf(s, v)] = Spot(s, Levels, v \div Span[Levels - 1])
  BY <1>1, SomePages, Walked DEF Types
<1>3. QED BY <1>2 DEF Spot

\* One entry of one leaf is one page of one space.
LEMMA OneLeaf ==
    ASSUME Types, NEW place, Tree(place), NEW s \in Spaces, NEW v \in Pages,
           NEW x \in Spaces, NEW w \in Pages, Leaf(s, v) # NULL, Leaf(s, v) = Leaf(x, w),
           Index(v, Levels) = Index(w, Levels)
    PROVE  s = x /\ v = w
<1>1. s = x /\ v \div Span[Levels - 1] = w \div Span[Levels - 1]
  BY LeafSpot
<1>2. v \in Nat /\ w \in Nat /\ Levels \in 1 .. Levels
  BY SomePages
<1>3. \A a \in Nat : a \div Span[Levels] = (a \div Span[Levels - 1]) * Radix + Index(a, Levels)
  BY <1>2, Indices
<1>4. PICK a, b : a = (v \div Span[Levels - 1]) * Radix + Index(v, Levels)
                  /\ b = (w \div Span[Levels - 1]) * Radix + Index(w, Levels)
  OBVIOUS
<1>5. a = b
  BY <1>1, <1>4
<1>6. v \div Span[Levels] = a /\ w \div Span[Levels] = b
  BY <1>2, <1>3, <1>4
<1>7. v \div 1 = v /\ w \div 1 = w
  BY <1>2
<1>8. QED BY <1>1, <1>5, <1>6, <1>7, Sizes

\* Where walks stay and leaves do, what is mapped stays.
LEMMA SameLeaves ==
    ASSUME Types, NEW place, Tree(place),
           \A s \in Spaces, v \in Pages, l \in 1 .. Levels : TableAt(s, v, l)' = TableAt(s, v, l),
           \A t \in DOMAIN table : place[t].level = Levels => table'[t] = table[t]
    PROVE  \A s \in Spaces, v \in Pages : Stays(s, v)
<1> SUFFICES ASSUME NEW s \in Spaces, NEW v \in Pages PROVE Stays(s, v)
  OBVIOUS
<1>1. Leaf(s, v)' = Leaf(s, v)
  BY SomePages DEF Leaf
<1>2. Leaf(s, v) # NULL => table'[Leaf(s, v)] = table[Leaf(s, v)]
  BY LeafSpot
<1>3. Index(v, Levels)' = Index(v, Levels)
  BY DEF Index
<1>4. QED BY <1>1, <1>2, <1>3 DEF Stays, Remains, Mapped, LeafEntry

\* Descend, and AddTable.
LEMMA AboveStays ==
    ASSUME Types, Owners, NEW place, Tree(place), Frames(place), Descend \/ AddTable
    PROVE  \A s \in Spaces, v \in Pages : Stays(s, v)
<1>1. \A s \in Spaces, v \in Pages, l \in 1 .. Levels : TableAt(s, v, l)' = TableAt(s, v, l)
  BY DescendFrames, AddTableFrames
<1>2. CASE Descend
  <2>1. stack # <<>> /\ Top.level < Levels
    BY <1>2 DEF Descend, Above
  <2>2. Top.at \in DOMAIN table /\ place[Top.at].level = Top.level
    BY <2>1, TopFrame
  <2>3. PICK e : table' = Set(Top.at, At(Top), e)
    BY <1>2 DEF Descend
  <2>4. \A t \in DOMAIN table : t # Top.at => table'[t] = table[t]
    BY <2>2, <2>3, SetEntry
  <2>5. \A t \in DOMAIN table : place[t].level = Levels => table'[t] = table[t]
    <3>1. ~ (Levels < Levels)
      BY SomePages
    <3>2. QED BY <2>1, <2>2, <2>4, <3>1
  <2>6. QED BY <1>1, <2>5, SameLeaves
<1>3. CASE AddTable
  <2>1. PICK n : n = NextPage
    OBVIOUS
  <2>2. n \notin DOMAIN table /\ table' = With(table, n, <<>>)
    BY <1>3, <2>1, NextFree DEF AddTable, Owners
  <2>3. \A t \in DOMAIN table : table'[t] = table[t]
    BY <2>2, NewTable
  <2>4. QED BY <1>1, <2>3, SameLeaves
<1>4. QED BY <1>2, <1>3

\* Install: what the entry led to is no longer mapped; that is nothing, if the
\* entry was absent.
LEMMA InstallRemains ==
    ASSUME Types, Owners, NEW place, Tree(place), Frames(place), Install
    PROVE  /\ \A s \in Spaces, v \in Pages : Remains(s, v)
           /\ At(Top) \notin DOMAIN table[Top.at] => \A s \in Spaces, v \in Pages : Stays(s, v)
<1>1. /\ root' = root /\ stack # <<>> /\ Top.level < Levels /\ Top.new # NULL
  BY DEF Install, caller, Above
<1>2. /\ Len(stack) \in DOMAIN stack /\ Top = stack[Len(stack)] /\ Top \in FrameSet
      /\ Top.at \in DOMAIN table /\ place[Top.at].level = Top.level /\ Top.at # NULL
      /\ root \in [Spaces -> Pages] /\ NULL \notin DOMAIN table
  BY <1>1, TopFrame, SomePages DEF Types
<1>3. PICK t, i, m, n : t = Top.at /\ i = At(Top) /\ m = Top.level /\ n = Top.new
  OBVIOUS
<1>4. PICK e : e = Entry(n, Top.user)
  OBVIOUS
<1>5. e.at = n /\ table' = Set(t, i, e)
  BY <1>3, <1>4 DEF Entry, Install
<1>6. Loose(n)
  BY <1>1, <1>2, <1>3 DEF Frames
<1>7. \A s \in Spaces, v \in Pages, l \in 1 .. Levels :
          TableAt(s, v, l)' =
              IF m < l /\ TableAt(s, v, m) = t /\ Index(v, m) = i
              THEN (IF l = m + 1 THEN n ELSE NULL)
              ELSE TableAt(s, v, l)
  <2>1. place[t].level < Levels /\ t \in DOMAIN table /\ place[t].level = m
    BY <1>1, <1>2, <1>3
  <2>2. QED BY <1>1, <1>2, <1>5, <1>6, <2>1, WalksLinked
<1>8. /\ DOMAIN table' = DOMAIN table
      /\ \A u \in DOMAIN table : u # t => table'[u] = table[u]
  BY <1>2, <1>3, <1>5, SetEntry
<1>9. m \in 1 .. Levels - 1 /\ m \in 1 .. Levels /\ m < Levels /\ Levels \in 1 .. Levels
  BY <1>1, <1>2, <1>3, SomePages DEF FrameSet
<1>10. n # t /\ DOMAIN table'[n] = {}
  <2>1. Top.virt \in Pages /\ TableAt(pml4, Top.virt, m) = t /\ pml4 \in Spaces
    BY <1>1, <1>2, <1>3, TopFrame DEF FrameSet, Types
  <2>2. n # t
    BY <1>6, <1>9, <2>1 DEF Loose
  <2>3. QED BY <1>6, <1>8, <2>2 DEF Loose
<1>11. ASSUME NEW s \in Spaces, NEW v \in Pages
       PROVE  /\ Remains(s, v)
              /\ i \notin DOMAIN table[t] => Stays(s, v)
  <2>1. Index(v, Levels)' = Index(v, Levels)
    BY DEF Index
  <2>2. CASE TableAt(s, v, m) = t /\ Index(v, m) = i
    <3>1. Leaf(s, v)' = n \/ Leaf(s, v)' = NULL
      BY <1>7, <1>9, <2>2 DEF Leaf
    <3>2. ~ Mapped(s, v)'
      BY <1>10, <3>1 DEF Mapped
    <3>3. ASSUME i \notin DOMAIN table[t]
          PROVE  ~ Mapped(s, v)
      <4>1. TableAt(s, v, m + 1) = NULL
        BY <1>9, <2>2, <3>3, NextLevel DEF UnderIn
      <4>2. m + 1 \in 1 .. Levels /\ m + 1 <= Levels
        BY <1>9, SomePages
      <4>3. TableAt(s, v, Levels) = NULL
        BY <1>9, <4>1, <4>2, NothingBelow
      <4>4. QED BY <4>3 DEF Mapped, Leaf
    <3>4. QED BY <3>2, <3>3 DEF Remains, Stays
  <2>3. CASE ~ (TableAt(s, v, m) = t /\ Index(v, m) = i)
    <3>1. Leaf(s, v)' = Leaf(s, v)
      BY <1>7, <1>9, <2>3 DEF Leaf
    <3>2. Leaf(s, v) # NULL => Leaf(s, v) \in DOMAIN table /\ Leaf(s, v) # t
      <4>1. ~ (Levels < Levels)
        BY SomePages
      <4>2. QED BY <1>1, <1>2, <1>3, <4>1, LeafSpot
    <3>3. Leaf(s, v) # NULL => table'[Leaf(s, v)] = table[Leaf(s, v)]
      BY <1>8, <3>2
    <3>4. QED BY <2>1, <3>1, <3>3 DEF Remains, Stays, Mapped, LeafEntry
  <2>4. QED BY <2>2, <2>3
<1>12. QED BY <1>3, <1>11

\* SetLeaf: one page of the space is mapped, to what was there or the page given.
LEMMA SetLeafMaps ==
    ASSUME Types, Owners, NEW place, Tree(place), Frames(place), SetLeaf,
           NEW w, w = Top.virt, NEW x, x = pml4, NEW o,
           o = IF Mapped(x, w) THEN LeafEntry(x, w).at ELSE NULL
    PROVE  /\ x \in Spaces /\ w \in Pages /\ o \in Pages
           /\ Mapped(x, w)' /\ LeafEntry(x, w)' = Entry(BitOr(o, Top.phys), Top.user)
           /\ overlaid' = Overlay(o)
           /\ \A s \in Spaces, v \in Pages : s # x \/ v # w => Stays(s, v)
<1>1. stack # <<>> /\ Top.level = Levels
  BY DEF SetLeaf
<1>2. /\ Top \in FrameSet /\ Top.at \in DOMAIN table /\ Top.at # NULL
      /\ TableAt(pml4, Top.virt, Top.level) = Top.at /\ pml4 \in Spaces
  BY <1>1, TopFrame DEF Types
<1>3. x \in Spaces /\ w \in Pages
  BY <1>2 DEF FrameSet
<1>4. PICK t, i : t = Top.at /\ i = At(Top)
  OBVIOUS
<1>5. Leaf(x, w) = t /\ Index(w, Levels) = i /\ t # NULL /\ t \in DOMAIN table
  BY <1>1, <1>2, <1>4 DEF Leaf, At
<1>6. o \in Pages /\ o = IF i \in DOMAIN table[t] THEN table[t][i].at ELSE 0
  <2>1. o = IF i \in DOMAIN table[t] THEN table[t][i].at ELSE 0
    BY <1>5 DEF Mapped, LeafEntry, NULL
  <2>2. QED BY <1>5, <2>1, SomePages DEF Types, Entries, NULL
<1>7. PICK e : e = Entry(BitOr(o, Top.phys), Top.user)
  OBVIOUS
<1>8. table' = Set(t, i, e) /\ overlaid' = Overlay(o)
  BY <1>4, <1>6, <1>7 DEF SetLeaf
<1>9. /\ \A u \in DOMAIN table : u # t => table'[u] = table[u]
      /\ DOMAIN table'[t] = DOMAIN table[t] \cup {i} /\ table'[t][i] = e
      /\ \A j \in DOMAIN table[t] : j # i => table'[t][j] = table[t][j]
  BY <1>5, <1>8, SetEntry
<1>10. \A s \in Spaces, v \in Pages : Leaf(s, v)' = Leaf(s, v)
  <2>1. \A s \in Spaces, v \in Pages, l \in 1 .. Levels : TableAt(s, v, l)' = TableAt(s, v, l)
    BY LeafFrames
  <2>2. QED BY <2>1, SomePages DEF Leaf
<1>11. \A v : Index(v, Levels)' = Index(v, Levels)
  BY DEF Index
<1>12. Mapped(x, w)' /\ LeafEntry(x, w)' = e
  BY <1>3, <1>5, <1>9, <1>10, <1>11 DEF Mapped, LeafEntry
<1>13. ASSUME NEW s \in Spaces, NEW v \in Pages, s # x \/ v # w
       PROVE  Stays(s, v)
  <2>1. CASE Leaf(s, v) = NULL
    BY <1>10, <2>1 DEF Stays, Remains, Mapped
  <2>2. CASE Leaf(s, v) # NULL /\ Leaf(s, v) # t
    <3>1. Leaf(s, v) \in DOMAIN table
      BY <2>2, LeafSpot
    <3>2. QED BY <1>9, <1>10, <1>11, <2>2, <3>1 DEF Stays, Remains, Mapped, LeafEntry
  <2>3. CASE Leaf(s, v) = t
    <3>1. Index(v, Levels) # i
      BY <1>3, <1>5, <1>13, <2>3, OneLeaf
    <3>2. QED BY <1>9, <1>10, <1>11, <2>3, <3>1 DEF Stays, Remains, Mapped, LeafEntry
  <2>4. QED BY <2>1, <2>2, <2>3
<1>14. QED BY <1>3, <1>6, <1>7, <1>8, <1>12, <1>13

\* paging_unmap_page: one page of the space is not mapped any more.
LEMMA UnmapUnmaps ==
    ASSUME Types, Owners, NEW place, Tree(place), Frames(place), paging_unmap_page,
           NEW w, w = Head(todo).virt, NEW x, x = pml4
    PROVE  /\ x \in Spaces /\ w \in Pages /\ ~ Mapped(x, w)'
           /\ \A s \in Spaces, v \in Pages : s # x \/ v # w => Stays(s, v)
<1>1. /\ Head(todo) \in Ops
      /\ \A u \in DOMAIN table :
            DOMAIN table'[u] = IF u = Leaf(x, w) THEN DOMAIN table[u] \ {Index(w, Levels)}
                                                  ELSE DOMAIN table[u]
      /\ \A u \in DOMAIN table : \A j \in DOMAIN table'[u] : table'[u][j] = table[u][j]
  BY EntryGone
<1>2. x \in Spaces /\ w \in Pages
  BY <1>1 DEF Ops, Types
<1>3. \A s \in Spaces, v \in Pages : Leaf(s, v)' = Leaf(s, v)
  <2>1. \A s \in Spaces, v \in Pages, l \in 1 .. Levels : TableAt(s, v, l)' = TableAt(s, v, l)
    BY LeafFrames
  <2>2. QED BY <2>1, SomePages DEF Leaf
<1>4. \A v : Index(v, Levels)' = Index(v, Levels)
  BY DEF Index
<1>5. ~ Mapped(x, w)'
  <2>1. CASE Leaf(x, w) = NULL
    BY <1>2, <1>3, <2>1 DEF Mapped
  <2>2. CASE Leaf(x, w) # NULL
    <3>1. Leaf(x, w) \in DOMAIN table
      BY <1>2, <2>2, LeafSpot
    <3>2. QED BY <1>1, <1>2, <1>3, <1>4, <3>1 DEF Mapped
  <2>3. QED BY <2>1, <2>2
<1>6. ASSUME NEW s \in Spaces, NEW v \in Pages, s # x \/ v # w
      PROVE  Stays(s, v)
  <2>1. CASE Leaf(s, v) = NULL
    BY <1>3, <2>1 DEF Stays, Remains, Mapped
  <2>2. CASE Leaf(s, v) # NULL
    <3>1. Leaf(s, v) \in DOMAIN table
      BY <2>2, LeafSpot
    <3>2. Leaf(s, v) = Leaf(x, w) => Index(v, Levels) # Index(w, Levels)
      BY <1>2, <1>6, <2>2, OneLeaf
    <3>3. QED BY <1>1, <1>3, <1>4, <3>1, <3>2 DEF Stays, Remains, Mapped, LeafEntry
  <2>3. QED BY <2>1, <2>2
<1>7. QED BY <1>2, <1>5, <1>6

\* The other steps map nothing.
LEMMA OthersStay ==
    ASSUME Types, Owners, NEW place, Tree(place), Frames(place),
           \/ paging_reload_kernel_map \/ Call \/ Return \/ _ahci_driver_load_pci
           \/ Begin \/ UNCHANGED vars
    PROVE  \A s \in Spaces, v \in Pages : Stays(s, v)
<1>1. ASSUME root' = root, table' = table
      PROVE  \A s \in Spaces, v \in Pages : Stays(s, v)
  <2>1. \A t : Loose(t) => DOMAIN table'[t] = {}
    BY <1>1 DEF Loose
  <2>2. \A s \in Spaces, v \in Pages, l \in 1 .. Levels : TableAt(s, v, l)' = TableAt(s, v, l)
    BY <1>1, <2>1, SameTree
  <2>3. QED BY <1>1, <2>2, SameLeaves
<1>2. ASSUME NEW space \in Spaces, NEW ops, NEW name, NewSpace(space, ops, name),
             free # {}, root[space] = NULL
      PROVE  \A s \in Spaces, v \in Pages : Stays(s, v)
  <2>1. PICK n : n = NextPage
    OBVIOUS
  <2>2. n \notin DOMAIN table
    BY <1>2, <2>1, NextFree DEF Owners
  <2>3. table' = With(table, n, <<>>) /\ root' = [root EXCEPT ![space] = n]
    BY <1>2, <2>1 DEF NewSpace
  <2>4. \A u \in DOMAIN table : table'[u] = table[u]
    BY <2>2, <2>3, NewTable
  <2>5. \A s \in Spaces, v \in Pages, l \in 1 .. Levels :
            TableAt(s, v, l)' = IF s = space THEN (IF l = 1 THEN n ELSE NULL) ELSE TableAt(s, v, l)
    <3>1. root \in [Spaces -> Pages]
      BY DEF Types
    <3>2. QED BY <1>2, <2>2, <2>3, <3>1, WalksOfRoot
  <2>6. ASSUME NEW s \in Spaces, NEW v \in Pages
        PROVE  Stays(s, v)
    <3>1. CASE s = space
      <4>1. Leaf(s, v)' = NULL
        BY <2>5, <3>1, SomePages DEF Leaf
      <4>2. TableAt(s, v, 1) = NULL
        BY <1>2, <3>1, AtRoot
      <4>3. TableAt(s, v, Levels) = NULL
        BY <4>2, NothingBelow, SomePages
      <4>4. QED BY <4>1, <4>3 DEF Stays, Remains, Mapped, Leaf
    <3>2. CASE s # space
      <4>1. Leaf(s, v)' = Leaf(s, v)
        BY <2>5, <3>2, SomePages DEF Leaf
      <4>2. Leaf(s, v) # NULL => table'[Leaf(s, v)] = table[Leaf(s, v)]
        BY <2>4, LeafSpot
      <4>3. Index(v, Levels)' = Index(v, Levels)
        BY DEF Index
      <4>4. QED BY <4>1, <4>2, <4>3 DEF Stays, Remains, Mapped, LeafEntry
    <3>3. QED BY <3>1, <3>2
  <2>7. QED BY <2>6
<1>3. CASE paging_reload_kernel_map
  <2>1. free # {} /\ root["kernel"] = NULL /\ "kernel" \in Spaces
    BY <1>3, Taken DEF paging_reload_kernel_map, Owners, Spaces
  <2>2. NewSpace("kernel", KernelOps, "paging_reload_kernel_map")
    BY <1>3 DEF paging_reload_kernel_map
  <2>3. QED BY <1>2, <2>1, <2>2
<1>4. CASE task_new_page_table
  <2>1. free # {} /\ root["task"] = NULL /\ "task" \in Spaces
    BY <1>4 DEF task_new_page_table, Ready, Spaces
  <2>2. NewSpace("task", TaskOps(NextPage), "task_new_page_table")
    BY <1>4 DEF task_new_page_table
  <2>3. QED BY <1>2, <2>1, <2>2
<1>5. CASE \/ \E virt \in UserVirts \cup {NULL} : pmap(virt)
           \/ \E virt \in UserVirts \cup (own \cap Pool) : punmap(virt)
           \/ fb_req \/ fb_kill \/ kb_man_take \/ kb_man_give
  <2>1. root' = root /\ table' = table
    BY <1>5 DEF pmap, punmap, fb_req, fb_kill, kb_man_take, kb_man_give, Syscall, Ready
  <2>2. QED BY <1>1, <2>1
<1>6. CASE Return \/ _ahci_driver_load_pci \/ Begin \/ UNCHANGED vars
  BY <1>1, <1>6 DEF Return, _ahci_driver_load_pci, Begin, caller, vars
<1>7. QED BY <1>3, <1>4, <1>5, <1>6 DEF Call

----------------------------------------------------------------------------
(* The program keeps to its own *)

SafeInv == Mappings /\ OverlaidAsked /\ Usable

\* What the layout of memory gives.
LEMMA LaidOut ==
    /\ \A s \in Spaces : \A v, a, b : Pair(v, a) \in Pairs(s) /\ Pair(v, b) \in Pairs(s) => a = b
    /\ \A s \in Spaces : \A n \in Pool \cup {Abar} : Pair(n, n) \in Pairs(s)
    /\ \A v, p : Pair(v, p) \in TaskPairs =>
          /\ p \in ToSet(Framebuffer) => v = p + VirtualOffset
          /\ p \in Pool => v = p
    /\ \A v, p : Pair(v, p) \in KernelPairs => Pair(p, p) \in KernelPairs
    /\ Pair(NULL, NULL) \in KernelPairs /\ Pair(Context, NULL) \in TaskPairs
<1>0. \A v, p : Pair(v, p).virt = v /\ Pair(v, p).phys = p
  BY DEF Pair
<1>1. \A s \in Spaces : \A v, a, b : Pair(v, a) \in Pairs(s) /\ Pair(v, b) \in Pairs(s) => a = b
  <2> SUFFICES ASSUME NEW s \in Spaces, NEW v, NEW a, NEW b, Pair(v, a) \in Pairs(s), Pair(v, b) \in Pairs(s)
               PROVE  a = b
    OBVIOUS
  <2>1. Pairs(s) \in {KernelPairs, TaskPairs}
    BY DEF Pairs
  <2>2. \A x, y \in Pairs(s) : x.virt = y.virt => x.phys = y.phys
    BY <2>1, Layout
  <2>3. PICK x, y : x = Pair(v, a) /\ y = Pair(v, b)
    OBVIOUS
  <2>4. x \in Pairs(s) /\ y \in Pairs(s) /\ x.virt = y.virt
    BY <1>0, <2>3
  <2>5. x.phys = y.phys
    BY <2>2, <2>4
  <2>6. QED BY <1>0, <2>3, <2>5
<1>2. \A v, p : Pair(v, p) \in TaskPairs =>
          /\ p \in ToSet(Framebuffer) => v = p + VirtualOffset
          /\ p \in Pool => v = p
  <2>1. \A a \in TaskPairs :
           /\ a.phys \in ToSet(Framebuffer) => a.virt = a.phys + VirtualOffset
           /\ a.phys \in Pool => a.virt = a.phys
    BY Layout
  <2>2. QED BY <1>0, <2>1
<1>3. \A s \in Spaces : \A n \in Pool \cup {Abar} : Pair(n, n) \in Pairs(s)
  <2> SUFFICES ASSUME NEW n \in Pool \cup {Abar}
               PROVE  Pair(n, n) \in KernelPairs /\ Pair(n, n) \in TaskPairs
    BY DEF Pairs
  <2>1. n \in Nat
    BY SomePages
  <2>2. n + 0 = n
    BY <2>1
  <2>3. Pair(n + 0, n) \in KernelPairs /\ Pair(n + 0, n) \in TaskPairs
    BY DEF KernelPairs, TaskPairs, Moved
  <2>4. QED BY <2>2, <2>3
<1>4. \A v, p : Pair(v, p) \in KernelPairs => Pair(p, p) \in KernelPairs
  <2> SUFFICES ASSUME NEW v, NEW p, Pair(v, p) \in KernelPairs
               PROVE  Pair(p, p) \in KernelPairs
    OBVIOUS
  <2> DEFINE P == ToSet(Memory) \cup ToSet(KernelImage) \cup Pool \cup {Abar, NULL}
  <2>1. p \in Pages
    <3>1. Pair(v, p) \in [virt : Pages, phys : Pages]
      BY Layout
    <3>2. QED BY <3>1 DEF Pair
  <2>2. p \in P
    <3>1. \A q, x : Pair(v, p) = Pair(x, q) => p = q
      BY <1>0
    <3>2. QED BY <3>1 DEF KernelPairs, Moved
  <2>3. Pair(p + 0, p) \in KernelPairs
    BY <2>2 DEF KernelPairs, Moved
  <2>4. p + 0 = p
    BY <2>1, SomePages
  <2>5. QED BY <2>3, <2>4
<1>5. Pair(NULL, NULL) \in KernelPairs
  <2>1. Pair(NULL + 0, NULL) \in KernelPairs
    BY DEF KernelPairs, Moved
  <2>2. NULL + 0 = NULL
    BY DEF NULL
  <2>3. QED BY <2>1, <2>2
<1>6. Pair(Context, NULL) \in TaskPairs
  BY DEF TaskPairs
<1>7. QED BY <1>1, <1>2, <1>3, <1>4, <1>5, <1>6

\* What is laid out for the task is where what the program loses may be.
LEMMA LaidPlaced ==
    ASSUME Types
    PROVE  \A v, p : Pair(v, p) \in TaskPairs => Placed(v, p)
<1>1. buffer # NULL => buffer \in Pool
  BY DEF Types
<1>2. QED BY <1>1, LaidOut DEF Placed

\* The calls after a step within paging_map_page: those before, and perhaps one
\* for a table or for the registers of the driver.
LEMMA CallsAfter ==
    ASSUME Types, Owners, NEW place, Tree(place), Frames(place),
           Descend \/ AddTable \/ Install \/ SetLeaf \/ _ahci_driver_load_pci
    PROVE  /\ UNCHANGED <<pml4, own, buffer, todo>>
           /\ SetLeaf => DOMAIN stack' = DOMAIN stack \ {Len(stack)}
           /\ \A k \in DOMAIN stack' :
                 \/ /\ k \in DOMAIN stack
                    /\ stack'[k].virt = stack[k].virt /\ stack'[k].phys = stack[k].phys
                    /\ stack'[k].user = stack[k].user
                 \/ /\ stack'[k].virt \in Pool \cup {Abar} /\ stack'[k].phys = stack'[k].virt
                    /\ ~ stack'[k].user
<1>1. UNCHANGED <<pml4, own, buffer, todo>>
  BY DEF Descend, AddTable, Install, SetLeaf, _ahci_driver_load_pci, caller
<1>2. stack \in Seq(FrameSet) /\ DOMAIN stack = 1 .. Len(stack) /\ Len(stack) \in Nat
  BY DEF Types
<1>3. ASSUME NEW f \in FrameSet, stack # <<>>, f.virt = Top.virt, f.phys = Top.phys, f.user = Top.user,
             NEW r, r = [stack EXCEPT ![Len(stack)] = f]
      PROVE  /\ r \in Seq(FrameSet) /\ Len(r) = Len(stack) /\ DOMAIN r = DOMAIN stack
             /\ \A k \in DOMAIN r :
                   /\ r[k].virt = stack[k].virt /\ r[k].phys = stack[k].phys
                   /\ r[k].user = stack[k].user
  <2>1. /\ r \in Seq(FrameSet) /\ Len(r) = Len(stack) /\ DOMAIN r = DOMAIN stack /\ r[Len(stack)] = f
        /\ \A k \in DOMAIN stack : k # Len(stack) => r[k] = stack[k]
    BY <1>2, <1>3, OtherLast
  <2>2. Top = stack[Len(stack)]
    BY <1>2, <1>3, LastOfList DEF Top
  <2>3. QED BY <1>3, <2>1, <2>2
<1>4. ASSUME NEW r \in Seq(FrameSet), DOMAIN r = DOMAIN stack, Len(r) = Len(stack),
             \A k \in DOMAIN r :
                 /\ r[k].virt = stack[k].virt /\ r[k].phys = stack[k].phys
                 /\ r[k].user = stack[k].user,
             NEW n \in Pool \cup {Abar}, NEW x \in Spaces, stack' = Append(r, Frame(n, n, FALSE, x))
      PROVE  \A k \in DOMAIN stack' :
                 \/ /\ k \in DOMAIN stack
                    /\ stack'[k].virt = stack[k].virt /\ stack'[k].phys = stack[k].phys
                    /\ stack'[k].user = stack[k].user
                 \/ /\ stack'[k].virt \in Pool \cup {Abar} /\ stack'[k].phys = stack'[k].virt
                    /\ ~ stack'[k].user
  <2>1. PICK g : g = Frame(n, n, FALSE, x)
    OBVIOUS
  <2>2. g \in FrameSet /\ g.virt = n /\ g.phys = n /\ ~ g.user
    <3>1. FALSE \in BOOLEAN /\ n \in Pages
      BY SomePages
    <3>2. g \in FrameSet
      BY <2>1, <3>1, NewFrame
    <3>3. g.virt = n /\ g.phys = n /\ ~ g.user
      BY <2>1 DEF Frame
    <3>4. QED BY <3>2, <3>3
  <2>3. stack' = Append(r, g)
    BY <1>4, <2>1
  <2>4. /\ DOMAIN stack' = 1 .. Len(r) + 1 /\ DOMAIN r = 1 .. Len(r) /\ stack'[Len(r) + 1] = g
        /\ \A k \in 1 .. Len(r) : stack'[k] = r[k]
    BY <2>2, <2>3, OneMore
  <2>5. ASSUME NEW k \in DOMAIN stack'
        PROVE  \/ /\ k \in DOMAIN stack
                  /\ stack'[k].virt = stack[k].virt /\ stack'[k].phys = stack[k].phys
                  /\ stack'[k].user = stack[k].user
               \/ /\ stack'[k].virt \in Pool \cup {Abar} /\ stack'[k].phys = stack'[k].virt
                  /\ ~ stack'[k].user
    <3>1. k \in DOMAIN r \/ k = Len(r) + 1
      BY <1>2, <1>4, <2>4
    <3>2. CASE k \in DOMAIN r
      BY <1>4, <2>4, <3>2
    <3>3. CASE k = Len(r) + 1
      BY <2>2, <2>4, <3>3
    <3>4. QED BY <3>1, <3>2, <3>3
  <2>6. QED BY <2>5
<1>5. CASE Descend
  <2>1. stack # <<>> /\ Top.level < Levels /\ At(Top) \in DOMAIN table[Top.at]
    BY <1>5 DEF Descend, Above
  <2>2. Top \in FrameSet /\ Top.at \in DOMAIN table
    BY <2>1, TopFrame
  <2>3. PICK f, a : a = table[Top.at][At(Top)].at /\ f = Down(Top, a)
    OBVIOUS
  <2>4. a \in Pages
    BY <2>1, <2>2, <2>3 DEF Types, Entries
  <2>5. f \in FrameSet /\ f.virt = Top.virt /\ f.phys = Top.phys /\ f.user = Top.user
    BY <2>1, <2>2, <2>3, <2>4, OtherFrame
  <2>6. stack' = [stack EXCEPT ![Len(stack)] = f]
    BY <1>5, <2>3 DEF Descend, SetTop
  <2>7. ~ SetLeaf
    BY <2>1, SomePages DEF SetLeaf
  <2>8. QED BY <1>1, <1>3, <2>1, <2>5, <2>6, <2>7
<1>6. CASE AddTable
  <2>1. stack # <<>> /\ Top.level < Levels /\ free # {}
    BY <1>6 DEF AddTable, Above
  <2>2. Top \in FrameSet
    BY <2>1, TopFrame
  <2>3. PICK n : n = NextPage
    OBVIOUS
  <2>4. n \in Pages
    BY <2>1, <2>3, NextFree
  <2>5. PICK f : f = [Top EXCEPT !.new = n]
    OBVIOUS
  <2>6. f \in FrameSet /\ f.virt = Top.virt /\ f.phys = Top.phys /\ f.user = Top.user
    BY <2>2, <2>4, <2>5, OtherFrame
  <2>7. stack' = [stack EXCEPT ![Len(stack)] = f]
    BY <1>6, <2>3, <2>5 DEF AddTable, SetTop
  <2>8. ~ SetLeaf
    BY <2>1, SomePages DEF SetLeaf
  <2>9. QED BY <1>1, <1>3, <2>1, <2>6, <2>7, <2>8
<1>7. CASE Install
  <2>1. stack # <<>> /\ Top.level < Levels /\ Top.new # NULL
    BY <1>7 DEF Install, Above
  <2>2. Top \in FrameSet /\ Len(stack) \in DOMAIN stack /\ Top = stack[Len(stack)]
    BY <2>1, TopFrame
  <2>3. PICK n : n = Top.new
    OBVIOUS
  <2>4. n \in Pool /\ n \in Pages
    BY <2>1, <2>2, <2>3, SomePages DEF Frames, Loose, Types
  <2>5. PICK f : f = Down(Top, n)
    OBVIOUS
  <2>6. f \in FrameSet /\ f.virt = Top.virt /\ f.phys = Top.phys /\ f.user = Top.user
    BY <2>1, <2>2, <2>4, <2>5, OtherFrame
  <2>7. PICK r : r = [stack EXCEPT ![Len(stack)] = f]
    OBVIOUS
  <2>8. stack' = Append(r, Frame(n, n, FALSE, pml4)) /\ pml4 \in Spaces
    BY <1>7, <2>3, <2>5, <2>7 DEF Install, SetTop, Types
  <2>9. ~ SetLeaf
    BY <2>1, SomePages DEF SetLeaf
  <2>10. /\ r \in Seq(FrameSet) /\ Len(r) = Len(stack) /\ DOMAIN r = DOMAIN stack
         /\ \A k \in DOMAIN r :
               /\ r[k].virt = stack[k].virt /\ r[k].phys = stack[k].phys
               /\ r[k].user = stack[k].user
    BY <1>3, <2>1, <2>6, <2>7, ZenonT(30)
  <2>11. QED BY <1>1, <1>4, <2>4, <2>8, <2>9, <2>10
<1>8. CASE SetLeaf
  <2>1. stack # <<>> /\ stack' = Front(stack)
    BY <1>8 DEF SetLeaf
  <2>2. /\ Front(stack) \in Seq(FrameSet) /\ Len(Front(stack)) = Len(stack) - 1 /\ Len(stack) \in Nat \ {0}
        /\ \A k \in 1 .. Len(stack) - 1 : Front(stack)[k] = stack[k]
    BY <1>2, <2>1, LastOfList
  <2>3. DOMAIN stack' = 1 .. Len(stack) - 1
    BY <2>1, <2>2
  <2>4. DOMAIN stack' = DOMAIN stack \ {Len(stack)}
    BY <1>2, <2>2, <2>3
  <2>5. \A k \in DOMAIN stack' : k \in DOMAIN stack /\ stack'[k] = stack[k]
    BY <2>1, <2>2, <2>3, <2>4
  <2>6. QED BY <1>1, <2>4, <2>5
<1>9. CASE _ahci_driver_load_pci
  <2>1. stack' = Append(stack, Frame(Abar, Abar, FALSE, "kernel")) /\ "kernel" \in Spaces
    BY <1>9 DEF _ahci_driver_load_pci, Spaces
  <2>2. ~ SetLeaf
    <3>1. SetLeaf => loaded' = loaded
      BY DEF SetLeaf, caller
    <3>2. ~ loaded /\ loaded'
      BY <1>9 DEF _ahci_driver_load_pci
    <3>3. QED BY <3>1, <3>2
  <2>3. QED BY <1>1, <1>2, <1>4, <2>1, <2>2
<1>10. QED BY <1>5, <1>6, <1>7, <1>8, <1>9

\* SetLeaf: the address ORed to the one there is the one there, or there is none,
\* but where the program asked for a page upon another.
LEMMA SetLeafSets ==
    ASSUME Types, Owners, NEW place, Tree(place), Frames(place), SafeInv, SetLeaf,
           NEW w, w = Top.virt, NEW x, x = pml4
    PROVE  /\ x \in Spaces /\ w \in Pages /\ RightFor(x, w, Top.phys, Top.user)
           /\ Mapped(x, w)' /\ LeafEntry(x, w)'.user = Top.user
           /\ w \notin overlaid'[x] => LeafEntry(x, w)'.at = Top.phys
           /\ ~ Asked(x, w) => LeafEntry(x, w)'.at = Top.phys /\ overlaid' = overlaid
           /\ \A s \in Spaces : overlaid[s] \subseteq overlaid'[s]
           /\ \A s \in Spaces : overlaid'[s] \subseteq overlaid[s] \cup (IF s = x THEN {w} ELSE {})
           /\ \A s \in Spaces, v \in Pages : s # x \/ v # w => Stays(s, v)
<1>1. PICK o : o = IF Mapped(x, w) THEN LeafEntry(x, w).at ELSE NULL
  OBVIOUS
<1>2. /\ x \in Spaces /\ w \in Pages /\ o \in Pages
      /\ Mapped(x, w)' /\ LeafEntry(x, w)' = Entry(BitOr(o, Top.phys), Top.user)
      /\ overlaid' = Overlay(o)
      /\ \A s \in Spaces, v \in Pages : s # x \/ v # w => Stays(s, v)
  BY <1>1, SetLeafMaps
<1>3. stack # <<>>
  BY DEF SetLeaf
<1>4. Len(stack) \in DOMAIN stack /\ Top = stack[Len(stack)] /\ Top.phys \in Pages
  BY <1>3, TopFrame DEF FrameSet
<1>5. RightFor(x, w, Top.phys, Top.user)
  BY <1>4 DEF SafeInv, Mappings, CallsRight
<1>6. PICK e : e = LeafEntry(x, w)'
  OBVIOUS
<1>7. e.at = BitOr(o, Top.phys) /\ e.user = Top.user
  BY <1>2, <1>6 DEF Entry
<1>8. o \in {NULL, Top.phys} => e.at = Top.phys
  BY <1>4, <1>7, Ors
<1>9. overlaid \in [Spaces -> SUBSET Pages]
  BY DEF Types
<1>10. PICK new : new = IF o \in {NULL, Top.phys} THEN overlaid[x] ELSE overlaid[x] \cup {w}
  OBVIOUS
<1>11. overlaid' = [overlaid EXCEPT ![x] = new]
  BY <1>2, <1>10 DEF Overlay
<1>12. overlaid'[x] = new /\ \A s \in Spaces : s # x => overlaid'[s] = overlaid[s]
  BY <1>2, <1>9, <1>11
<1>13. o \in {NULL, Top.phys} => overlaid' = overlaid
  BY <1>9, <1>10, <1>11
<1>14. w \notin overlaid'[x] => e.at = Top.phys
  BY <1>8, <1>10, <1>12
<1>15. ~ Asked(x, w) => o \in {NULL, Top.phys}
  <2> SUFFICES ASSUME ~ Asked(x, w), Mapped(x, w) PROVE o = Top.phys
    BY <1>1
  <2>1. Right(x, w, o) /\ Right(x, w, Top.phys)
    BY <1>1, <1>2, <1>5 DEF SafeInv, Mappings, MapsRight, RightFor
  <2>2. Pair(w, o) \in Pairs(x) /\ Pair(w, Top.phys) \in Pairs(x)
    BY <2>1 DEF Right
  <2>3. QED BY <1>2, <2>2, LaidOut
<1>16. \A s \in Spaces : overlaid[s] \subseteq overlaid'[s]
  BY <1>10, <1>12
<1>17. \A s \in Spaces : overlaid'[s] \subseteq overlaid[s] \cup (IF s = x THEN {w} ELSE {})
  BY <1>10, <1>12
<1>18. QED BY <1>2, <1>5, <1>6, <1>7, <1>8, <1>13, <1>14, <1>15, <1>16, <1>17

\* Within paging_map_page, and when the driver's call begins.
LEMMA WithinSafe ==
    ASSUME Types, Owners, NEW place, Tree(place), Frames(place), SafeInv,
           Descend \/ AddTable \/ Install \/ SetLeaf \/ _ahci_driver_load_pci
    PROVE  SafeInv'
<1>1. /\ UNCHANGED <<pml4, own, buffer, todo>>
      /\ SetLeaf => DOMAIN stack' = DOMAIN stack \ {Len(stack)}
      /\ \A k \in DOMAIN stack' :
            \/ /\ k \in DOMAIN stack
               /\ stack'[k].virt = stack[k].virt /\ stack'[k].phys = stack[k].phys
               /\ stack'[k].user = stack[k].user
            \/ /\ stack'[k].virt \in Pool \cup {Abar} /\ stack'[k].phys = stack'[k].virt
               /\ ~ stack'[k].user
  BY CallsAfter
<1>2. MapsRight /\ CallsRight /\ TodoRight /\ OverlaidAsked /\ Usable /\ pml4 \in Spaces
  BY DEF SafeInv, Mappings, Types
<1>3. \A s, v, p : Right(s, v, p)' <=> Right(s, v, p)
  BY <1>1 DEF Right, Asked, Pairs
<1>4. /\ \A v, p : Placed(v, p)' <=> Placed(v, p)
      /\ \A s, v, p, u : RightFor(s, v, p, u)' <=> RightFor(s, v, p, u)
  BY <1>1, <1>3 DEF RightFor, Placed
<1>5. ~ SetLeaf => \A s \in Spaces, v \in Pages : Remains(s, v)
  BY AboveStays, InstallRemains, OthersStay DEF Stays
<1>6. CallsRight'
  <2> SUFFICES ASSUME NEW k \in DOMAIN stack'
               PROVE  (RightFor(pml4, stack[k].virt, stack[k].phys, stack[k].user))'
    BY DEF CallsRight
  <2>1. PICK x, v, p, u : x = pml4 /\ v = stack'[k].virt /\ p = stack'[k].phys /\ u = stack'[k].user
    OBVIOUS
  <2>2. RightFor(x, v, p, u)
    <3>1. CASE k \in DOMAIN stack /\ v = stack[k].virt /\ p = stack[k].phys /\ u = stack[k].user
      BY <1>2, <2>1, <3>1 DEF CallsRight
    <3>2. CASE v \in Pool \cup {Abar} /\ p = v /\ ~ u
      BY <1>2, <2>1, <3>2, LaidOut DEF RightFor, Right, Asked
    <3>3. QED BY <1>1, <2>1, <3>1, <3>2
  <2>3. RightFor(x, v, p, u)'
    BY <1>4, <2>2
  <2>4. QED BY <1>1, <2>1, <2>3
<1>7. TodoRight'
  BY <1>1, <1>2, <1>4 DEF TodoRight, OpRight
<1>8. MapsRight'
  <2> SUFFICES ASSUME NEW s \in Spaces, NEW v \in Pages, Mapped(s, v)'
               PROVE  Right(s, v, LeafEntry(s, v).at)'
    BY DEF MapsRight
  <2>1. PICK p : p = LeafEntry(s, v)'.at
    OBVIOUS
  <2>2. Right(s, v, p)
    <3>1. CASE Remains(s, v)
      BY <1>2, <2>1, <3>1 DEF Remains, MapsRight
    <3>2. CASE ~ Remains(s, v)
      <4>1. SetLeaf
        BY <1>5, <3>2
      <4>2. PICK x, w : x = pml4 /\ w = Top.virt
        OBVIOUS
      <4>3. /\ RightFor(x, w, Top.phys, Top.user)
            /\ ~ Asked(x, w) => LeafEntry(x, w)'.at = Top.phys
            /\ s = x /\ v = w
        BY <3>2, <4>1, <4>2, SetLeafSets DEF Stays
      <4>4. ~ Asked(s, v) => p = Top.phys
        BY <2>1, <4>3
      <4>5. QED BY <4>3, <4>4 DEF RightFor, Right
    <3>3. QED BY <3>1, <3>2
  <2>3. Right(s, v, p)'
    BY <1>3, <2>2
  <2>4. QED BY <2>1, <2>3
<1>9. \A t \in Spaces : overlaid[t] \subseteq overlaid'[t]
  <2>1. CASE SetLeaf
    BY <2>1, SetLeafSets
  <2>2. CASE ~ SetLeaf
    <3>1. overlaid' = overlaid
      BY <2>2 DEF Descend, AddTable, Install, _ahci_driver_load_pci
    <3>2. QED BY <3>1
  <2>3. QED BY <2>1, <2>2
<1>10. Usable'
  <2> SUFFICES ASSUME NEW v \in Pages, v \notin overlaid'["task"],
                      (Mapped("task", v) /\ LeafEntry("task", v).user)'
               PROVE  (/\ Placed(v, LeafEntry("task", v).at)
                       /\ \/ LeafEntry("task", v).at \in own
                          \/ pml4 = "task" /\ \E i \in DOMAIN todo :
                                 todo[i].kind = "unmap" /\ todo[i].virt = v)'
    BY DEF Usable
  <2>0. "task" \in Spaces
    BY DEF Spaces
  <2>1. PICK p : p = LeafEntry("task", v)'.at
    OBVIOUS
  <2>2. /\ Placed(v, p)
        /\ \/ p \in own
           \/ pml4 = "task" /\ \E i \in DOMAIN todo : todo[i].kind = "unmap" /\ todo[i].virt = v
    <3>1. CASE Remains("task", v)
      <4>1. Mapped("task", v) /\ LeafEntry("task", v)' = LeafEntry("task", v)
        BY <3>1 DEF Remains
      <4>2. v \notin overlaid["task"] /\ LeafEntry("task", v).user /\ p = LeafEntry("task", v).at
        BY <1>9, <2>0, <2>1, <4>1
      <4>3. QED BY <1>2, <4>1, <4>2 DEF Usable
    <3>2. CASE ~ Remains("task", v)
      <4>1. SetLeaf
        BY <1>5, <2>0, <3>2
      <4>2. PICK x, w : x = pml4 /\ w = Top.virt
        OBVIOUS
      <4>3. /\ RightFor(x, w, Top.phys, Top.user) /\ LeafEntry(x, w)'.user = Top.user
            /\ w \notin overlaid'[x] => LeafEntry(x, w)'.at = Top.phys
            /\ "task" = x /\ v = w
        BY <2>0, <3>2, <4>1, <4>2, SetLeafSets DEF Stays
      <4>4. p = Top.phys /\ Top.user
        BY <2>1, <4>3
      <4>5. QED BY <4>3, <4>4 DEF RightFor
    <3>3. QED BY <3>1, <3>2
  <2>3. Placed(v, p)'
    BY <1>4, <2>2
  <2>4. QED BY <1>1, <2>1, <2>2, <2>3
<1>11. OverlaidAsked'
  <2>1. CASE SetLeaf
    <3>1. PICK x, w : x = pml4 /\ w = Top.virt
      OBVIOUS
    <3>2. ~ Asked(x, w) => overlaid' = overlaid
      BY <2>1, <3>1, SetLeafSets
    <3>3. \A s \in Spaces : overlaid'[s] \subseteq overlaid[s] \cup (IF s = x THEN {w} ELSE {})
      BY <2>1, <3>1, SetLeafSets
    <3>4. QED BY <1>2, <3>2, <3>3 DEF OverlaidAsked, Asked, Spaces
  <2>2. CASE ~ SetLeaf
    <3>1. overlaid' = overlaid
      BY <2>2 DEF Descend, AddTable, Install, _ahci_driver_load_pci
    <3>2. QED BY <1>2, <3>1 DEF OverlaidAsked
  <2>3. QED BY <2>1, <2>2
<1>12. QED BY <1>6, <1>7, <1>8, <1>10, <1>11 DEF SafeInv, Mappings

\* What is left to be done stays right, when the first of it begins.
LEMMA RestRight ==
    ASSUME Types, todo # <<>>, todo' = Tail(todo), UNCHANGED <<pml4, own, buffer>>, TodoRight
    PROVE  /\ TodoRight' /\ 1 \in DOMAIN todo /\ Head(todo) = todo[1] /\ Head(todo) \in Ops
           /\ \A i \in DOMAIN todo' : i + 1 \in DOMAIN todo /\ i + 1 # 1 /\ todo'[i] = todo[i + 1]
           /\ \A i \in DOMAIN todo : i # 1 => i - 1 \in DOMAIN todo' /\ todo'[i - 1] = todo[i]
<1>1. PICK t : t = Tail(todo)
  OBVIOUS
<1>2. /\ Head(todo) \in Ops /\ Head(todo) = todo[1] /\ t \in Seq(Ops)
      /\ Len(todo) \in Nat \ {0} /\ DOMAIN todo = 1 .. Len(todo)
      /\ Len(t) = Len(todo) - 1 /\ DOMAIN t = 1 .. Len(todo) - 1
      /\ \A i \in 1 .. Len(todo) - 1 : t[i] = todo[i + 1] /\ i + 1 \in DOMAIN todo
  <2>1. todo \in Seq(Ops)
    BY DEF Types
  <2>2. QED BY <1>1, <2>1, FirstOp
<1>3. todo' = t
  BY <1>1
<1>4. \A i \in DOMAIN todo' : i + 1 \in DOMAIN todo /\ i + 1 # 1 /\ todo'[i] = todo[i + 1]
  BY <1>2, <1>3
<1>5. \A i \in DOMAIN todo : i # 1 => i - 1 \in DOMAIN todo' /\ todo'[i - 1] = todo[i]
  <2> SUFFICES ASSUME NEW i \in DOMAIN todo, i # 1
               PROVE  i - 1 \in DOMAIN todo' /\ todo'[i - 1] = todo[i]
    OBVIOUS
  <2>1. i - 1 \in 1 .. Len(todo) - 1 /\ (i - 1) + 1 = i
    BY <1>2
  <2>2. QED BY <1>2, <1>3, <2>1
<1>6. \A o : OpRight(o) => OpRight(o)'
  BY DEF OpRight, RightFor, Right, Placed, Asked, Pairs
<1>7. TodoRight'
  BY <1>4, <1>6 DEF TodoRight
<1>8. 1 \in DOMAIN todo
  BY <1>2
<1>9. QED BY <1>2, <1>4, <1>5, <1>7, <1>8

\* A call of paging_map_page begins.
LEMMA BeginSafe ==
    ASSUME Types, Owners, NEW place, Tree(place), Frames(place), SafeInv, Begin
    PROVE  SafeInv'
<1>1. MapsRight /\ CallsRight /\ TodoRight /\ OverlaidAsked /\ Usable /\ pml4 \in Spaces
  BY DEF SafeInv, Mappings, Types
<1>2. /\ stack = <<>> /\ todo # <<>> /\ todo' = Tail(todo)
      /\ UNCHANGED <<pml4, own, buffer, root, table, overlaid>>
  BY DEF Begin, caller
<1>3. /\ TodoRight' /\ 1 \in DOMAIN todo /\ Head(todo) = todo[1] /\ Head(todo) \in Ops
      /\ \A i \in DOMAIN todo' : i + 1 \in DOMAIN todo /\ i + 1 # 1 /\ todo'[i] = todo[i + 1]
      /\ \A i \in DOMAIN todo : i # 1 => i - 1 \in DOMAIN todo' /\ todo'[i - 1] = todo[i]
  BY <1>1, <1>2, RestRight
<1>4. PICK o : o = Head(todo)
  OBVIOUS
<1>5. /\ o \in Ops /\ o.virt \in Pages /\ o.phys \in Pages /\ o.user \in BOOLEAN
      /\ OpRight(o) /\ o.kind # "unmap"
  BY <1>1, <1>3, <1>4 DEF TodoRight, Ops, Begin
<1>6. PICK p : p = IF o.kind = "map" THEN o.phys ELSE paging_walk_page(pml4, o.virt)
  OBVIOUS
<1>7. p \in Pages
  BY <1>1, <1>5, <1>6, WalkPages
<1>8. PICK f : f = Frame(o.virt, p, o.user, pml4)
  OBVIOUS
<1>9. f.virt = o.virt /\ f.phys = p /\ f.user = o.user
  BY <1>8 DEF Frame
<1>10. stack' = <<f>> /\ DOMAIN stack' = {1} /\ stack'[1] = f
  BY <1>4, <1>6, <1>8 DEF Begin
<1>11. \A s \in Spaces, v \in Pages : Remains(s, v)
  BY OthersStay DEF Stays
<1>12. RightFor(pml4, f.virt, f.phys, f.user)
  <2>1. CASE o.kind = "map"
    BY <1>5, <1>6, <1>9, <2>1 DEF OpRight
  <2>2. CASE o.kind # "map"
    <3>1. o.virt = Context /\ ~ o.user /\ pml4 = "task"
      BY <1>5, <2>2 DEF OpRight, Ops
    <3>2. Right("task", Context, p)
      <4>1. CASE Mapped("task", Context)
        <5>1. p = LeafEntry("task", Context).at /\ Context \in Pages
          BY <1>1, <1>5, <1>6, <2>2, <3>1, <4>1, WalkPages
        <5>2. QED BY <1>1, <3>1, <4>1, <5>1 DEF MapsRight
      <4>2. CASE ~ Mapped("task", Context)
        <5>1. p = NULL
          BY <1>6, <2>2, <3>1, <4>2 DEF paging_walk_page
        <5>2. QED BY <5>1, LaidOut DEF Right, Asked, Pairs
      <4>3. QED BY <4>1, <4>2
    <3>3. QED BY <1>9, <3>1, <3>2 DEF RightFor
  <2>3. QED BY <2>1, <2>2
<1>13. /\ \A v, q : Placed(v, q) => Placed(v, q)'
       /\ \A s, v, q, u : RightFor(s, v, q, u) => RightFor(s, v, q, u)'
  BY <1>2 DEF RightFor, Right, Placed, Asked, Pairs
<1>14. CallsRight'
  BY <1>2, <1>10, <1>12, <1>13 DEF CallsRight
<1>15. MapsRight'
  <2>1. \A s, v, q : Right(s, v, q) => Right(s, v, q)'
    BY <1>2 DEF Right, Asked, Pairs
  <2>2. QED BY <1>1, <1>11, <2>1 DEF MapsRight, Remains
<1>16. OverlaidAsked'
  BY <1>1, <1>2 DEF OverlaidAsked
<1>17. Usable'
  <2> SUFFICES ASSUME NEW v \in Pages, v \notin overlaid'["task"],
                      (Mapped("task", v) /\ LeafEntry("task", v).user)'
               PROVE  (/\ Placed(v, LeafEntry("task", v).at)
                       /\ \/ LeafEntry("task", v).at \in own
                          \/ pml4 = "task" /\ \E i \in DOMAIN todo :
                                 todo[i].kind = "unmap" /\ todo[i].virt = v)'
    BY DEF Usable
  <2>1. PICK q : q = LeafEntry("task", v)'.at
    OBVIOUS
  <2>2. /\ Mapped("task", v) /\ LeafEntry("task", v)' = LeafEntry("task", v)
        /\ v \notin overlaid["task"]
    BY <1>2, <1>11 DEF Remains, Spaces
  <2>3. LeafEntry("task", v).user /\ q = LeafEntry("task", v).at
    BY <2>1, <2>2
  <2>4. /\ Placed(v, q)
        /\ \/ q \in own
           \/ pml4 = "task" /\ \E i \in DOMAIN todo : todo[i].kind = "unmap" /\ todo[i].virt = v
    BY <1>1, <2>2, <2>3 DEF Usable
  <2>5. Placed(v, q)'
    BY <1>13, <2>4
  <2>6. CASE q \in own
    BY <1>2, <2>1, <2>5, <2>6
  <2>7. CASE q \notin own
    <3>1. PICK i \in DOMAIN todo : todo[i].kind = "unmap" /\ todo[i].virt = v
      BY <2>4, <2>7
    <3>2. pml4 = "task"
      BY <2>4, <2>7
    <3>3. i # 1
      BY <1>3, <1>4, <1>5, <3>1
    <3>4. i - 1 \in DOMAIN todo' /\ todo'[i - 1] = todo[i]
      BY <1>3, <3>3
    <3>5. QED BY <1>2, <2>1, <2>5, <3>1, <3>2, <3>4
  <2>8. QED BY <2>6, <2>7
<1>18. QED BY <1>3, <1>14, <1>15, <1>16, <1>17 DEF SafeInv, Mappings

\* A step between calls of paging_map_page: what was mapped may go, nothing is
\* added to it.
LEMMA BetweenSafe ==
    ASSUME SafeInv, stack' = <<>>, \A s \in Spaces, v \in Pages : Remains(s, v),
           TodoRight', OverlaidAsked',
           \A v \in Pages \ overlaid'["task"] : \A p :
               Mapped("task", v)' /\ LeafEntry("task", v).user /\ LeafEntry("task", v).at = p =>
                   /\ Placed(v, p)'
                   /\ \/ p \in own'
                      \/ pml4' = "task" /\ \E i \in DOMAIN todo' :
                             todo'[i].kind = "unmap" /\ todo'[i].virt = v
    PROVE  SafeInv'
<1>1. DOMAIN stack' = {}
  OBVIOUS
<1>2. MapsRight'
  <2>1. \A s, v, p : Right(s, v, p) => Right(s, v, p)'
    BY DEF Right, Asked, Pairs
  <2>2. QED BY <2>1 DEF SafeInv, Mappings, MapsRight, Remains
<1>3. CallsRight'
  BY <1>1 DEF CallsRight
<1>4. Usable'
  <2> SUFFICES ASSUME NEW v \in Pages, v \notin overlaid'["task"],
                      (Mapped("task", v) /\ LeafEntry("task", v).user)'
               PROVE  (/\ Placed(v, LeafEntry("task", v).at)
                       /\ \/ LeafEntry("task", v).at \in own
                          \/ pml4 = "task" /\ \E i \in DOMAIN todo :
                                 todo[i].kind = "unmap" /\ todo[i].virt = v)'
    BY DEF Usable
  <2>1. PICK p : p = LeafEntry("task", v)'.at
    OBVIOUS
  <2>2. LeafEntry("task", v)' = LeafEntry("task", v)
    BY DEF Remains, Spaces
  <2>3. QED BY <2>1, <2>2
<1>5. QED BY <1>2, <1>3, <1>4 DEF SafeInv, Mappings

\* paging_unmap_page.
LEMMA UnmapSafe ==
    ASSUME Types, Owners, NEW place, Tree(place), Frames(place), SafeInv, paging_unmap_page
    PROVE  SafeInv'
<1>1. MapsRight /\ CallsRight /\ TodoRight /\ OverlaidAsked /\ Usable /\ pml4 \in Spaces
  BY DEF SafeInv, Mappings, Types
<1>2. /\ stack = <<>> /\ stack' = stack /\ todo # <<>> /\ todo' = Tail(todo)
      /\ UNCHANGED <<pml4, own, buffer>>
  BY DEF paging_unmap_page, caller
<1>3. /\ TodoRight' /\ 1 \in DOMAIN todo /\ Head(todo) = todo[1] /\ Head(todo) \in Ops
      /\ \A i \in DOMAIN todo' : i + 1 \in DOMAIN todo /\ i + 1 # 1 /\ todo'[i] = todo[i + 1]
      /\ \A i \in DOMAIN todo : i # 1 => i - 1 \in DOMAIN todo' /\ todo'[i - 1] = todo[i]
  BY <1>1, <1>2, RestRight
<1>4. PICK w, x : w = Head(todo).virt /\ x = pml4
  OBVIOUS
<1>5. /\ x \in Spaces /\ w \in Pages /\ ~ Mapped(x, w)'
      /\ \A s \in Spaces, v \in Pages : s # x \/ v # w => Stays(s, v)
  BY <1>4, UnmapUnmaps
<1>6. \A s \in Spaces, v \in Pages : Remains(s, v)
  BY <1>5 DEF Stays, Remains
<1>7. /\ \A s \in Spaces : overlaid'[s] = IF s = x THEN overlaid[s] \ {w} ELSE overlaid[s]
      /\ overlaid \in [Spaces -> SUBSET Pages] /\ "task" \in Spaces /\ "kernel" \in Spaces
  <2>1. overlaid \in [Spaces -> SUBSET Pages] /\ "task" \in Spaces /\ "kernel" \in Spaces
    BY DEF Types, Spaces
  <2>2. overlaid' = [overlaid EXCEPT ![x] = @ \ {w}]
    BY <1>4 DEF paging_unmap_page
  <2>3. QED BY <1>5, <2>1, <2>2
<1>8. OverlaidAsked'
  BY <1>1, <1>7 DEF OverlaidAsked
<1>9. ASSUME NEW v \in Pages, v \notin overlaid'["task"], NEW p,
             Mapped("task", v)', LeafEntry("task", v).user, LeafEntry("task", v).at = p
      PROVE  /\ Placed(v, p)'
             /\ \/ p \in own'
                \/ pml4' = "task" /\ \E i \in DOMAIN todo' :
                       todo'[i].kind = "unmap" /\ todo'[i].virt = v
  <2>1. Mapped("task", v)
    BY <1>6, <1>7, <1>9 DEF Remains
  <2>2. "task" = x => v # w
    BY <1>5, <1>9
  <2>3. v \notin overlaid["task"]
    BY <1>7, <1>9, <2>2
  <2>4. /\ Placed(v, p)
        /\ \/ p \in own
           \/ pml4 = "task" /\ \E i \in DOMAIN todo : todo[i].kind = "unmap" /\ todo[i].virt = v
    BY <1>1, <1>9, <2>1, <2>3 DEF Usable
  <2>5. Placed(v, p)'
    BY <1>2, <2>4 DEF Placed
  <2>6. CASE p \in own
    BY <1>2, <2>5, <2>6
  <2>7. CASE p \notin own
    <3>1. PICK i \in DOMAIN todo : todo[i].kind = "unmap" /\ todo[i].virt = v
      BY <2>4, <2>7
    <3>2. i # 1
      BY <1>3, <1>4, <2>2, <2>4, <2>7, <3>1
    <3>3. i - 1 \in DOMAIN todo' /\ todo'[i - 1] = todo[i]
      BY <1>3, <3>2
    <3>4. QED BY <1>2, <2>4, <2>5, <2>7, <3>1, <3>3
  <2>8. QED BY <2>6, <2>7
<1>10. stack' = <<>>
  BY <1>2
<1>11. QED BY <1>3, <1>6, <1>8, <1>9, <1>10, BetweenSafe

\* With nothing left to be unmapped, what the program may use is its own.
LEMMA Settled ==
    ASSUME SafeInv, todo = <<>>
    PROVE  \A v \in Pages \ overlaid["task"] : Mapped("task", v) /\ LeafEntry("task", v).user =>
               Placed(v, LeafEntry("task", v).at) /\ LeafEntry("task", v).at \in own
<1>1. DOMAIN todo = {}
  OBVIOUS
<1>2. QED BY <1>1 DEF SafeInv, Usable

\* A system call begins: what it has to do is right, and what it takes away is
\* to be unmapped where it was lent.
LEMMA AskedSafe ==
    ASSUME Types, Owners, SafeInv, call = Idle, stack = <<>>, stack' = stack, overlaid' = overlaid,
           \A s \in Spaces, v \in Pages : Remains(s, v),
           TodoRight',
           \A v \in Pages : \A p \in own : Placed(v, p) => Placed(v, p)',
           \A v \in Pages : \A p \in own \ own' : Placed(v, p) =>
               pml4' = "task" /\ \E i \in DOMAIN todo' : todo'[i].kind = "unmap" /\ todo'[i].virt = v
    PROVE  SafeInv'
<1>1. todo = <<>> /\ "task" \in Spaces
  BY DEF Owners, Spaces
<1>2. \A v \in Pages : Mapped("task", v)' => Mapped("task", v)
  BY <1>1 DEF Remains
<1>3. \A v \in Pages \ overlaid["task"] : Mapped("task", v) /\ LeafEntry("task", v).user =>
          Placed(v, LeafEntry("task", v).at) /\ LeafEntry("task", v).at \in own
  BY <1>1, Settled
<1>4. ASSUME NEW v \in Pages, v \notin overlaid'["task"], NEW p,
             Mapped("task", v)', LeafEntry("task", v).user, LeafEntry("task", v).at = p
      PROVE  /\ Placed(v, p)'
             /\ \/ p \in own'
                \/ pml4' = "task" /\ \E i \in DOMAIN todo' :
                       todo'[i].kind = "unmap" /\ todo'[i].virt = v
  <2>1. Placed(v, p) /\ p \in own
    BY <1>2, <1>3, <1>4
  <2>2. QED BY <2>1
<1>5. OverlaidAsked'
  BY DEF SafeInv, OverlaidAsked
<1>6. stack' = <<>>
  OBVIOUS
<1>7. QED BY <1>4, <1>5, <1>6, BetweenSafe

\* pmap, and kb_man taking a page.
LEMMA GivenSafe ==
    ASSUME Types, Owners, NEW place, Tree(place), Frames(place), SafeInv,
           (\E asked \in UserVirts \cup {NULL} : pmap(asked)) \/ kb_man_take
    PROVE  SafeInv'
<1>1. PICK n : n = NextPage
  OBVIOUS
<1>2. /\ call = Idle /\ stack = <<>> /\ stack' = stack /\ free # {} /\ own' = own \cup {n}
      /\ pml4' = "task" /\ (buffer' = buffer \/ buffer' = n) /\ overlaid' = overlaid
  BY <1>1 DEF pmap, kb_man_take, Syscall, Ready
<1>3. n \in Pool /\ n \in Pages /\ n \notin own /\ n # NULL
  BY <1>1, <1>2, NextFree DEF Owners
<1>4. n # buffer /\ n \notin ToSet(Framebuffer)
  BY <1>3, Taken DEF Owners
<1>5. \A s \in Spaces, v \in Pages : Remains(s, v)
  <2>1. Call
    BY DEF Call
  <2>2. QED BY <2>1, OthersStay DEF Stays
<1>6. \A v \in Pages : \A p \in own : Placed(v, p) => Placed(v, p)'
  BY <1>2, <1>3 DEF Placed
<1>7. PICK w : /\ todo' = <<MapOp(w, n, TRUE)>>
               /\ w = n \/ (w \in UserVirts /\ buffer' = buffer)
  <2>1. CASE kb_man_take
    BY <1>1, <2>1 DEF kb_man_take, Syscall
  <2>2. ASSUME NEW asked \in UserVirts \cup {NULL}, pmap(asked)
        PROVE  \E w : /\ todo' = <<MapOp(w, n, TRUE)>>
                      /\ w = n \/ (w \in UserVirts /\ buffer' = buffer)
    <3>1. PICK w : w = IF asked = NULL THEN n ELSE asked
      OBVIOUS
    <3>2. todo' = <<MapOp(w, n, TRUE)>> /\ buffer' = buffer
      BY <1>1, <2>2, <3>1 DEF pmap, Syscall
    <3>3. w = n \/ w \in UserVirts
      BY <3>1
    <3>4. QED BY <3>2, <3>3
  <2>3. QED BY <2>1, <2>2
<1>8. PICK o : o = MapOp(w, n, TRUE)
  OBVIOUS
<1>9. o.kind = "map" /\ o.virt = w /\ o.phys = n /\ o.user
  BY <1>8 DEF MapOp
<1>10. todo' = <<o>> /\ DOMAIN todo' = {1} /\ todo'[1] = o
  BY <1>7, <1>8
<1>11. Right("task", w, n)'
  <2>1. CASE w = n
    <3>1. Pair(w, n) \in TaskPairs
      BY <1>3, <2>1, LaidOut DEF Pairs, Spaces
    <3>2. QED BY <3>1 DEF Right, Pairs
  <2>2. CASE w \in UserVirts
    BY <2>2 DEF Right, Asked
  <2>3. QED BY <1>7, <2>1, <2>2
<1>12. Placed(w, n)'
  BY <1>4, <1>7 DEF Placed
<1>13. TodoRight'
  <2>1. OpRight(o)'
    BY <1>2, <1>9, <1>11, <1>12 DEF OpRight, RightFor
  <2>2. QED BY <1>10, <2>1 DEF TodoRight
<1>14. own \ own' = {}
  BY <1>2
<1>15. QED BY <1>2, <1>5, <1>6, <1>13, <1>14, AskedSafe

\* punmap: what it maps in the kernel's space is mapped there.
LEMMA PunmapSafe ==
    ASSUME Types, Owners, NEW place, Tree(place), Frames(place), SafeInv,
           NEW virt \in UserVirts \cup (own \cap Pool), punmap(virt)
    PROVE  SafeInv'
<1>1. PICK p : p = paging_walk_page("kernel", virt)
  OBVIOUS
<1>2. virt \in Pages /\ "kernel" \in Spaces
  BY SomePages DEF Spaces
<1>3. PICK x, y : x = UnmapOp(virt) /\ y = MapOp(p, p, FALSE)
  OBVIOUS
<1>4. x.kind = "unmap" /\ y.kind = "map" /\ y.virt = p /\ y.phys = p /\ ~ y.user
  <2>1. p \in Pages /\ FALSE \in BOOLEAN
    BY <1>1, <1>2, WalkPages
  <2>2. QED BY <1>2, <1>3, <2>1, OneOp DEF MapOp
<1>5. /\ call = Idle /\ stack = <<>> /\ stack' = stack /\ pml4' = "kernel"
      /\ todo' = <<x, y>> /\ UNCHANGED <<own, buffer, overlaid>>
  BY <1>1, <1>3 DEF punmap, Syscall, Ready
<1>6. \A s \in Spaces, v \in Pages : Remains(s, v)
  <2>1. Call
    BY DEF Call
  <2>2. QED BY <2>1, OthersStay DEF Stays
<1>7. \A v, q : Placed(v, q) => Placed(v, q)'
  BY <1>5 DEF Placed
<1>8. Pair(p, p) \in KernelPairs
  <2>1. CASE Mapped("kernel", virt)
    <3>1. p = LeafEntry("kernel", virt).at
      BY <1>1, <1>2, <2>1, WalkPages
    <3>2. Right("kernel", virt, p)
      BY <1>2, <2>1, <3>1 DEF SafeInv, Mappings, MapsRight
    <3>3. Pair(virt, p) \in KernelPairs
      BY <3>2 DEF Right, Asked, Pairs
    <3>4. QED BY <3>3, LaidOut
  <2>2. CASE ~ Mapped("kernel", virt)
    BY <1>1, <2>2, LaidOut DEF paging_walk_page
  <2>3. QED BY <2>1, <2>2
<1>9. TodoRight'
  <2>1. OpRight(x)'
    BY <1>4 DEF OpRight
  <2>2. OpRight(y)'
    BY <1>4, <1>5, <1>8 DEF OpRight, RightFor, Right, Asked, Pairs
  <2>3. DOMAIN todo' = {1, 2} /\ todo'[1] = x /\ todo'[2] = y
    BY <1>5
  <2>4. QED BY <2>1, <2>2, <2>3 DEF TodoRight
<1>10. own \ own' = {}
  BY <1>5
<1>11. QED BY <1>5, <1>6, <1>7, <1>9, <1>10, AskedSafe

\* fb_req.
LEMMA LentSafe ==
    ASSUME Types, Owners, NEW place, Tree(place), Frames(place), SafeInv, fb_req
    PROVE  SafeInv'
<1>1. PICK ops : ops = Shifted(Framebuffer, VirtualOffset, TRUE)
  OBVIOUS
<1>2. /\ call = Idle /\ stack = <<>> /\ stack' = stack /\ pml4' = "task"
      /\ todo' = ops /\ own' = own \cup ToSet(Framebuffer) /\ UNCHANGED <<buffer, overlaid>>
  BY <1>1 DEF fb_req, Syscall, Ready
<1>3. \A s \in Spaces, v \in Pages : Remains(s, v)
  <2>1. Call
    BY DEF Call
  <2>2. QED BY <2>1, OthersStay DEF Stays
<1>4. \A v, q : Placed(v, q) => Placed(v, q)'
  BY <1>2 DEF Placed
<1>5. \A i \in DOMAIN ops : ops[i] \in Lent
  <2>1. ops \in Seq(Lent)
    BY <1>1, FramebufferLists
  <2>2. QED BY <2>1
<1>6. \A i \in DOMAIN ops : OpRight(ops[i])'
  <2> SUFFICES ASSUME NEW i \in DOMAIN ops PROVE OpRight(ops[i])'
    OBVIOUS
  <2>1. PICK o : o = ops[i]
    OBVIOUS
  <2>2. o.kind = "map" /\ Pair(o.virt, o.phys) \in TaskPairs /\ o.phys \in ToSet(Framebuffer)
    BY <1>5, <2>1 DEF Lent
  <2>3. Placed(o.virt, o.phys)'
    BY <1>4, <2>2, LaidPlaced
  <2>4. OpRight(o)'
    BY <1>2, <2>2, <2>3 DEF OpRight, RightFor, Right, Pairs
  <2>5. QED BY <2>1, <2>4
<1>7. TodoRight'
  BY <1>2, <1>6 DEF TodoRight
<1>8. own \ own' = {}
  BY <1>2
<1>9. QED BY <1>2, <1>3, <1>4, <1>7, <1>8, AskedSafe

\* fb_kill, and kb_man giving the page back.
LEMMA TakenSafe ==
    ASSUME Types, Owners, NEW place, Tree(place), Frames(place), SafeInv, fb_kill \/ kb_man_give
    PROVE  SafeInv'
<1>1. call = Idle /\ stack = <<>> /\ stack' = stack /\ pml4' = "task" /\ overlaid' = overlaid
  BY DEF fb_kill, kb_man_give, Syscall, Ready
<1>2. \A s \in Spaces, v \in Pages : Remains(s, v)
  <2>1. Call
    BY DEF Call
  <2>2. QED BY <2>1, OthersStay DEF Stays
<1>3. CASE fb_kill
  <2>1. PICK ops : ops = [i \in DOMAIN Framebuffer |-> UnmapOp(Framebuffer[i] + VirtualOffset)]
    OBVIOUS
  <2>2. todo' = ops /\ own' = own \ ToSet(Framebuffer) /\ buffer' = buffer
    BY <1>3, <2>1 DEF fb_kill, Syscall
  <2>3. \A v, q : Placed(v, q) => Placed(v, q)'
    BY <2>2 DEF Placed
  <2>4. \A i \in DOMAIN ops : ops[i].kind = "unmap"
    <3>1. ops \in Seq(Gone)
      BY <2>1, FramebufferLists
    <3>2. \A i \in DOMAIN ops : ops[i] \in Gone
      BY <3>1
    <3>3. QED BY <3>2 DEF Gone
  <2>5. TodoRight'
    BY <2>2, <2>4 DEF TodoRight, OpRight
  <2>6. ASSUME NEW v \in Pages, NEW p \in own \ own', Placed(v, p)
        PROVE  \E i \in DOMAIN todo' : todo'[i].kind = "unmap" /\ todo'[i].virt = v
    <3>1. p \in ToSet(Framebuffer)
      BY <2>2
    <3>2. v = p + VirtualOffset
      BY <2>6, <3>1 DEF Placed
    <3>3. PICK i \in DOMAIN Framebuffer : UnmapOp(Framebuffer[i] + VirtualOffset).virt = p + VirtualOffset
      BY <3>1, FramebufferLists
    <3>4. i \in DOMAIN ops /\ ops[i].virt = v
      BY <2>1, <3>2, <3>3
    <3>5. QED BY <2>2, <2>4, <3>4
  <2>7. QED BY <1>1, <1>2, <2>3, <2>5, <2>6, AskedSafe
<1>4. CASE kb_man_give
  <2>1. buffer \in Pool /\ buffer \in Pages /\ buffer \in own /\ buffer # NULL
    BY <1>4, SomePages DEF kb_man_give, Types, Owners
  <2>2. PICK o : o = UnmapOp(buffer)
    OBVIOUS
  <2>3. o.kind = "unmap" /\ o.virt = buffer
    BY <2>1, <2>2, OneOp
  <2>4. todo' = <<o>> /\ own' = own \ {buffer} /\ buffer' = NULL
    BY <1>4, <2>2 DEF kb_man_give, Syscall
  <2>5. \A v, q : Placed(v, q) => Placed(v, q)'
    BY <2>4 DEF Placed
  <2>6. DOMAIN todo' = {1} /\ todo'[1] = o
    BY <2>4
  <2>7. TodoRight'
    BY <2>3, <2>6 DEF TodoRight, OpRight
  <2>8. ASSUME NEW v \in Pages, NEW p \in own \ own', Placed(v, p)
        PROVE  \E i \in DOMAIN todo' : todo'[i].kind = "unmap" /\ todo'[i].virt = v
    <3>1. p = buffer
      BY <2>4
    <3>2. v = buffer
      BY <2>1, <2>8, <3>1 DEF Placed
    <3>3. QED BY <2>3, <2>6, <3>2
  <2>9. QED BY <1>1, <1>2, <2>5, <2>7, <2>8, AskedSafe
<1>5. QED BY <1>3, <1>4

\* paging_reload_kernel_map and task_new_page_table.
LEMMA SpaceSafe ==
    ASSUME Types, Owners, NEW place, Tree(place), Frames(place), SafeInv,
           paging_reload_kernel_map \/ task_new_page_table
    PROVE  SafeInv'
<1>1. \A s \in Spaces, v \in Pages : Remains(s, v)
  BY OthersStay DEF Stays, Call
<1>2. todo = <<>> /\ stack = <<>> /\ stack' = stack /\ UNCHANGED <<own, buffer, overlaid>>
  BY DEF paging_reload_kernel_map, task_new_page_table, NewSpace, Ready, Owners
<1>3. \A v, p : Placed(v, p) => Placed(v, p)'
  BY <1>2 DEF Placed
<1>4. TodoRight'
  <2>1. CASE paging_reload_kernel_map
    <3>1. pml4' = "kernel" /\ todo' = KernelOps
      BY <2>1 DEF paging_reload_kernel_map, NewSpace
    <3>2. PICK ops : ops = KernelOps
      OBVIOUS
    <3>3. \A i \in DOMAIN ops : ops[i] \in KernelLaid
      <4>1. ops \in Seq(KernelLaid)
        BY <3>2, KernelList
      <4>2. QED BY <4>1
    <3>4. ASSUME NEW o \in KernelLaid
          PROVE  OpRight(o)'
      BY <3>1 DEF KernelLaid, OpRight, RightFor, Right, Asked, Pairs
    <3>5. QED BY <3>1, <3>2, <3>3, <3>4 DEF TodoRight
  <2>2. CASE task_new_page_table
    <3>1. PICK ops : ops = TaskOps(NextPage)
      OBVIOUS
    <3>2. pml4' = "task" /\ todo' = ops
      BY <2>2, <3>1 DEF task_new_page_table, NewSpace
    <3>3. Programs \subseteq own /\ free # {}
      BY <2>2 DEF task_new_page_table, Ready, Owners
    <3>4. \A i \in DOMAIN ops : ops[i] \in TaskLaid
      <4>1. ops \in Seq(TaskLaid)
        BY <3>1, <3>3, NextFree, TaskList
      <4>2. QED BY <4>1
    <3>5. ASSUME NEW o \in TaskMapped
          PROVE  OpRight(o)'
      <4>1. /\ Pair(o.virt, o.phys) \in TaskPairs /\ (o.user => o.phys \in own)
            /\ o.kind = "map"
        BY <3>3 DEF TaskMapped
      <4>2. Right("task", o.virt, o.phys)'
        BY <4>1 DEF Right, Pairs
      <4>3. Placed(o.virt, o.phys)'
        BY <1>3, <4>1, LaidPlaced
      <4>4. RightFor("task", o.virt, o.phys, o.user)'
        BY <1>2, <4>1, <4>2, <4>3 DEF RightFor
      <4>5. QED BY <3>2, <4>1, <4>4 DEF OpRight
    <3>6. ASSUME NEW o \in TaskAliased
          PROVE  OpRight(o)'
      BY <3>2 DEF TaskAliased, OpRight
    <3>7. QED BY <3>2, <3>4, <3>5, <3>6 DEF TodoRight, TaskLaid
  <2>3. QED BY <2>1, <2>2
<1>5. ASSUME NEW v \in Pages, v \notin overlaid'["task"], NEW p,
             Mapped("task", v)', LeafEntry("task", v).user, LeafEntry("task", v).at = p
      PROVE  Placed(v, p)' /\ p \in own'
  BY <1>1, <1>2, <1>3, <1>5, Settled DEF Remains, Spaces
<1>6. OverlaidAsked'
  BY <1>2 DEF SafeInv, OverlaidAsked
<1>7. stack' = <<>>
  BY <1>2
<1>8. QED BY <1>1, <1>4, <1>5, <1>6, <1>7, BetweenSafe

\* Return.
LEMMA ReturnSafe ==
    ASSUME Types, Owners, NEW place, Tree(place), Frames(place), SafeInv, Return
    PROVE  SafeInv'
<1>1. /\ stack = <<>> /\ stack' = stack /\ todo = <<>> /\ todo' = todo /\ pml4' = "kernel"
      /\ UNCHANGED <<own, buffer, overlaid>>
  BY DEF Return
<1>2. \A s \in Spaces, v \in Pages : Remains(s, v)
  BY OthersStay DEF Stays
<1>3. \A v, p : Placed(v, p) => Placed(v, p)'
  BY <1>1 DEF Placed
<1>4. ASSUME NEW v \in Pages, v \notin overlaid'["task"], NEW p,
             Mapped("task", v)', LeafEntry("task", v).user, LeafEntry("task", v).at = p
      PROVE  Placed(v, p)' /\ p \in own'
  BY <1>1, <1>2, <1>3, <1>4, Settled DEF Remains, Spaces
<1>5. TodoRight'
  BY <1>1 DEF TodoRight
<1>6. OverlaidAsked'
  BY <1>1 DEF SafeInv, OverlaidAsked
<1>7. stack' = <<>>
  BY <1>1
<1>8. QED BY <1>2, <1>4, <1>5, <1>6, <1>7, BetweenSafe

\* Nothing is mapped before there are tables.
LEMMA NothingMapped ==
    ASSUME Init
    PROVE  \A s \in Spaces, v \in Pages : ~ Mapped(s, v)
<1> SUFFICES ASSUME NEW s \in Spaces, NEW v \in Pages PROVE ~ Mapped(s, v)
  OBVIOUS
<1>1. root[s] = NULL
  BY DEF Init
<1>2. TableAt(s, v, 1) = NULL
  BY <1>1, AtRoot
<1>3. TableAt(s, v, Levels) = NULL
  BY <1>2, NothingBelow, SomePages
<1>4. QED BY <1>3 DEF Mapped, Leaf

\* The invariant of what is mapped.
LEMMA SafeInvHolds == Spec => [](TreeInv /\ SafeInv)
<1>1. Init => SafeInv
  <2> SUFFICES ASSUME Init PROVE SafeInv
    OBVIOUS
  <2>1. \A s \in Spaces, v \in Pages : ~ Mapped(s, v)
    BY NothingMapped
  <2>2. /\ DOMAIN stack = {} /\ DOMAIN todo = {} /\ "task" \in Spaces
        /\ overlaid["kernel"] = {} /\ overlaid["task"] = {}
    BY DEF Init, Spaces
  <2>3. QED BY <2>1, <2>2 DEF SafeInv, Mappings, MapsRight, CallsRight, TodoRight,
      OverlaidAsked, Usable
<1>2. TreeInv /\ SafeInv /\ [Next]_vars => SafeInv'
  <2> SUFFICES ASSUME TreeInv, SafeInv, [Next]_vars PROVE SafeInv'
    OBVIOUS
  <2>1. PICK place : Tree(place) /\ Frames(place)
    BY DEF TreeInv
  <2>2. Types /\ Owners
    BY DEF TreeInv
  <2>3. CASE Begin
    BY <2>1, <2>2, <2>3, BeginSafe
  <2>4. CASE Descend \/ AddTable \/ Install \/ SetLeaf \/ _ahci_driver_load_pci
    BY <2>1, <2>2, <2>4, WithinSafe
  <2>5. CASE paging_unmap_page
    BY <2>1, <2>2, <2>5, UnmapSafe
  <2>6. CASE paging_reload_kernel_map \/ task_new_page_table
    BY <2>1, <2>2, <2>6, SpaceSafe
  <2>7. CASE (\E asked \in UserVirts \cup {NULL} : pmap(asked)) \/ kb_man_take
    BY <2>1, <2>2, <2>7, GivenSafe
  <2>8. CASE \E virt \in UserVirts \cup (own \cap Pool) : punmap(virt)
    BY <2>1, <2>2, <2>8, PunmapSafe
  <2>9. CASE fb_req
    BY <2>1, <2>2, <2>9, LentSafe
  <2>10. CASE fb_kill \/ kb_man_give
    BY <2>1, <2>2, <2>10, TakenSafe
  <2>11. CASE Return
    BY <2>1, <2>2, <2>11, ReturnSafe
  <2>12. CASE UNCHANGED vars
    <3>1. \A s \in Spaces, v \in Pages : Stays(s, v)
      BY <2>1, <2>2, <2>12, OthersStay
    <3>2. UNCHANGED <<stack, todo, pml4, own, buffer, table, overlaid>>
      BY <2>12 DEF vars
    <3>3. \A s \in Spaces, v \in Pages : Mapped(s, v)' <=> Mapped(s, v)
      BY <3>1 DEF Stays, Remains
    <3>4. \A s \in Spaces, v \in Pages : Mapped(s, v) => LeafEntry(s, v)' = LeafEntry(s, v)
      BY <3>1 DEF Stays, Remains
    <3>5. \A s, v, p : Right(s, v, p)' <=> Right(s, v, p)
      BY <3>2 DEF Right, Asked, Pairs
    <3>6. /\ \A v, p : Placed(v, p)' <=> Placed(v, p)
          /\ \A s, v, p, u : RightFor(s, v, p, u)' <=> RightFor(s, v, p, u)
      BY <3>2, <3>5 DEF RightFor, Placed
    <3>7. Mappings'
      <4>1. MapsRight'
        BY <3>3, <3>4, <3>5 DEF SafeInv, Mappings, MapsRight
      <4>2. CallsRight' /\ TodoRight'
        BY <3>2, <3>6 DEF SafeInv, Mappings, CallsRight, TodoRight, OpRight
      <4>3. QED BY <4>1, <4>2 DEF Mappings
    <3>8. OverlaidAsked'
      BY <3>2 DEF SafeInv, OverlaidAsked
    <3>9. Usable'
      BY <3>2, <3>3, <3>4, <3>6 DEF SafeInv, Usable, Spaces
    <3>10. QED BY <3>7, <3>8, <3>9 DEF SafeInv
  <2>13. QED BY <2>3, <2>4, <2>5, <2>6, <2>7, <2>8, <2>9, <2>10, <2>11, <2>12
             DEF Next, Step, Call, paging_map_page
<1>3. QED BY <1>1, <1>2, TreeInvHolds, PTL DEF Spec

\* When it runs, the program may use, of all that its tables map, only pages it
\* was given and has not given back, but where it had a page mapped upon another;
\* although it may ask for pages wherever it likes, tables are mapped next to its pages,
\* and kb_man frees a page, which AddTable may take for a table, before it unmaps it.
THEOREM ProgramKept == Spec => []ProgramKeepsToItsOwn
<1>1. TreeInv /\ SafeInv => ProgramKeepsToItsOwn
  <2> SUFFICES ASSUME TreeInv, SafeInv, call = Idle,
                      NEW v \in Pages, v \notin overlaid["task"],
                      Mapped("task", v), UserMay("task", v)
               PROVE  paging_walk_page("task", v) \in own
    BY DEF ProgramKeepsToItsOwn
  <2>1. PICK place : Tree(place)
    BY DEF TreeInv
  <2>2. Types /\ todo = <<>> /\ "task" \in Spaces
    BY DEF TreeInv, Owners, Spaces
  <2>3. LeafEntry("task", v).user
    BY SomePages DEF UserMay, LeafEntry, Leaf
  <2>4. LeafEntry("task", v).at \in own
    BY <2>2, <2>3, Settled
  <2>5. QED BY <2>1, <2>2, <2>4, WalkPages
<1>2. QED BY <1>1, SafeInvHolds, PTL

----------------------------------------------------------------------------
(* What is mapped is what was wanted *)

\* Every table on the way to a table, and the entry that leads on.
LEMMA OnTheWay ==
    ASSUME Types, NEW place, Tree(place), NEW s \in Spaces, NEW v \in Pages,
           NEW m \in 1 .. Levels, TableAt(s, v, m) # NULL
    PROVE  /\ \A l \in 1 .. m : /\ TableAt(s, v, l) # NULL /\ TableAt(s, v, l) \in DOMAIN table
                                /\ place[TableAt(s, v, l)].level = l
           /\ \A l \in 1 .. m - 1 : Index(v, l) \in DOMAIN table[TableAt(s, v, l)]
<1>0. m \in Nat /\ Levels \in Nat /\ m <= Levels
  BY SomePages
<1>1. ASSUME NEW l \in 1 .. m
      PROVE  TableAt(s, v, l) # NULL /\ l \in 1 .. Levels
  <2>1. l \in 1 .. Levels /\ l <= m
    BY <1>0
  <2>2. QED BY <2>1, NothingBelow
<1>2. ASSUME NEW l \in 1 .. m
      PROVE  TableAt(s, v, l) \in DOMAIN table /\ place[TableAt(s, v, l)].level = l
  <2>1. /\ TableAt(s, v, l) \in DOMAIN table
        /\ place[TableAt(s, v, l)] = Spot(s, l, v \div Span[l - 1])
    BY <1>1, Walked DEF Types
  <2>2. QED BY <2>1 DEF Spot
<1>3. ASSUME NEW l \in 1 .. m - 1
      PROVE  Index(v, l) \in DOMAIN table[TableAt(s, v, l)]
  <2>1. l \in 1 .. Levels - 1 /\ l + 1 \in 1 .. m
    BY <1>0
  <2>2. TableAt(s, v, l + 1) = UnderIn(table, TableAt(s, v, l), Index(v, l))
    BY <2>1, NextLevel
  <2>3. TableAt(s, v, l + 1) # NULL
    BY <1>1, <2>1
  <2>4. QED BY <2>2, <2>3 DEF UnderIn
<1>4. QED BY <1>1, <1>2, <1>3

\* No table above the leaves loses a flag.
FlagsKept(place) ==
    \A t \in DOMAIN table : place[t].level < Levels =>
        \A i \in DOMAIN table[t] : table[t][i].user => table'[t][i].user

\* The way to a table stays one the program may use.
LEMMA WayKept ==
    ASSUME Types, NEW place, Tree(place), FlagsKept(place), NEW s \in Spaces, NEW v \in Pages,
           NEW m \in 1 .. Levels, TableAt(s, v, m) # NULL,
           \A l \in 1 .. m : TableAt(s, v, l)' = TableAt(s, v, l),
           UserTo(s, v, m - 1)
    PROVE  UserTo(s, v, m - 1)'
<1>0. m \in Nat /\ Levels \in Nat /\ m <= Levels
  BY SomePages
<1>1. ASSUME NEW l \in 1 .. m - 1
      PROVE  (table[TableAt(s, v, l)][Index(v, l)].user)'
  <2>1. l \in 1 .. m /\ l < Levels
    BY <1>0
  <2>2. PICK t, i : t = TableAt(s, v, l) /\ i = Index(v, l)
    OBVIOUS
  <2>3. t \in DOMAIN table /\ place[t].level < Levels /\ i \in DOMAIN table[t]
    BY <2>1, <2>2, OnTheWay
  <2>4. table[t][i].user
    BY <2>2 DEF UserTo
  <2>5. table'[t][i].user
    BY <2>3, <2>4 DEF FlagsKept
  <2>6. TableAt(s, v, l)' = t /\ Index(v, l)' = i
    BY <2>1, <2>2 DEF Index
  <2>7. QED BY <2>5, <2>6
<1>2. QED BY <1>1 DEF UserTo

\* The program may use a page if it may use the way to it and the page.
LEMMA WayAndLeaf ==
    /\ \A s, v : UserMay(s, v) <=> UserTo(s, v, Levels - 1) /\ LeafEntry(s, v).user
    /\ \A s, v : UserMay(s, v)' <=> UserTo(s, v, Levels - 1)' /\ LeafEntry(s, v)'.user
<1>1. Levels \in Nat /\ \A l : l \in 1 .. Levels <=> l \in 1 .. Levels - 1 \/ l = Levels
  BY SomePages
<1>2. \A s, v : UserMay(s, v) <=> UserTo(s, v, Levels - 1) /\ LeafEntry(s, v).user
  BY <1>1 DEF UserMay, UserTo, LeafEntry, Leaf
<1>3. \A s, v : UserMay(s, v)' <=> UserTo(s, v, Levels - 1)' /\ LeafEntry(s, v)'.user
  BY <1>1 DEF UserMay, UserTo, LeafEntry, Leaf
<1>4. QED BY <1>2, <1>3

\* What stays mapped is still what was wanted.
LEMMA StillWanted ==
    ASSUME Types, NEW place, Tree(place), FlagsKept(place), NEW s \in Spaces, NEW v \in Pages,
           WantedAt(s, v), Stays(s, v),
           Mapped(s, v) => \A l \in 1 .. Levels : TableAt(s, v, l)' = TableAt(s, v, l),
           v \in DOMAIN wanted'[s] <=> v \in DOMAIN wanted[s],
           v \in DOMAIN wanted[s] => wanted'[s][v] = wanted[s][v],
           v \notin overlaid'[s] => v \notin overlaid[s]
    PROVE  WantedAt(s, v)'
<1>1. /\ Mapped(s, v)' <=> Mapped(s, v)
      /\ Mapped(s, v) => LeafEntry(s, v)' = LeafEntry(s, v)
  BY DEF Stays, Remains
<1>2. Mapped(s, v)' <=> v \in DOMAIN wanted'[s]
  BY <1>1 DEF WantedAt
<1>3. /\ Mapped(s, v)' => wanted'[s][v].user = LeafEntry(s, v)'.user
      /\ Mapped(s, v)' /\ v \notin overlaid'[s] => wanted'[s][v].at = LeafEntry(s, v)'.at
  BY <1>1 DEF WantedAt
<1>4. ASSUME Mapped(s, v)', LeafEntry(s, v)'.user
      PROVE  UserMay(s, v)'
  <2>1. Mapped(s, v) /\ LeafEntry(s, v).user
    BY <1>1, <1>4
  <2>2. UserTo(s, v, Levels - 1)
    BY <2>1, WayAndLeaf DEF WantedAt
  <2>3. TableAt(s, v, Levels) # NULL
    BY <2>1 DEF Mapped, Leaf
  <2>4. UserTo(s, v, Levels - 1)'
    BY <2>1, <2>2, <2>3, SomePages, WayKept
  <2>5. QED BY <1>4, <2>4, WayAndLeaf
<1>5. QED BY <1>2, <1>3, <1>4 DEF WantedAt

\* Nothing is noted, or changed above the leaves.
LEMMA StillNoted ==
    ASSUME Types, NEW place, Tree(place), FlagsKept(place), MapsWanted,
           wanted' = wanted, overlaid' = overlaid,
           \A s \in Spaces, v \in Pages : Stays(s, v),
           \A s \in Spaces, v \in Pages : Mapped(s, v) =>
               \A l \in 1 .. Levels : TableAt(s, v, l)' = TableAt(s, v, l)
    PROVE  MapsWanted'
<1>1. ASSUME NEW s \in Spaces, NEW v \in Pages PROVE WantedAt(s, v)'
  BY StillWanted DEF MapsWanted
<1>2. QED BY <1>1 DEF MapsWanted

\* The same of calls, with what the stack is next given a name.
LEMMA CallsNow ==
    ASSUME NEW r, r = stack', NEW p, p = pml4',
           \A k \in DOMAIN r :
              /\ r[k].intent = p
              /\ r[k].new # NULL => k = Len(r) /\ At(r[k]) \notin DOMAIN table'[r[k].at]
              /\ r[k].user => UserTo(p, r[k].virt, r[k].level - 1)'
    PROVE  CallsMeant'
<1> SUFFICES ASSUME NEW k \in DOMAIN stack'
             PROVE  (/\ stack[k].intent = pml4
                     /\ stack[k].new # NULL => k = Len(stack) /\ At(stack[k]) \notin DOMAIN table[stack[k].at]
                     /\ stack[k].user => UserTo(pml4, stack[k].virt, stack[k].level - 1))'
  BY DEF CallsMeant
<1>1. PICK f : f = r[k]
  OBVIOUS
<1>2. /\ f.intent = p
      /\ f.new # NULL => k = Len(r) /\ At(f) \notin DOMAIN table'[f.at]
      /\ f.user => UserTo(p, f.virt, f.level - 1)'
  BY <1>1
<1>3. At(f)' = At(f)
  BY DEF At, Index
<1>4. QED BY <1>1, <1>2, <1>3

\* A call that has just begun.
LEMMA NewCall ==
    ASSUME NEW f, DOMAIN stack' = {1}, stack'[1] = f, f.intent = pml4', f.new = NULL, f.level = 1
    PROVE  CallsMeant'
<1>1. PICK r, p : r = stack' /\ p = pml4'
  OBVIOUS
<1>2. UserTo(p, f.virt, f.level - 1)'
  BY DEF UserTo
<1>3. QED BY <1>1, <1>2, CallsNow

\* A call under way, where its way stays.
LEMMA StillMeant ==
    ASSUME Types, NEW place, Tree(place), Frames(place), FlagsKept(place), CallsMeant,
           NEW k \in DOMAIN stack, NEW f, f = stack[k], NEW p, p = pml4,
           \A l \in 1 .. f.level : TableAt(p, f.virt, l)' = TableAt(p, f.virt, l)
    PROVE  /\ f.intent = p
           /\ f.new # NULL => k = Len(stack) /\ At(f) \notin DOMAIN table[f.at]
           /\ f.user => UserTo(p, f.virt, f.level - 1)'
<1>1. /\ f.intent = p
      /\ f.new # NULL => k = Len(stack) /\ At(f) \notin DOMAIN table[f.at]
      /\ f.user => UserTo(p, f.virt, f.level - 1)
  BY DEF CallsMeant
<1>2. TableAt(p, f.virt, f.level) # NULL
  BY DEF Frames
<1>3. f \in FrameSet /\ p \in Spaces
  BY ElementOfSeq DEF Types
<1>4. f.virt \in Pages /\ f.level \in 1 .. Levels
  BY <1>3 DEF FrameSet
<1>5. QED BY <1>1, <1>2, <1>3, <1>4, WayKept

\* Descend adds to the flags of the current call's way, and takes from none.
LEMMA DescendMeant ==
    ASSUME Types, Owners, NEW place, Tree(place), Frames(place), CallsMeant, MapsWanted, Descend
    PROVE  CallsMeant' /\ MapsWanted'
<1>1. /\ pml4' = pml4 /\ wanted' = wanted /\ overlaid' = overlaid /\ stack # <<>> /\ Top.level < Levels
      /\ At(Top) \in DOMAIN table[Top.at]
  BY DEF Descend, caller, Above
<1>2. /\ Len(stack) \in Nat \ {0} /\ Len(stack) \in DOMAIN stack /\ Top = stack[Len(stack)]
      /\ Top \in FrameSet /\ Top.at \in DOMAIN table
      /\ TableAt(pml4, Top.virt, Top.level) = Top.at /\ stack \in Seq(FrameSet)
  BY <1>1, TopFrame DEF Types
<1>3. PICK t, i : t = Top.at /\ i = At(Top)
  OBVIOUS
<1>4. PICK e, now : e = table[t][i] /\ now = [e EXCEPT !.user = @ \/ Top.user]
  OBVIOUS
<1>5. PICK f : f = Down(Top, e.at)
  OBVIOUS
<1>6. table' = Set(t, i, now) /\ stack' = [stack EXCEPT ![Len(stack)] = f]
  BY <1>3, <1>4, <1>5 DEF Descend, SetTop
<1>7. e \in [at : Pages, user : BOOLEAN] /\ Top.user \in BOOLEAN
  BY <1>1, <1>2, <1>3, <1>4 DEF Types, Entries, FrameSet
<1>8. now.user <=> e.user \/ Top.user
  BY <1>4, <1>7
<1>9. /\ \A u \in DOMAIN table : u # t => table'[u] = table[u]
      /\ DOMAIN table'[t] = DOMAIN table[t] \cup {i} /\ table'[t][i] = now
      /\ \A j \in DOMAIN table[t] : j # i => table'[t][j] = table[t][j]
  BY <1>2, <1>3, <1>6, SetEntry
<1>10. FlagsKept(place)
  <2> SUFFICES ASSUME NEW u \in DOMAIN table, NEW j \in DOMAIN table[u], table[u][j].user
               PROVE  table'[u][j].user
    BY DEF FlagsKept
  <2>1. CASE u = t /\ j = i
    BY <1>4, <1>8, <1>9, <2>1
  <2>2. CASE u = t /\ j # i
    BY <1>9, <2>2
  <2>3. CASE u # t
    BY <1>9, <2>3
  <2>4. QED BY <2>1, <2>2, <2>3
<1>11. \A s \in Spaces, v \in Pages, l \in 1 .. Levels : TableAt(s, v, l)' = TableAt(s, v, l)
  BY DescendFrames
<1>12. MapsWanted'
  BY <1>1, <1>10, <1>11, AboveStays, StillNoted
<1>13. PICK r, p : r = stack' /\ p = pml4
  OBVIOUS
<1>14. /\ f \in FrameSet /\ f.new = NULL /\ f.virt = Top.virt /\ f.user = Top.user
       /\ f.intent = Top.intent /\ f.level = Top.level + 1
  BY <1>1, <1>2, <1>5, <1>7, OtherFrame, ZenonT(30)
<1>15. /\ Len(r) = Len(stack) /\ DOMAIN r = DOMAIN stack
       /\ r[Len(stack)] = f /\ \A k \in DOMAIN stack : k # Len(stack) => r[k] = stack[k]
  BY <1>1, <1>2, <1>6, <1>13, <1>14, OtherLast
<1>16. ASSUME NEW k \in DOMAIN stack, NEW g, g = stack[k]
       PROVE  /\ g.intent = p /\ (g.new # NULL => k = Len(stack))
              /\ g.user => UserTo(p, g.virt, g.level - 1)'
  <2>1. g \in FrameSet /\ p \in Spaces
    BY <1>2, <1>13, <1>16, ElementOfSeq DEF Types
  <2>2. g.virt \in Pages /\ g.level \in 1 .. Levels /\ Levels \in Nat
    BY <2>1, SomePages DEF FrameSet
  <2>3. \A l \in 1 .. g.level : TableAt(p, g.virt, l)' = TableAt(p, g.virt, l)
    BY <1>11, <2>1, <2>2
  <2>4. QED BY <1>10, <1>13, <1>16, <2>3, StillMeant
<1>17. f.user => UserTo(p, f.virt, f.level - 1)'
  <2> SUFFICES ASSUME f.user, NEW l \in 1 .. f.level - 1
               PROVE  (table[TableAt(p, f.virt, l)][Index(f.virt, l)].user)'
    BY DEF UserTo
  <2>1. Top.level \in 1 .. Levels /\ Top.virt \in Pages /\ p \in Spaces /\ Levels \in Nat
    BY <1>2, <1>13, SomePages DEF FrameSet, Types
  <2>2. CASE l = Top.level
    <3>1. TableAt(p, f.virt, l)' = t
      BY <1>2, <1>3, <1>11, <1>13, <1>14, <2>1, <2>2
    <3>2. Index(f.virt, l)' = i
      BY <1>3, <1>14, <2>2 DEF At, Index
    <3>3. table'[t][i].user
      BY <1>8, <1>9, <1>14
    <3>4. QED BY <3>1, <3>2, <3>3
  <2>3. CASE l # Top.level
    <3>1. l \in 1 .. Top.level - 1
      BY <1>14, <2>1, <2>3
    <3>2. PICK g : g = stack[Len(stack)]
      OBVIOUS
    <3>3. g.user /\ g.virt = f.virt /\ l \in 1 .. g.level - 1
      BY <1>2, <1>14, <3>1, <3>2
    <3>4. UserTo(p, g.virt, g.level - 1)'
      BY <1>2, <1>16, <3>2, <3>3
    <3>5. QED BY <3>3, <3>4 DEF UserTo
  <2>4. QED BY <2>2, <2>3
<1>18. CallsMeant'
  <2>1. p = pml4'
    BY <1>1, <1>13
  <2>2. ASSUME NEW k \in DOMAIN r
        PROVE  /\ r[k].intent = p
               /\ r[k].new # NULL => k = Len(r) /\ At(r[k]) \notin DOMAIN table'[r[k].at]
               /\ r[k].user => UserTo(p, r[k].virt, r[k].level - 1)'
    <3>1. CASE k = Len(stack)
      BY <1>2, <1>14, <1>15, <1>16, <1>17, <3>1
    <3>2. CASE k # Len(stack)
      BY <1>15, <1>16, <3>2
    <3>3. QED BY <3>1, <3>2
  <2>3. QED BY <1>13, <2>1, <2>2, CallsNow
<1>19. QED BY <1>12, <1>18

\* AddTable.
LEMMA AddTableMeant ==
    ASSUME Types, Owners, NEW place, Tree(place), Frames(place), CallsMeant, MapsWanted, AddTable
    PROVE  CallsMeant' /\ MapsWanted'
<1>1. /\ pml4' = pml4 /\ wanted' = wanted /\ overlaid' = overlaid /\ stack # <<>> /\ Top.level < Levels /\ free # {}
      /\ At(Top) \notin DOMAIN table[Top.at]
  BY DEF AddTable, caller, Above
<1>2. /\ Len(stack) \in Nat \ {0} /\ Len(stack) \in DOMAIN stack /\ Top = stack[Len(stack)]
      /\ Top \in FrameSet /\ Top.at \in DOMAIN table /\ stack \in Seq(FrameSet)
  BY <1>1, TopFrame DEF Types
<1>3. PICK n : n = NextPage
  OBVIOUS
<1>4. n \notin DOMAIN table /\ n \in Pages /\ table' = With(table, n, <<>>)
  BY <1>1, <1>3, NextFree DEF AddTable, Owners
<1>5. \A u \in DOMAIN table : table'[u] = table[u]
  BY <1>4, NewTable
<1>6. FlagsKept(place)
  BY <1>5 DEF FlagsKept
<1>7. \A s \in Spaces, v \in Pages, l \in 1 .. Levels : TableAt(s, v, l)' = TableAt(s, v, l)
  BY AddTableFrames
<1>8. MapsWanted'
  BY <1>1, <1>6, <1>7, AboveStays, StillNoted
<1>9. PICK f : f = [Top EXCEPT !.new = n]
  OBVIOUS
<1>10. /\ f \in FrameSet /\ f.virt = Top.virt /\ f.user = Top.user /\ f.at = Top.at
       /\ f.intent = Top.intent /\ f.level = Top.level
  BY <1>2, <1>4, <1>9, OtherFrame
<1>11. PICK r, p : r = stack' /\ p = pml4
  OBVIOUS
<1>12. r = [stack EXCEPT ![Len(stack)] = f]
  BY <1>3, <1>9, <1>11 DEF AddTable, SetTop
<1>13. /\ Len(r) = Len(stack) /\ DOMAIN r = DOMAIN stack
       /\ r[Len(stack)] = f /\ \A k \in DOMAIN stack : k # Len(stack) => r[k] = stack[k]
  BY <1>1, <1>2, <1>10, <1>12, OtherLast
<1>14. ASSUME NEW k \in DOMAIN stack, NEW g, g = stack[k]
       PROVE  /\ g.intent = p /\ (g.new # NULL => k = Len(stack))
              /\ g.user => UserTo(p, g.virt, g.level - 1)'
  <2>1. g \in FrameSet /\ p \in Spaces
    BY <1>2, <1>11, <1>14, ElementOfSeq DEF Types
  <2>2. g.virt \in Pages /\ g.level \in 1 .. Levels /\ Levels \in Nat
    BY <2>1, SomePages DEF FrameSet
  <2>3. \A l \in 1 .. g.level : TableAt(p, g.virt, l)' = TableAt(p, g.virt, l)
    BY <1>7, <2>1, <2>2
  <2>4. QED BY <1>6, <1>11, <1>14, <2>3, StillMeant
<1>15. At(f) \notin DOMAIN table'[f.at]
  BY <1>1, <1>2, <1>5, <1>10 DEF At
<1>16. CallsMeant'
  <2>1. p = pml4'
    BY <1>1, <1>11
  <2>2. ASSUME NEW k \in DOMAIN r
        PROVE  /\ r[k].intent = p
               /\ r[k].new # NULL => k = Len(r) /\ At(r[k]) \notin DOMAIN table'[r[k].at]
               /\ r[k].user => UserTo(p, r[k].virt, r[k].level - 1)'
    <3>1. CASE k = Len(stack)
      <4>1. PICK g : g = stack[Len(stack)]
        OBVIOUS
      <4>2. g.intent = p /\ (g.user => UserTo(p, g.virt, g.level - 1)')
        BY <1>2, <1>14, <4>1
      <4>3. f.virt = g.virt /\ f.level = g.level /\ f.user = g.user /\ f.intent = g.intent
        BY <1>2, <1>10, <4>1
      <4>4. r[k] = f /\ k = Len(r)
        BY <1>13, <3>1
      <4>5. QED BY <1>15, <4>2, <4>3, <4>4
    <3>2. CASE k # Len(stack)
      BY <1>13, <1>14, <3>2
    <3>3. QED BY <3>1, <3>2
  <2>3. QED BY <1>11, <2>1, <2>2, CallsNow
<1>17. QED BY <1>8, <1>16

\* Install puts the table where nothing is: no way leads through it yet.
LEMMA InstallMeant ==
    ASSUME Types, Owners, NEW place, Tree(place), Frames(place), CallsMeant, MapsWanted, Install
    PROVE  CallsMeant' /\ MapsWanted'
<1>1. /\ root' = root /\ pml4' = pml4 /\ wanted' = wanted /\ overlaid' = overlaid
      /\ stack # <<>> /\ Top.level < Levels /\ Top.new # NULL
  BY DEF Install, caller, Above
<1>2. /\ Len(stack) \in Nat \ {0} /\ Len(stack) \in DOMAIN stack /\ Top = stack[Len(stack)]
      /\ Top \in FrameSet /\ Top.at \in DOMAIN table /\ place[Top.at].level = Top.level
      /\ TableAt(pml4, Top.virt, Top.level) = Top.at /\ stack \in Seq(FrameSet)
      /\ root \in [Spaces -> Pages] /\ NULL \notin DOMAIN table /\ DOMAIN stack = 1 .. Len(stack)
  BY <1>1, TopFrame, SomePages DEF Types
<1>3. PICK t, i, m, n : t = Top.at /\ i = At(Top) /\ m = Top.level /\ n = Top.new
  OBVIOUS
<1>4. PICK e : e = Entry(n, Top.user)
  OBVIOUS
<1>5. e.at = n /\ e.user = Top.user /\ table' = Set(t, i, e)
  BY <1>3, <1>4 DEF Entry, Install
<1>6. Loose(n) /\ n \in Pages
  BY <1>1, <1>2, <1>3 DEF Frames, FrameSet
<1>7. i \notin DOMAIN table[t]
  BY <1>1, <1>2, <1>3 DEF CallsMeant
<1>8. m \in 1 .. Levels - 1 /\ m \in 1 .. Levels /\ Levels \in Nat
  BY <1>1, <1>2, <1>3, SomePages DEF FrameSet
<1>9. /\ \A u \in DOMAIN table : u # t => table'[u] = table[u]
      /\ DOMAIN table'[t] = DOMAIN table[t] \cup {i} /\ table'[t][i] = e
      /\ \A j \in DOMAIN table[t] : j # i => table'[t][j] = table[t][j]
  BY <1>2, <1>3, <1>5, SetEntry
<1>10. FlagsKept(place)
  <2> SUFFICES ASSUME NEW u \in DOMAIN table, NEW j \in DOMAIN table[u], table[u][j].user
               PROVE  table'[u][j].user
    BY DEF FlagsKept
  <2>1. CASE u = t
    BY <1>7, <1>9, <2>1
  <2>2. CASE u # t
    BY <1>9, <2>2
  <2>3. QED BY <2>1, <2>2
<1>11. \A s \in Spaces, v \in Pages, l \in 1 .. Levels :
          TableAt(s, v, l)' =
              IF m < l /\ TableAt(s, v, m) = t /\ Index(v, m) = i
              THEN (IF l = m + 1 THEN n ELSE NULL)
              ELSE TableAt(s, v, l)
  <2>1. place[t].level < Levels /\ t \in DOMAIN table /\ place[t].level = m
    BY <1>1, <1>2, <1>3
  <2>2. QED BY <1>1, <1>2, <1>5, <1>6, <2>1, WalksLinked
<1>12. ASSUME NEW s \in Spaces, NEW v \in Pages, NEW h \in 1 .. Levels, TableAt(s, v, h) # NULL
       PROVE  \A l \in 1 .. h : TableAt(s, v, l)' = TableAt(s, v, l)
  <2> SUFFICES ASSUME NEW l \in 1 .. h PROVE TableAt(s, v, l)' = TableAt(s, v, l)
    OBVIOUS
  <2>1. l \in 1 .. Levels
    BY <1>8, <1>12
  <2>2. ASSUME m < l, TableAt(s, v, m) = t, Index(v, m) = i
        PROVE  FALSE
    <3>1. m \in 1 .. h - 1
      BY <1>8, <2>2
    <3>2. i \in DOMAIN table[t]
      BY <1>12, <2>2, <3>1, OnTheWay
    <3>3. QED BY <1>7, <3>2
  <2>3. QED BY <1>11, <2>1, <2>2
<1>13. MapsWanted'
  <2>1. \A s \in Spaces, v \in Pages : Stays(s, v)
    BY <1>3, <1>7, InstallRemains
  <2>2. \A s \in Spaces, v \in Pages : Mapped(s, v) =>
            \A l \in 1 .. Levels : TableAt(s, v, l)' = TableAt(s, v, l)
    BY <1>12, SomePages DEF Mapped, Leaf
  <2>3. QED BY <1>1, <1>10, <2>1, <2>2, StillNoted
<1>14. PICK r, p, q : r = stack' /\ p = pml4 /\ q = [stack EXCEPT ![Len(stack)] = Down(Top, n)]
  OBVIOUS
<1>15. PICK f, g : f = Down(Top, n) /\ g = Frame(n, n, FALSE, p)
  OBVIOUS
<1>16. /\ f \in FrameSet /\ f.new = NULL /\ f.virt = Top.virt /\ f.user = Top.user
       /\ f.intent = Top.intent /\ f.level = Top.level + 1
  BY <1>1, <1>2, <1>6, <1>15, OtherFrame, ZenonT(30)
<1>17. g \in FrameSet /\ g.new = NULL /\ g.intent = p /\ ~ g.user
  <2>1. FALSE \in BOOLEAN /\ p \in Spaces
    BY <1>14 DEF Types
  <2>2. g \in FrameSet
    BY <1>6, <1>15, <2>1, NewFrame
  <2>3. QED BY <1>15, <2>2 DEF Frame
<1>18. /\ q \in Seq(FrameSet) /\ Len(q) = Len(stack)
       /\ q[Len(stack)] = f /\ \A k \in DOMAIN stack : k # Len(stack) => q[k] = stack[k]
  BY <1>1, <1>2, <1>14, <1>15, <1>16, OtherLast
<1>19. r = Append(q, g)
  BY <1>3, <1>14, <1>15 DEF Install, SetTop
<1>20. /\ DOMAIN r = 1 .. Len(stack) + 1 /\ r[Len(stack) + 1] = g
       /\ \A k \in 1 .. Len(stack) : r[k] = q[k]
  BY <1>17, <1>18, <1>19, OneMore
<1>21. ASSUME NEW k \in DOMAIN stack, NEW a, a = stack[k]
       PROVE  /\ a.intent = p /\ (a.new # NULL => k = Len(stack))
              /\ a.user => UserTo(p, a.virt, a.level - 1)'
  <2>1. a \in FrameSet /\ p \in Spaces /\ TableAt(p, a.virt, a.level) # NULL
    BY <1>2, <1>14, <1>21, ElementOfSeq DEF Types, Frames
  <2>2. a.virt \in Pages /\ a.level \in 1 .. Levels
    BY <2>1 DEF FrameSet
  <2>3. \A l \in 1 .. a.level : TableAt(p, a.virt, l)' = TableAt(p, a.virt, l)
    BY <1>12, <2>1, <2>2
  <2>4. QED BY <1>10, <1>14, <1>21, <2>3, StillMeant
<1>22. f.user => UserTo(p, f.virt, f.level - 1)'
  <2> SUFFICES ASSUME f.user, NEW l \in 1 .. f.level - 1
               PROVE  (table[TableAt(p, f.virt, l)][Index(f.virt, l)].user)'
    BY DEF UserTo
  <2>1. f.virt \in Pages /\ p \in Spaces /\ f.level - 1 = m /\ TableAt(p, f.virt, m) = t
    BY <1>2, <1>3, <1>8, <1>14, <1>16 DEF FrameSet, Types
  <2>2. CASE l = m
    <3>1. TableAt(p, f.virt, l)' = t
      BY <1>8, <1>11, <2>1, <2>2
    <3>2. Index(f.virt, l)' = i
      BY <1>3, <1>16, <2>2 DEF At, Index
    <3>3. table'[t][i].user
      BY <1>5, <1>9, <1>16
    <3>4. QED BY <3>1, <3>2, <3>3
  <2>3. CASE l # m
    <3>1. PICK a : a = stack[Len(stack)]
      OBVIOUS
    <3>2. a.user /\ a.virt = f.virt /\ l \in 1 .. a.level - 1
      BY <1>2, <1>3, <1>8, <1>16, <2>1, <2>3, <3>1
    <3>3. UserTo(p, a.virt, a.level - 1)'
      BY <1>2, <1>21, <3>1, <3>2
    <3>4. QED BY <3>2, <3>3 DEF UserTo
  <2>4. QED BY <2>2, <2>3
<1>23. CallsMeant'
  <2>1. p = pml4'
    BY <1>1, <1>14
  <2>2. ASSUME NEW k \in DOMAIN r
        PROVE  /\ r[k].intent = p
               /\ r[k].new # NULL => k = Len(r) /\ At(r[k]) \notin DOMAIN table'[r[k].at]
               /\ r[k].user => UserTo(p, r[k].virt, r[k].level - 1)'
    <3>1. CASE k = Len(stack) + 1
      BY <1>17, <1>20, <3>1
    <3>2. CASE k = Len(stack)
      <4>1. r[k] = f
        BY <1>2, <1>18, <1>20, <3>2
      <4>2. f.intent = p
        BY <1>2, <1>16, <1>21
      <4>3. QED BY <1>16, <1>22, <4>1, <4>2
    <3>3. CASE k \in 1 .. Len(stack) - 1
      <4>1. k \in DOMAIN stack /\ k # Len(stack) /\ r[k] = stack[k]
        BY <1>2, <1>18, <1>20, <3>3
      <4>2. QED BY <1>21, <4>1
    <3>4. QED BY <1>2, <1>20, <3>1, <3>2, <3>3
  <2>3. QED BY <1>14, <2>1, <2>2, CallsNow
<1>24. QED BY <1>13, <1>23

\* SetLeaf notes what it maps.
LEMMA SetLeafMeant ==
    ASSUME Types, Owners, NEW place, Tree(place), Frames(place), SafeInv, CallsMeant, MapsWanted, SetLeaf
    PROVE  CallsMeant' /\ MapsWanted'
<1>1. stack # <<>> /\ Top.level = Levels /\ pml4' = pml4 /\ stack' = Front(stack)
  BY DEF SetLeaf, caller
<1>2. /\ Len(stack) \in Nat \ {0} /\ Len(stack) \in DOMAIN stack /\ Top = stack[Len(stack)]
      /\ Top \in FrameSet /\ Top.at \in DOMAIN table /\ place[Top.at].level = Top.level
      /\ TableAt(pml4, Top.virt, Top.level) = Top.at /\ Top.at # NULL
      /\ stack \in Seq(FrameSet) /\ DOMAIN stack = 1 .. Len(stack)
  BY <1>1, TopFrame DEF Types
<1>3. PICK w, x, e : w = Top.virt /\ x = pml4 /\ e = Entry(Top.phys, Top.user)
  OBVIOUS
<1>4. /\ x \in Spaces /\ w \in Pages
      /\ Mapped(x, w)' /\ LeafEntry(x, w)'.user = e.user
      /\ w \notin overlaid'[x] => LeafEntry(x, w)'.at = e.at
      /\ \A s \in Spaces : overlaid[s] \subseteq overlaid'[s]
      /\ \A s \in Spaces, v \in Pages : s # x \/ v # w => Stays(s, v)
  <2>1. e.at = Top.phys /\ e.user = Top.user
    BY <1>3 DEF Entry
  <2>2. QED BY <1>3, <2>1, SetLeafSets
<1>5. \A s \in Spaces, v \in Pages, l \in 1 .. Levels : TableAt(s, v, l)' = TableAt(s, v, l)
  BY LeafFrames
<1>6. FlagsKept(place)
  <2>1. PICK t, i, now : t = Top.at /\ i = At(Top) /\ table' = Set(t, i, now)
    BY DEF SetLeaf
  <2>2. \A u \in DOMAIN table : u # t => table'[u] = table[u]
    BY <1>2, <2>1, SetEntry
  <2>3. ~ (Levels < Levels)
    BY SomePages
  <2>4. QED BY <1>1, <1>2, <2>1, <2>2, <2>3 DEF FlagsKept
<1>7. Top.intent = x /\ (Top.user => UserTo(x, w, Levels - 1))
  BY <1>1, <1>2, <1>3 DEF CallsMeant
<1>8. PICK new : new = With(wanted[x], w, e) /\ wanted' = [wanted EXCEPT ![x] = new]
  BY <1>3, <1>7 DEF SetLeaf
<1>9. /\ \A s \in Spaces : s # x => wanted'[s] = wanted[s]
      /\ DOMAIN wanted'[x] = DOMAIN wanted[x] \cup {w} /\ wanted'[x][w] = e
      /\ \A u \in DOMAIN wanted[x] : u # w => wanted'[x][u] = wanted[x][u]
  <2>1. x \in Spaces /\ w \in Pages /\ Types
    BY <1>4
  <2>2. \A s \in Spaces : s # x => wanted'[s] = wanted[s]
    BY <1>8, <2>1, Noted
  <2>3. DOMAIN wanted'[x] = DOMAIN wanted[x] \cup {w} /\ wanted'[x][w] = e
    BY <1>8, <2>1, Noted, ZenonT(30)
  <2>4. \A u \in DOMAIN wanted[x] : u # w => wanted'[x][u] = wanted[x][u]
    BY <1>8, <2>1, Noted, ZenonT(30)
  <2>5. QED BY <2>2, <2>3, <2>4
<1>10. WantedAt(x, w)'
  <2>1. w \in DOMAIN wanted'[x] /\ wanted'[x][w] = e
    BY <1>9
  <2>2. ASSUME LeafEntry(x, w)'.user
        PROVE  UserMay(x, w)'
    <3>1. UserTo(x, w, Levels - 1)
      BY <1>3, <1>4, <1>7, <2>2 DEF Entry
    <3>2. TableAt(x, w, Levels) # NULL
      BY <1>1, <1>2, <1>3
    <3>3. UserTo(x, w, Levels - 1)'
      BY <1>4, <1>5, <1>6, <3>1, <3>2, SomePages, WayKept
    <3>4. QED BY <2>2, <3>3, WayAndLeaf
  <2>3. QED BY <1>4, <2>1, <2>2 DEF WantedAt
<1>11. ASSUME NEW s \in Spaces, NEW v \in Pages, s # x \/ v # w
       PROVE  WantedAt(s, v)'
  <2>1. WantedAt(s, v) /\ Stays(s, v)
    BY <1>4, <1>11 DEF MapsWanted
  <2>2. v \in DOMAIN wanted'[s] <=> v \in DOMAIN wanted[s]
    BY <1>9, <1>11
  <2>3. v \in DOMAIN wanted[s] => wanted'[s][v] = wanted[s][v]
    BY <1>9, <1>11
  <2>4. v \notin overlaid'[s] => v \notin overlaid[s]
    BY <1>4
  <2>5. QED BY <1>5, <1>6, <2>1, <2>2, <2>3, <2>4, StillWanted
<1>12. MapsWanted'
  <2>1. ASSUME NEW s \in Spaces, NEW v \in Pages PROVE WantedAt(s, v)'
    <3>1. CASE s = x /\ v = w
      BY <1>10, <3>1
    <3>2. QED BY <1>11, <3>1
  <2>2. QED BY <2>1 DEF MapsWanted
<1>13. PICK r : r = stack'
  OBVIOUS
<1>14. /\ DOMAIN r = 1 .. Len(stack) - 1
       /\ \A k \in 1 .. Len(stack) - 1 : r[k] = stack[k] /\ k \in DOMAIN stack /\ k # Len(stack)
  <2>1. /\ Front(stack) \in Seq(FrameSet) /\ Len(Front(stack)) = Len(stack) - 1
        /\ \A k \in 1 .. Len(stack) - 1 : Front(stack)[k] = stack[k]
    BY <1>1, <1>2, LastOfList
  <2>2. PICK y : y = Front(stack)
    OBVIOUS
  <2>3. DOMAIN y = 1 .. Len(stack) - 1
    BY <2>1, <2>2
  <2>4. \A k \in 1 .. Len(stack) - 1 : k \in DOMAIN stack /\ k # Len(stack)
    BY <1>2
  <2>5. r = y
    BY <1>1, <1>13, <2>2
  <2>6. QED BY <2>1, <2>2, <2>3, <2>4, <2>5
<1>15. CallsMeant'
  <2>1. x = pml4'
    BY <1>1, <1>3
  <2>2. ASSUME NEW k \in DOMAIN r
        PROVE  /\ r[k].intent = x
               /\ r[k].new # NULL => k = Len(r) /\ At(r[k]) \notin DOMAIN table'[r[k].at]
               /\ r[k].user => UserTo(x, r[k].virt, r[k].level - 1)'
    <3>1. PICK a : a = stack[k]
      OBVIOUS
    <3>2. k \in DOMAIN stack /\ k # Len(stack) /\ r[k] = a
      BY <1>14, <2>2, <3>1
    <3>3. a \in FrameSet
      BY <1>2, <3>1, <3>2, ElementOfSeq
    <3>4. a.virt \in Pages /\ a.level \in 1 .. Levels /\ Levels \in Nat
      BY <3>3, SomePages DEF FrameSet
    <3>5. \A l \in 1 .. a.level : TableAt(x, a.virt, l)' = TableAt(x, a.virt, l)
      BY <1>4, <1>5, <3>4
    <3>6. /\ a.intent = x /\ (a.new # NULL => k = Len(stack))
          /\ a.user => UserTo(x, a.virt, a.level - 1)'
      BY <1>3, <1>6, <3>1, <3>2, <3>5, StillMeant
    <3>7. QED BY <3>2, <3>6
  <2>3. QED BY <1>13, <2>1, <2>2, CallsNow
<1>16. QED BY <1>12, <1>15

\* paging_unmap_page.
LEMMA UnmapMeant ==
    ASSUME Types, Owners, NEW place, Tree(place), Frames(place), CallsMeant, MapsWanted,
           paging_unmap_page
    PROVE  CallsMeant' /\ MapsWanted'
<1>1. stack = <<>> /\ stack' = stack
  BY DEF paging_unmap_page
<1>2. CallsMeant'
  BY <1>1 DEF CallsMeant
<1>3. PICK w, x : w = Head(todo).virt /\ x = pml4
  OBVIOUS
<1>4. /\ x \in Spaces /\ w \in Pages /\ ~ Mapped(x, w)'
      /\ \A s \in Spaces, v \in Pages : s # x \/ v # w => Stays(s, v)
  BY <1>3, UnmapUnmaps
<1>5. \A s \in Spaces, v \in Pages, l \in 1 .. Levels : TableAt(s, v, l)' = TableAt(s, v, l)
  BY LeafFrames
<1>6. \A u \in DOMAIN table :
          DOMAIN table'[u] = IF u = Leaf(x, w) THEN DOMAIN table[u] \ {Index(w, Levels)}
                                                ELSE DOMAIN table[u]
  BY <1>3, EntryGone
<1>7. \A u \in DOMAIN table : \A j \in DOMAIN table'[u] : table'[u][j] = table[u][j]
  BY EntryGone
<1>8. \A s \in Spaces :
          DOMAIN wanted'[s] = IF s = x THEN DOMAIN wanted[s] \ {w} ELSE DOMAIN wanted[s]
  BY <1>3, EntryGone
<1>9. /\ \A s \in Spaces : \A v \in DOMAIN wanted'[s] : wanted'[s][v] = wanted[s][v]
      /\ \A s \in Spaces : overlaid'[s] = IF s = x THEN overlaid[s] \ {w} ELSE overlaid[s]
  <2>1. overlaid' = [overlaid EXCEPT ![x] = @ \ {w}] /\ overlaid \in [Spaces -> SUBSET Pages]
    BY <1>3 DEF paging_unmap_page, Types
  <2>2. QED BY <1>4, <2>1, EntryGone
<1>10. FlagsKept(place)
  <2>1. Leaf(x, w) # NULL => place[Leaf(x, w)].level = Levels
    BY <1>4, LeafSpot
  <2>2. NULL \notin DOMAIN table /\ ~ (Levels < Levels)
    BY SomePages DEF Types
  <2>3. QED BY <1>6, <1>7, <2>1, <2>2 DEF FlagsKept
<1>11. ASSUME NEW s \in Spaces, NEW v \in Pages
       PROVE  WantedAt(s, v)'
  <2>1. CASE s = x /\ v = w
    BY <1>4, <1>8, <2>1 DEF WantedAt
  <2>2. CASE s # x \/ v # w
    <3>1. WantedAt(s, v) /\ Stays(s, v)
      BY <1>4, <2>2 DEF MapsWanted
    <3>2. v \in DOMAIN wanted'[s] <=> v \in DOMAIN wanted[s]
      BY <1>8, <2>2
    <3>3. v \in DOMAIN wanted[s] => wanted'[s][v] = wanted[s][v]
      BY <1>9, <3>2
    <3>4. v \notin overlaid'[s] => v \notin overlaid[s]
      BY <1>9, <2>2
    <3>5. QED BY <1>5, <1>10, <3>1, <3>2, <3>3, <3>4, StillWanted
  <2>3. QED BY <2>1, <2>2
<1>12. QED BY <1>2, <1>11 DEF MapsWanted

\* The steps that change no table but the top of a new space, and note nothing.
LEMMA OthersMeant ==
    ASSUME Types, Owners, NEW place, Tree(place), Frames(place), MapsWanted,
           \/ paging_reload_kernel_map \/ Call \/ Return \/ Begin \/ _ahci_driver_load_pci
    PROVE  MapsWanted'
<1>1. wanted' = wanted /\ overlaid' = overlaid
  BY DEF paging_reload_kernel_map, Call, task_new_page_table, NewSpace, pmap, punmap,
      fb_req,
         fb_kill, kb_man_take, kb_man_give, Syscall, Return, Begin, _ahci_driver_load_pci
<1>2. \A s \in Spaces, v \in Pages : Stays(s, v)
  BY OthersStay
<1>3. ASSUME root' = root, table' = table
      PROVE  MapsWanted'
  <2>1. FlagsKept(place)
    BY <1>3 DEF FlagsKept
  <2>2. \A s \in Spaces, v \in Pages, l \in 1 .. Levels : TableAt(s, v, l)' = TableAt(s, v, l)
    <3>1. \A t : Loose(t) => DOMAIN table'[t] = {}
      BY <1>3 DEF Loose
    <3>2. QED BY <1>3, <3>1, SameTree
  <2>3. QED BY <1>1, <1>2, <2>1, <2>2, StillNoted
<1>4. ASSUME NEW x \in Spaces, NEW ops, NEW name, NewSpace(x, ops, name),
             free # {}, root[x] = NULL
      PROVE  MapsWanted'
  <2>1. PICK n : n = NextPage
    OBVIOUS
  <2>2. n \notin DOMAIN table
    BY <1>4, <2>1, NextFree DEF Owners
  <2>3. table' = With(table, n, <<>>) /\ root' = [root EXCEPT ![x] = n]
    BY <1>4, <2>1 DEF NewSpace
  <2>4. FlagsKept(place)
    BY <2>2, <2>3, NewTable DEF FlagsKept
  <2>5. \A s \in Spaces, v \in Pages, l \in 1 .. Levels :
            s # x => TableAt(s, v, l)' = TableAt(s, v, l)
    <3>1. root \in [Spaces -> Pages]
      BY DEF Types
    <3>2. \A s \in Spaces, v \in Pages, l \in 1 .. Levels :
              TableAt(s, v, l)' = IF s = x THEN (IF l = 1 THEN n ELSE NULL) ELSE TableAt(s, v, l)
      BY <1>4, <2>2, <2>3, <3>1, WalksOfRoot
    <3>3. QED BY <3>2
  <2>6. ASSUME NEW v \in Pages PROVE ~ Mapped(x, v)
    <3>1. TableAt(x, v, 1) = NULL
      BY <1>4, AtRoot
    <3>2. TableAt(x, v, Levels) = NULL
      BY <3>1, NothingBelow, SomePages
    <3>3. QED BY <3>2 DEF Mapped, Leaf
  <2>7. \A s \in Spaces, v \in Pages : Mapped(s, v) =>
            \A l \in 1 .. Levels : TableAt(s, v, l)' = TableAt(s, v, l)
    BY <2>5, <2>6
  <2>8. QED BY <1>1, <1>2, <2>4, <2>7, StillNoted
<1>5. CASE paging_reload_kernel_map
  <2>1. free # {} /\ root["kernel"] = NULL /\ "kernel" \in Spaces
    BY <1>5, Taken DEF paging_reload_kernel_map, Owners, Spaces
  <2>2. NewSpace("kernel", KernelOps, "paging_reload_kernel_map")
    BY <1>5 DEF paging_reload_kernel_map
  <2>3. QED BY <1>4, <2>1, <2>2
<1>6. CASE task_new_page_table
  <2>1. free # {} /\ root["task"] = NULL /\ "task" \in Spaces
    BY <1>6 DEF task_new_page_table, Ready, Spaces
  <2>2. NewSpace("task", TaskOps(NextPage), "task_new_page_table")
    BY <1>6 DEF task_new_page_table
  <2>3. QED BY <1>4, <2>1, <2>2
<1>7. CASE \/ \E virt \in UserVirts \cup {NULL} : pmap(virt)
           \/ \E virt \in UserVirts \cup (own \cap Pool) : punmap(virt)
           \/ fb_req \/ fb_kill \/ kb_man_take \/ kb_man_give
  <2>1. root' = root /\ table' = table
    BY <1>7 DEF pmap, punmap, fb_req, fb_kill, kb_man_take, kb_man_give, Syscall, Ready
  <2>2. QED BY <1>3, <2>1
<1>8. CASE Return \/ _ahci_driver_load_pci \/ Begin
  <2>1. root' = root /\ table' = table
    BY <1>8 DEF Return, _ahci_driver_load_pci, Begin, caller
  <2>2. QED BY <1>3, <2>1
<1>9. QED BY <1>5, <1>6, <1>7, <1>8 DEF Call

\* The calls under way after these: none, or one that has just begun.
LEMMA OthersBegin ==
    ASSUME Types, Owners,
           \/ paging_reload_kernel_map \/ Call \/ Return \/ Begin
           \/ _ahci_driver_load_pci /\ ~ disturbed'
    PROVE  CallsMeant'
<1>1. CASE Begin
  <2>1. PICK o : o = Head(todo)
    OBVIOUS
  <2>2. PICK q : q = IF o.kind = "map" THEN o.phys ELSE paging_walk_page(pml4, o.virt)
    OBVIOUS
  <2>3. PICK f : f = Frame(o.virt, q, o.user, pml4)
    OBVIOUS
  <2>4. stack' = <<f>> /\ pml4' = pml4
    BY <1>1, <2>1, <2>2, <2>3 DEF Begin, caller
  <2>5. f.intent = pml4 /\ f.new = NULL /\ f.level = 1
    BY <2>3 DEF Frame
  <2>6. DOMAIN stack' = {1} /\ stack'[1] = f
    BY <2>4
  <2>7. QED BY <2>4, <2>5, <2>6, NewCall
<1>2. CASE _ahci_driver_load_pci /\ ~ disturbed'
  <2>1. PICK f : f = Frame(Abar, Abar, FALSE, "kernel")
    OBVIOUS
  <2>2. stack = <<>> /\ pml4 = "kernel" /\ pml4' = pml4 /\ stack' = Append(stack, f)
    BY <1>2, <2>1 DEF _ahci_driver_load_pci
  <2>3. f.intent = pml4 /\ f.new = NULL /\ f.level = 1
    BY <2>1, <2>2 DEF Frame
  <2>4. DOMAIN stack' = {1} /\ stack'[1] = f
    BY <2>2
  <2>5. QED BY <2>2, <2>3, <2>4, NewCall
<1>3. CASE paging_reload_kernel_map \/ Call \/ Return
  <2>1. stack = <<>> /\ stack' = stack
    BY <1>3 DEF paging_reload_kernel_map, Call, task_new_page_table, NewSpace, pmap, punmap,
        fb_req,
         fb_kill, kb_man_take, kb_man_give, Syscall, Ready, Return, Owners
  <2>2. DOMAIN stack' = {}
    BY <2>1
  <2>3. QED BY <2>2 DEF CallsMeant
<1>4. QED BY <1>1, <1>2, <1>3

\* The invariant of what was wanted.
LEMMA WantedHolds == Spec => [](TreeInv /\ SafeInv /\ NotDisturbed)
<1>1. Init => NotDisturbed
  <2> SUFFICES ASSUME Init PROVE NotDisturbed
    OBVIOUS
  <2>1. \A s \in Spaces, v \in Pages : ~ Mapped(s, v)
    BY NothingMapped
  <2>2. DOMAIN stack = {} /\ ~ disturbed
    BY DEF Init
  <2>3. ASSUME NEW s \in Spaces
        PROVE  DOMAIN wanted[s] = {}
    <3>1. wanted[s] = <<>>
      BY DEF Init
    <3>2. QED BY <3>1
  <2>4. CallsMeant
    BY <2>2 DEF CallsMeant
  <2>5. MapsWanted
    BY <2>1, <2>3 DEF MapsWanted, WantedAt
  <2>6. QED BY <2>2, <2>4, <2>5 DEF NotDisturbed
<1>2. TreeInv /\ SafeInv /\ NotDisturbed /\ [Next]_vars => NotDisturbed'
  <2> SUFFICES ASSUME TreeInv, SafeInv, NotDisturbed, [Next]_vars PROVE NotDisturbed'
    OBVIOUS
  <2>1. PICK place : Tree(place) /\ Frames(place)
    BY DEF TreeInv
  <2>2. Types /\ Owners
    BY DEF TreeInv
  <2>3. disturbed' => disturbed \/ loaded'
    <3>1. CASE _ahci_driver_load_pci
      BY <3>1 DEF _ahci_driver_load_pci
    <3>2. CASE UNCHANGED vars
      BY <3>2 DEF vars
    <3>3. CASE paging_reload_kernel_map \/ Call \/ Step
      BY <3>3 DEF paging_reload_kernel_map, Call, task_new_page_table, NewSpace, pmap,
          punmap, fb_req,
         fb_kill, kb_man_take, kb_man_give, Syscall, Return, Step, paging_map_page, Begin,
         Descend,
         AddTable, Install, SetLeaf, paging_unmap_page, caller
    <3>4. QED BY <3>1, <3>2, <3>3 DEF Next
  <2>4. loaded => loaded' /\ (disturbed => disturbed')
    <3>1. CASE _ahci_driver_load_pci
      BY <3>1 DEF _ahci_driver_load_pci
    <3>2. CASE UNCHANGED vars
      BY <3>2 DEF vars
    <3>3. CASE paging_reload_kernel_map \/ Call \/ Step
      BY <3>3 DEF paging_reload_kernel_map, Call, task_new_page_table, NewSpace, pmap,
          punmap, fb_req,
         fb_kill, kb_man_take, kb_man_give, Syscall, Return, Step, paging_map_page, Begin,
         Descend,
         AddTable, Install, SetLeaf, paging_unmap_page, caller
    <3>4. QED BY <3>1, <3>2, <3>3 DEF Next
  <2>5. SUFFICES ASSUME ~ disturbed' PROVE CallsMeant' /\ MapsWanted'
    BY <2>3, <2>4 DEF NotDisturbed
  <2>6. CallsMeant /\ MapsWanted
    BY <2>4, <2>5 DEF NotDisturbed
  <2>7. CASE Descend
    BY <2>1, <2>2, <2>6, <2>7, DescendMeant
  <2>8. CASE AddTable
    BY <2>1, <2>2, <2>6, <2>8, AddTableMeant
  <2>9. CASE Install
    BY <2>1, <2>2, <2>6, <2>9, InstallMeant
  <2>10. CASE SetLeaf
    BY <2>1, <2>2, <2>6, <2>10, SetLeafMeant
  <2>11. CASE paging_unmap_page
    BY <2>1, <2>2, <2>6, <2>11, UnmapMeant
  <2>12. CASE paging_reload_kernel_map \/ Call \/ Return \/ Begin \/ _ahci_driver_load_pci
    BY <2>1, <2>2, <2>5, <2>6, <2>12, OthersMeant, OthersBegin
  <2>13. CASE UNCHANGED vars
    <3>1. /\ stack' = stack /\ table' = table /\ pml4' = pml4 /\ root' = root /\ wanted' = wanted
          /\ overlaid' = overlaid
      BY <2>13 DEF vars
    <3>2. FlagsKept(place)
      BY <3>1 DEF FlagsKept
    <3>3. \A s \in Spaces, v \in Pages, l \in 1 .. Levels : TableAt(s, v, l)' = TableAt(s, v, l)
      <4>1. \A t : Loose(t) => DOMAIN table'[t] = {}
        BY <3>1 DEF Loose
      <4>2. QED BY <2>1, <2>2, <3>1, <4>1, SameTree
    <3>4. MapsWanted'
      BY <2>1, <2>2, <2>6, <2>13, <3>1, <3>2, <3>3, OthersStay, StillNoted
    <3>5. CallsMeant'
      <4>1. PICK r, p : r = stack /\ p = pml4
        OBVIOUS
      <4>2. ASSUME NEW k \in DOMAIN r
            PROVE  /\ r[k].intent = p
                   /\ r[k].new # NULL => k = Len(r) /\ At(r[k]) \notin DOMAIN table'[r[k].at]
                   /\ r[k].user => UserTo(p, r[k].virt, r[k].level - 1)'
        <5>1. PICK a : a = stack[k]
          OBVIOUS
        <5>2. a \in FrameSet /\ p \in Spaces
          BY <2>2, <4>1, <4>2, <5>1, ElementOfSeq DEF Types
        <5>3. a.virt \in Pages /\ a.level \in 1 .. Levels /\ Levels \in Nat
          BY <5>2, SomePages DEF FrameSet
        <5>4. \A l \in 1 .. a.level : TableAt(p, a.virt, l)' = TableAt(p, a.virt, l)
          BY <3>3, <5>2, <5>3
        <5>5. /\ a.intent = p
              /\ a.new # NULL => k = Len(stack) /\ At(a) \notin DOMAIN table[a.at]
              /\ a.user => UserTo(p, a.virt, a.level - 1)'
          BY <2>1, <2>2, <2>6, <3>2, <4>1, <4>2, <5>1, <5>4, StillMeant
        <5>6. QED BY <3>1, <4>1, <5>1, <5>5
      <4>3. r = stack' /\ p = pml4'
        BY <3>1, <4>1
      <4>4. QED BY <4>2, <4>3, CallsNow
    <3>6. QED BY <3>4, <3>5
  <2>14. QED BY <2>7, <2>8, <2>9, <2>10, <2>11, <2>12, <2>13 DEF Next, Step, paging_map_page
<1>3. QED BY <1>1, <1>2, SafeInvHolds, PTL DEF Spec

\* A tree built by a function that calls itself for each table it adds, to map it,
\* maps exactly the pages that were mapped and not unmapped, with the rights that
\* were asked for, unless the driver's call came in the middle of another: entries
\* are added to, and leaves replaced, but no right is lost on the way to a page that
\* has it, and none is won.  Pages are what they were mapped to, but where a page
\* was mapped upon another, which only the program can ask for.
THEOREM TreeStaysMap == Spec => []TreeIsMap
<1>1. TreeInv /\ SafeInv /\ NotDisturbed => TreeIsMap
  <2> SUFFICES ASSUME TreeInv, SafeInv, NotDisturbed PROVE TreeIsMap
    OBVIOUS
  <2>1. TypeOK
    BY TypesAreRight
  <2>2. PICK place : Tree(place)
    BY DEF TreeInv
  <2>3. Types
    BY DEF TreeInv
  <2>4. overlaid["kernel"] = {} /\ overlaid["task"] \subseteq UserVirts
    BY DEF SafeInv, OverlaidAsked
  <2>5. ASSUME ~ disturbed, NEW s \in Spaces, NEW mapping, mapping = Mapping(s)
        PROVE  /\ DOMAIN mapping = DOMAIN wanted[s]
               /\ \A v \in DOMAIN mapping :
                     /\ mapping[v].user = wanted[s][v].user
                     /\ v \notin overlaid[s] => mapping[v].at = wanted[s][v].at
    <3>1. \A v \in Pages : WantedAt(s, v)
      BY <2>5 DEF NotDisturbed, MapsWanted
    <3>2. /\ DOMAIN mapping = {v \in Pages : Mapped(s, v)}
          /\ \A v \in DOMAIN mapping :
                mapping[v] = Entry(paging_walk_page(s, v), UserMay(s, v))
      BY <2>5 DEF Mapping
    <3>3. DOMAIN mapping = DOMAIN wanted[s]
      <4>1. DOMAIN wanted[s] \subseteq Pages
        BY <2>3 DEF Types
      <4>2. QED BY <3>1, <3>2, <4>1 DEF WantedAt
    <3>4. ASSUME NEW v \in DOMAIN mapping
          PROVE  /\ mapping[v].user = wanted[s][v].user
                 /\ v \notin overlaid[s] => mapping[v].at = wanted[s][v].at
      <4>1. PICK e : e = LeafEntry(s, v)
        OBVIOUS
      <4>2. v \in Pages /\ Mapped(s, v)
        BY <3>2
      <4>3. e \in [at : Pages, user : BOOLEAN] /\ paging_walk_page(s, v) = e.at
        BY <2>2, <2>3, <4>1, <4>2, WalkPages DEF Entries
      <4>4. e.user <=> UserMay(s, v)
        BY <3>1, <4>1, <4>2, WayAndLeaf DEF WantedAt
      <4>5. UserMay(s, v) \in BOOLEAN
        BY DEF UserMay
      <4>6. e.user = UserMay(s, v)
        BY <4>3, <4>4, <4>5
      <4>7. mapping[v].at = e.at /\ mapping[v].user = e.user
        BY <3>2, <4>3, <4>6 DEF Entry
      <4>8. QED BY <3>1, <4>1, <4>2, <4>7 DEF WantedAt
    <3>5. QED BY <3>3, <3>4
  <2>6. QED BY <2>1, <2>4, <2>5 DEF TreeIsMap
<1>2. QED BY <1>1, WantedHolds, PTL
=============================================================================
