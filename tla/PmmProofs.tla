----------------------------- MODULE PmmProofs -----------------------------
(* What TLC checks of the physical memory manager on a few pages, proved   *)
(* for any number of pages, section slots and pool sizes and any boot      *)
(* memory map: type correctness, the tiling, that pages a client holds are *)
(* USED, that BAD pages stay BAD, and that the list implements PageMap.    *)
(*                                                                         *)
(* First, what the list surgery does to a section list of any length.      *)
EXTENDS Pmm, SequencesExt, SequenceTheorems, FiniteSetTheorems, TLAPS

\* RemoveAt drops the element at i and moves the later ones down.
LEMMA RemoveAtProperties ==
    ASSUME NEW S, NEW s \in Seq(S), NEW i \in 1 .. Len(s)
    PROVE  /\ RemoveAt(s, i) \in Seq(S)
           /\ Len(RemoveAt(s, i)) = Len(s) - 1
           /\ \A k \in 1 .. Len(s) - 1 :
                RemoveAt(s, i)[k] = IF k < i THEN s[k] ELSE s[k + 1]
<1> DEFINE a == SubSeq(s, 1, i - 1)
           b == SubSeq(s, i + 1, Len(s))
<1>1. /\ a \in Seq(S) /\ Len(a) = i - 1
      /\ \A k \in 1 .. i - 1 : a[k] = s[k]
  BY SubSeqProperties
<1>2. /\ b \in Seq(S) /\ Len(b) = Len(s) - i
      /\ \A k \in 1 .. Len(s) - i : b[k] = s[k + i]
  BY SubSeqProperties
<1> HIDE DEF a, b
<1>3. /\ a \o b \in Seq(S)
      /\ Len(a \o b) = Len(a) + Len(b)
      /\ \A k \in 1 .. Len(a) + Len(b) :
            (a \o b)[k] = IF k <= Len(a) THEN a[k] ELSE b[k - Len(a)]
  BY <1>1, <1>2, ConcatProperties
<1>4. RemoveAt(s, i) = a \o b
  BY DEF RemoveAt, a, b
<1>5. Len(a \o b) = Len(s) - 1
  BY <1>1, <1>2, <1>3
<1>6. ASSUME NEW k \in 1 .. Len(s) - 1
      PROVE  (a \o b)[k] = IF k < i THEN s[k] ELSE s[k + 1]
  BY <1>1, <1>2, <1>3
<1> QED BY <1>3, <1>4, <1>5, <1>6

\* InsertAt puts e at i and moves the element there and the later ones up.
LEMMA InsertAtProperties ==
    ASSUME NEW S, NEW s \in Seq(S), NEW i \in 1 .. Len(s) + 1, NEW e \in S
    PROVE  /\ InsertAt(s, i, e) \in Seq(S)
           /\ Len(InsertAt(s, i, e)) = Len(s) + 1
           /\ \A k \in 1 .. Len(s) + 1 :
                InsertAt(s, i, e)[k] =
                    IF k < i THEN s[k] ELSE IF k = i THEN e ELSE s[k - 1]
<1> DEFINE a == SubSeq(s, 1, i - 1)
           b == SubSeq(s, i, Len(s))
           c == a \o <<e>>
<1>1. /\ a \in Seq(S) /\ Len(a) = i - 1
      /\ \A k \in 1 .. i - 1 : a[k] = s[k]
  BY SubSeqProperties
<1>2. /\ b \in Seq(S) /\ Len(b) = Len(s) - i + 1
      /\ \A k \in 1 .. Len(s) - i + 1 : b[k] = s[k + i - 1]
  BY SubSeqProperties
<1> HIDE DEF a, b
<1>3. /\ c \in Seq(S) /\ Len(c) = i
      /\ \A k \in 1 .. i : c[k] = IF k < i THEN s[k] ELSE e
  BY <1>1
<1> HIDE DEF c
<1>4. /\ c \o b \in Seq(S)
      /\ Len(c \o b) = Len(c) + Len(b)
      /\ \A k \in 1 .. Len(c) + Len(b) :
            (c \o b)[k] = IF k <= Len(c) THEN c[k] ELSE b[k - Len(c)]
  BY <1>2, <1>3, ConcatProperties
<1>5. InsertAt(s, i, e) = c \o b
  BY DEF InsertAt, a, b, c
<1>6. Len(c \o b) = Len(s) + 1
  BY <1>2, <1>3, <1>4
<1>7. ASSUME NEW k \in 1 .. Len(s) + 1
      PROVE  (c \o b)[k] = IF k < i THEN s[k] ELSE IF k = i THEN e ELSE s[k - 1]
  BY <1>2, <1>3, <1>4
<1> QED BY <1>4, <1>5, <1>6, <1>7

----------------------------------------------------------------------------
(* Element by element. *)

\* Sec builds a section, with the fields it is given.
LEMMA SecType ==
    ASSUME NEW a \in Nat, NEW n \in Nat, NEW kind \in Kinds
    PROVE  /\ Sec(a, n, kind) \in Section
           /\ Sec(a, n, kind).start = a
           /\ Sec(a, n, kind).pages = n
           /\ Sec(a, n, kind).free = kind
BY DEF Sec, Section

\* The sections of a list are sections.
LEMMA ElementType ==
    ASSUME NEW s \in Seq(Section), NEW i \in 1 .. Len(s)
    PROVE  /\ s[i] \in Section
           /\ s[i].start \in Nat
           /\ s[i].pages \in Nat
           /\ s[i].free \in Kinds
<1>1. s[i] \in Section
  BY ElementOfSeq
<1>2. QED BY <1>1 DEF Section

\* A section ends at its start plus its length.
LEMMA EndType ==
    ASSUME NEW sec, sec.start \in Nat, sec.pages \in Nat
    PROVE  /\ End(sec) \in Nat
           /\ End(sec) = sec.start + sec.pages
<1>1. sec.start + sec.pages \in Nat
  OBVIOUS
<1>2. QED BY <1>1 DEF End

\* A section that grows by a page ends one page later.
LEMMA EndGrows ==
    ASSUME NEW a, NEW b, a.start \in Nat, a.pages \in Nat,
           b.start = a.start, b.pages = a.pages + 1
    PROVE  End(b) = End(a) + 1
BY DEF End

\* A section that starts a page later and is a page shorter ends where it did.
LEMMA EndStays ==
    ASSUME NEW a, NEW b, a.start \in Nat, a.pages \in Nat,
           b.start = a.start + 1, b.pages = a.pages - 1
    PROVE  End(b) = End(a)
BY DEF End

\* Retype changes the kind of one section.
LEMMA RetypeElements ==
    ASSUME NEW s \in Seq(Section), NEW i \in 1 .. Len(s), NEW kind \in Kinds
    PROVE  /\ Retype(s, i, kind) \in Seq(Section)
           /\ Len(Retype(s, i, kind)) = Len(s)
           /\ \A k \in 1 .. Len(s) :
                Retype(s, i, kind)[k] =
                    IF k = i THEN Sec(s[i].start, s[i].pages, kind) ELSE s[k]
<1>1. Sec(s[i].start, s[i].pages, kind) \in Section
  BY ElementType, SecType
<1>2. QED BY <1>1, ExceptSeq DEF Retype

\* A list with two sections replaced.
LEMMA TwoExcept ==
    ASSUME NEW s \in Seq(Section), NEW i \in 1 .. Len(s), NEW j \in 1 .. Len(s), i # j,
           NEW d \in Section, NEW e \in Section
    PROVE  /\ [s EXCEPT ![i] = d, ![j] = e] \in Seq(Section)
           /\ Len([s EXCEPT ![i] = d, ![j] = e]) = Len(s)
           /\ \A k \in 1 .. Len(s) :
                [s EXCEPT ![i] = d, ![j] = e][k] =
                    IF k = i THEN d ELSE IF k = j THEN e ELSE s[k]
<1> DEFINE t == [s EXCEPT ![i] = d]
<1>1. /\ t \in Seq(Section) /\ Len(t) = Len(s)
      /\ \A k \in 1 .. Len(s) : t[k] = IF k = i THEN d ELSE s[k]
  BY ExceptSeq
<1>2. [s EXCEPT ![i] = d, ![j] = e] = [t EXCEPT ![j] = e]
  OBVIOUS
<1> HIDE DEF t
<1>3. /\ [t EXCEPT ![j] = e] \in Seq(Section) /\ Len([t EXCEPT ![j] = e]) = Len(t)
      /\ \A k \in 1 .. Len(t) : [t EXCEPT ![j] = e][k] = IF k = j THEN e ELSE t[k]
  BY <1>1, ExceptSeq
<1>4. QED BY <1>1, <1>2, <1>3

\* ShiftDown moves the boundary between sections i - 1 and i up by a page.
LEMMA ShiftDownElements ==
    ASSUME NEW s \in Seq(Section), NEW i \in 2 .. Len(s), s[i].pages > 0
    PROVE  /\ ShiftDown(s, i) \in Seq(Section)
           /\ Len(ShiftDown(s, i)) = Len(s)
           /\ \A k \in 1 .. Len(s) :
                ShiftDown(s, i)[k] =
                    IF k = i - 1 THEN Sec(s[k].start, s[k].pages + 1, s[k].free)
                    ELSE IF k = i THEN Sec(s[k].start + 1, s[k].pages - 1, s[k].free)
                    ELSE s[k]
<1> DEFINE d == Sec(s[i - 1].start, s[i - 1].pages + 1, s[i - 1].free)
           e == Sec(s[i].start + 1, s[i].pages - 1, s[i].free)
<1>1. i \in 1 .. Len(s) /\ i - 1 \in 1 .. Len(s) /\ i - 1 # i
  OBVIOUS
<1>2. d \in Section
  <2>1. s[i - 1].start \in Nat /\ s[i - 1].pages + 1 \in Nat /\ s[i - 1].free \in Kinds
    BY <1>1, ElementType
  <2>2. QED BY <2>1, SecType
<1>3. e \in Section
  <2>1. s[i].start + 1 \in Nat /\ s[i].pages - 1 \in Nat /\ s[i].free \in Kinds
    BY <1>1, ElementType
  <2>2. QED BY <2>1, SecType
<1>4. ShiftDown(s, i) = [s EXCEPT ![i - 1] = d, ![i] = e]
  BY DEF ShiftDown
<1> HIDE DEF d, e
<1>5. /\ [s EXCEPT ![i - 1] = d, ![i] = e] \in Seq(Section)
      /\ Len([s EXCEPT ![i - 1] = d, ![i] = e]) = Len(s)
      /\ \A k \in 1 .. Len(s) :
            [s EXCEPT ![i - 1] = d, ![i] = e][k] =
                IF k = i - 1 THEN d ELSE IF k = i THEN e ELSE s[k]
  BY <1>1, <1>2, <1>3, TwoExcept
<1>6. QED BY <1>4, <1>5 DEF d, e

\* ShiftUp moves the boundary between sections i and i + 1 down by a page.
LEMMA ShiftUpElements ==
    ASSUME NEW s \in Seq(Section), NEW i \in 1 .. Len(s) - 1,
           s[i].pages > 0, s[i + 1].start > 0
    PROVE  /\ ShiftUp(s, i) \in Seq(Section)
           /\ Len(ShiftUp(s, i)) = Len(s)
           /\ \A k \in 1 .. Len(s) :
                ShiftUp(s, i)[k] =
                    IF k = i THEN Sec(s[k].start, s[k].pages - 1, s[k].free)
                    ELSE IF k = i + 1 THEN Sec(s[k].start - 1, s[k].pages + 1, s[k].free)
                    ELSE s[k]
<1> DEFINE d == Sec(s[i].start, s[i].pages - 1, s[i].free)
           e == Sec(s[i + 1].start - 1, s[i + 1].pages + 1, s[i + 1].free)
<1>1. i \in 1 .. Len(s) /\ i + 1 \in 1 .. Len(s) /\ i # i + 1
  OBVIOUS
<1>2. d \in Section
  <2>1. s[i].start \in Nat /\ s[i].pages - 1 \in Nat /\ s[i].free \in Kinds
    BY <1>1, ElementType
  <2>2. QED BY <2>1, SecType
<1>3. e \in Section
  <2>1. /\ s[i + 1].start - 1 \in Nat /\ s[i + 1].pages + 1 \in Nat
        /\ s[i + 1].free \in Kinds
    BY <1>1, ElementType
  <2>2. QED BY <2>1, SecType
<1>4. ShiftUp(s, i) = [s EXCEPT ![i] = d, ![i + 1] = e]
  BY DEF ShiftUp
<1> HIDE DEF d, e
<1>5. /\ [s EXCEPT ![i] = d, ![i + 1] = e] \in Seq(Section)
      /\ Len([s EXCEPT ![i] = d, ![i + 1] = e]) = Len(s)
      /\ \A k \in 1 .. Len(s) :
            [s EXCEPT ![i] = d, ![i + 1] = e][k] =
                IF k = i THEN d ELSE IF k = i + 1 THEN e ELSE s[k]
  BY <1>1, <1>2, <1>3, TwoExcept
<1>6. QED BY <1>4, <1>5 DEF d, e

\* Split cuts one section into two of its kind.
LEMMA SplitElements ==
    ASSUME NEW s \in Seq(Section), NEW i \in 1 .. Len(s), NEW at \in Nat,
           s[i].start <= at, Cuts(s, i, at)
    PROVE  /\ Split(s, i, at) \in Seq(Section)
           /\ Len(Split(s, i, at)) = Len(s) + 1
           /\ \A k \in 1 .. Len(s) + 1 :
                Split(s, i, at)[k] =
                    IF k < i THEN s[k]
                    ELSE IF k = i THEN Sec(s[i].start, at - s[i].start, s[i].free)
                    ELSE IF k = i + 1 THEN Sec(at, End(s[i]) - at, s[i].free)
                    ELSE s[k - 1]
<1> DEFINE d == Sec(s[i].start, at - s[i].start, s[i].free)
           e == Sec(at, End(s[i]) - at, s[i].free)
           t == [s EXCEPT ![i] = d]
<1>1. /\ s[i].start \in Nat /\ s[i].pages \in Nat /\ s[i].free \in Kinds
      /\ at - s[i].start \in Nat /\ End(s[i]) - at \in Nat
  BY ElementType DEF Cuts, End
<1>2. d \in Section /\ e \in Section
  BY <1>1, SecType
<1>3. Split(s, i, at) = InsertAt(t, i + 1, e)
  BY DEF Split
<1> HIDE DEF d, e
<1>4. /\ t \in Seq(Section) /\ Len(t) = Len(s)
      /\ \A k \in 1 .. Len(s) : t[k] = IF k = i THEN d ELSE s[k]
  BY <1>2, ExceptSeq
<1> HIDE DEF t
<1>5. /\ InsertAt(t, i + 1, e) \in Seq(Section)
      /\ Len(InsertAt(t, i + 1, e)) = Len(t) + 1
      /\ \A k \in 1 .. Len(t) + 1 :
            InsertAt(t, i + 1, e)[k] =
                IF k < i + 1 THEN t[k] ELSE IF k = i + 1 THEN e ELSE t[k - 1]
  <2> DEFINE j == i + 1
  <2>1. j \in 1 .. Len(t) + 1
    BY <1>4
  <2>2. t \in Seq(Section) /\ e \in Section
    BY <1>2, <1>4
  <2> HIDE DEF j
  <2>3. InsertAt(t, j, e) \in Seq(Section)
    BY <2>1, <2>2, InsertAtProperties
  <2>4. Len(InsertAt(t, j, e)) = Len(t) + 1
    BY <2>1, <2>2, InsertAtProperties
  <2>5. ASSUME NEW k \in 1 .. Len(t) + 1
        PROVE  InsertAt(t, j, e)[k] =
                   IF k < j THEN t[k] ELSE IF k = j THEN e ELSE t[k - 1]
    BY <2>1, <2>2, InsertAtProperties
  <2>6. QED BY <2>3, <2>4, <2>5 DEF j
<1>6. ASSUME NEW k \in 1 .. Len(s) + 1
      PROVE  InsertAt(t, i + 1, e)[k] =
                IF k < i THEN s[k] ELSE IF k = i THEN d
                ELSE IF k = i + 1 THEN e ELSE s[k - 1]
  <2> HIDE DEF d
  <2>1. InsertAt(t, i + 1, e)[k] =
            IF k < i + 1 THEN t[k] ELSE IF k = i + 1 THEN e ELSE t[k - 1]
    BY <1>4, <1>5
  <2>2. k < i + 1 => t[k] = IF k = i THEN d ELSE s[k]
    BY <1>4
  <2>3. k > i + 1 => t[k - 1] = s[k - 1]
    BY <1>4
  <2>4. QED BY <2>1, <2>2, <2>3
<1>7. /\ Split(s, i, at) \in Seq(Section)
      /\ Len(Split(s, i, at)) = Len(s) + 1
  BY <1>3, <1>4, <1>5
<1>8. \A k \in 1 .. Len(s) + 1 :
        Split(s, i, at)[k] =
            IF k < i THEN s[k] ELSE IF k = i THEN d
            ELSE IF k = i + 1 THEN e ELSE s[k - 1]
  BY <1>3, <1>6
<1>9. QED BY <1>7, <1>8 DEF d, e

\* Merge replaces sections i and i + 1 by one.
LEMMA MergeElements ==
    ASSUME NEW s \in Seq(Section), NEW i \in 1 .. Len(s) - 1
    PROVE  /\ Merge(s, i) \in Seq(Section)
           /\ Len(Merge(s, i)) = Len(s) - 1
           /\ \A k \in 1 .. Len(s) - 1 :
                Merge(s, i)[k] =
                    IF k < i THEN s[k]
                    ELSE IF k = i
                    THEN Sec(s[i].start, s[i].pages + s[i + 1].pages, s[i].free)
                    ELSE s[k + 1]
<1> DEFINE d == Sec(s[i].start, s[i].pages + s[i + 1].pages, s[i].free)
           t == [s EXCEPT ![i] = d]
<1>1. i \in 1 .. Len(s) /\ i + 1 \in 1 .. Len(s)
  OBVIOUS
<1>2. d \in Section
  <2>1. /\ s[i].start \in Nat /\ s[i].pages + s[i + 1].pages \in Nat
        /\ s[i].free \in Kinds
    BY <1>1, ElementType
  <2>2. QED BY <2>1, SecType
<1>3. Merge(s, i) = RemoveAt(t, i + 1)
  BY DEF Merge
<1> HIDE DEF d
<1>4. /\ t \in Seq(Section) /\ Len(t) = Len(s)
      /\ \A k \in 1 .. Len(s) : t[k] = IF k = i THEN d ELSE s[k]
  BY <1>1, <1>2, ExceptSeq
<1> HIDE DEF t
<1>5. /\ RemoveAt(t, i + 1) \in Seq(Section)
      /\ Len(RemoveAt(t, i + 1)) = Len(t) - 1
      /\ \A k \in 1 .. Len(t) - 1 :
            RemoveAt(t, i + 1)[k] = IF k < i + 1 THEN t[k] ELSE t[k + 1]
  <2>1. i + 1 \in 1 .. Len(t)
    BY <1>1, <1>4
  <2> QED BY <2>1, <1>4, RemoveAtProperties
<1>6. ASSUME NEW k \in 1 .. Len(s) - 1
      PROVE  RemoveAt(t, i + 1)[k] =
                IF k < i THEN s[k] ELSE IF k = i THEN d ELSE s[k + 1]
  <2>1. RemoveAt(t, i + 1)[k] = IF k < i + 1 THEN t[k] ELSE t[k + 1]
    BY <1>4, <1>5
  <2>2. k < i + 1 => t[k] = IF k = i THEN d ELSE s[k]
    BY <1>4
  <2>3. k > i => t[k + 1] = s[k + 1]
    BY <1>4
  <2>4. QED BY <2>1, <2>2, <2>3
<1>7. /\ Merge(s, i) \in Seq(Section)
      /\ Len(Merge(s, i)) = Len(s) - 1
  BY <1>3, <1>4, <1>5
<1>8. \A k \in 1 .. Len(s) - 1 :
        Merge(s, i)[k] = IF k < i THEN s[k] ELSE IF k = i THEN d ELSE s[k + 1]
  BY <1>3, <1>6
<1>9. QED BY <1>7, <1>8 DEF d

----------------------------------------------------------------------------
(* Tiling, and which pages are of which kind. *)

List == Seq(Section) \ {<<>>}

\* Page x becomes one of kind, and nothing else changes.
Moves(s, t, x, kind) ==
    \A other \in Kinds :
        KindPages(t, other) = IF other = kind THEN KindPages(s, other) \cup {x}
                              ELSE KindPages(s, other) \ {x}

SamePages(s, t) == \A kind \in Kinds : KindPages(t, kind) = KindPages(s, kind)

\* A list has a first and a last section.
LEMMA ListProperties ==
    ASSUME NEW s \in List
    PROVE  /\ s \in Seq(Section)
           /\ Len(s) \in Nat /\ Len(s) >= 1
           /\ DOMAIN s = 1 .. Len(s)
<1>1. s \in Seq(Section) /\ s # <<>>
  BY DEF List
<1>2. Len(s) \in Nat \ {0}
  BY <1>1, EmptySeq
<1>3. QED BY <1>1, <1>2, LenProperties

\* A sequence of sections that is not empty is a list.
LEMMA IsList ==
    ASSUME NEW s \in Seq(Section), Len(s) >= 1
    PROVE  s \in List
BY EmptySeq DEF List

\* No page is in two sections.
LEMMA OneSection ==
    ASSUME NEW s \in List, Tiled(s), NEW i \in 1 .. Len(s), NEW j \in 1 .. Len(s),
           NEW p \in Nat, Covers(s[i], p), Covers(s[j], p)
    PROVE  i = j
<1>1. /\ s[i].start \in Nat /\ s[i].pages \in Nat
      /\ s[j].start \in Nat /\ s[j].pages \in Nat
  BY ListProperties, ElementType
<1>2. i < j => End(s[i]) <= s[j].start
  BY DEF Tiled
<1>3. j < i => End(s[j]) <= s[i].start
  BY DEF Tiled
<1>4. QED BY <1>1, <1>2, <1>3, ListProperties DEF Covers, End

\* The kinds of pages, spelled with the length of the list.
LEMMA KindPagesProperties ==
    ASSUME NEW s \in List, NEW kind, NEW p
    PROVE  p \in KindPages(s, kind) <=>
             p \in Pages /\ \E i \in 1 .. Len(s) : s[i].free = kind /\ Covers(s[i], p)
BY ListProperties DEF KindPages

\* Retype keeps the tiling; it moves the page of a section of one page.
LEMMA RetypePages ==
    ASSUME NEW s \in List, Tiled(s), NEW i \in 1 .. Len(s), NEW kind \in Kinds,
           s[i].pages = 1, s[i].start \in Pages
    PROVE  /\ Retype(s, i, kind) \in List
           /\ Tiled(Retype(s, i, kind))
           /\ Moves(s, Retype(s, i, kind), s[i].start, kind)
<1> DEFINE t == Retype(s, i, kind)
           x == s[i].start
<1>1. /\ s \in Seq(Section) /\ Len(s) \in Nat /\ Len(s) >= 1
      /\ t \in Seq(Section) /\ Len(t) = Len(s)
      /\ \A k \in 1 .. Len(s) : t[k] = IF k = i THEN Sec(s[i].start, s[i].pages, kind) ELSE s[k]
  BY ListProperties, RetypeElements
<1>2. t \in List
  BY <1>1, IsList
<1>3. \A k \in 1 .. Len(s) :
        /\ s[k].start \in Nat /\ s[k].pages \in Nat
        /\ t[k].start = s[k].start /\ t[k].pages = s[k].pages
        /\ t[k].free = IF k = i THEN kind ELSE s[k].free
  BY <1>1, ElementType DEF Sec
<1> HIDE DEF t
<1>4. Tiled(t)
  BY <1>1, <1>3 DEF Tiled, End
<1>5. Covers(s[i], x)
  BY <1>3 DEF Covers, End
<1>6. ASSUME NEW other \in Kinds, NEW p \in Pages
      PROVE  p \in KindPages(t, other) <=>
                IF p = x THEN other = kind ELSE p \in KindPages(s, other)
  <2>1. p \in Nat
    BY DEF Pages
  <2>2. \A k \in 1 .. Len(s) : Covers(t[k], p) <=> Covers(s[k], p)
    BY <1>3 DEF Covers, End
  <2>3. CASE p = x
    <3>1. \A k \in 1 .. Len(s) : Covers(t[k], p) <=> k = i
      BY <1>5, <2>1, <2>2, <2>3, OneSection
    <3>2. QED BY <1>1, <1>2, <1>3, <2>3, <3>1, KindPagesProperties
  <2>4. CASE p # x
    <3>1. ~ Covers(s[i], p)
      BY <1>3, <2>1, <2>4 DEF Covers, End
    <3>2. \A k \in 1 .. Len(s) :
            t[k].free = other /\ Covers(t[k], p) <=> s[k].free = other /\ Covers(s[k], p)
      BY <1>3, <2>2, <3>1
    <3>3. QED BY <1>1, <1>2, <2>4, <3>2, KindPagesProperties
  <2>5. QED BY <2>3, <2>4
<1>7. Moves(s, t, x, kind)
  BY <1>6 DEF Moves, KindPages
<1>8. QED BY <1>2, <1>4, <1>7 DEF t

\* ShiftDown keeps the tiling and moves the first page of section i.
LEMMA ShiftDownPages ==
    ASSUME NEW s \in List, Tiled(s), NEW i \in 2 .. Len(s), s[i].pages > 0,
           s[i].start \in Pages
    PROVE  /\ ShiftDown(s, i) \in List
           /\ Tiled(ShiftDown(s, i))
           /\ Moves(s, ShiftDown(s, i), s[i].start, s[i - 1].free)
<1> DEFINE t == ShiftDown(s, i)
           x == s[i].start
           kind == s[i - 1].free
<1>1. /\ s \in Seq(Section) /\ Len(s) \in Nat /\ Len(s) >= 1
      /\ t \in Seq(Section) /\ Len(t) = Len(s)
      /\ \A k \in 1 .. Len(s) : t[k] =
            IF k = i - 1 THEN Sec(s[k].start, s[k].pages + 1, s[k].free)
            ELSE IF k = i THEN Sec(s[k].start + 1, s[k].pages - 1, s[k].free)
            ELSE s[k]
  BY ListProperties, ShiftDownElements
<1>2. t \in List
  BY <1>1, IsList
<1>3. \A k \in 1 .. Len(s) :
        /\ s[k].start \in Nat /\ s[k].pages \in Nat
        /\ t[k].start = IF k = i THEN s[k].start + 1 ELSE s[k].start
        /\ t[k].pages = IF k = i - 1 THEN s[k].pages + 1
                        ELSE IF k = i THEN s[k].pages - 1 ELSE s[k].pages
        /\ t[k].free = s[k].free
  <2>1. \A k \in 1 .. Len(s) : s[k].start \in Nat /\ s[k].pages \in Nat
    BY <1>1, ElementType
  <2>2. ASSUME NEW k \in 1 .. Len(s)
        PROVE  /\ t[k].start = IF k = i THEN s[k].start + 1 ELSE s[k].start
               /\ t[k].pages = IF k = i - 1 THEN s[k].pages + 1
                               ELSE IF k = i THEN s[k].pages - 1 ELSE s[k].pages
               /\ t[k].free = s[k].free
    <3>1. CASE k = i - 1
      <4>1. t[k] = Sec(s[k].start, s[k].pages + 1, s[k].free)
        BY <1>1, <3>1
      <4>2. QED BY <3>1, <4>1 DEF Sec
    <3>2. CASE k = i
      <4>1. t[k] = Sec(s[k].start + 1, s[k].pages - 1, s[k].free)
        BY <1>1, <3>2
      <4>2. QED BY <3>2, <4>1 DEF Sec
    <3>3. CASE k # i - 1 /\ k # i
      BY <1>1, <3>3
    <3>4. QED BY <3>1, <3>2, <3>3
  <2>3. QED BY <2>1, <2>2
<1> HIDE DEF t
<1>e. \A k \in 1 .. Len(s) :
        /\ End(s[k]) \in Nat
        /\ End(t[k]) = IF k = i - 1 THEN End(s[k]) + 1 ELSE End(s[k])
  <2> SUFFICES ASSUME NEW k \in 1 .. Len(s)
               PROVE  /\ End(s[k]) \in Nat
                      /\ End(t[k]) = IF k = i - 1 THEN End(s[k]) + 1 ELSE End(s[k])
    OBVIOUS
  <2>1. /\ s[k].start \in Nat /\ s[k].pages \in Nat
        /\ t[k].start = IF k = i THEN s[k].start + 1 ELSE s[k].start
        /\ t[k].pages = IF k = i - 1 THEN s[k].pages + 1
                        ELSE IF k = i THEN s[k].pages - 1 ELSE s[k].pages
    BY <1>3
  <2>2. /\ End(s[k]) \in Nat /\ End(s[k]) = s[k].start + s[k].pages
        /\ End(t[k]) = t[k].start + t[k].pages
    BY <2>1, EndType DEF End
  <2>3. CASE k = i - 1
    <3>1. k # i
      BY <1>1, <2>3
    <3>2. t[k].start = s[k].start /\ t[k].pages = s[k].pages + 1
      BY <2>1, <2>3, <3>1, Zenon
    <3>3. End(t[k]) = End(s[k]) + 1
      BY <2>1, <3>2, EndGrows, Zenon
    <3>4. QED BY <2>2, <2>3, <3>3, Zenon
  <2>4. CASE k = i
    <3>1. k # i - 1
      BY <1>1, <2>4
    <3>2. t[k].start = s[k].start + 1 /\ t[k].pages = s[k].pages - 1
      BY <2>1, <2>4, <3>1, Zenon
    <3>3. End(t[k]) = End(s[k])
      BY <2>1, <3>2, EndStays, Zenon
    <3>4. QED BY <2>2, <3>1, <3>3, Zenon
  <2>5. CASE k # i - 1 /\ k # i
    <3>1. t[k].start = s[k].start /\ t[k].pages = s[k].pages
      BY <2>1, <2>5
    <3>2. QED BY <2>1, <2>2, <2>5, <3>1
  <2>6. QED BY <2>3, <2>4, <2>5
<1>4. i - 1 \in 1 .. Len(s) /\ i \in 1 .. Len(s) /\ s[i].start = End(s[i - 1])
  <2>1. i - 1 \in 1 .. Len(s) - 1 /\ (i - 1) + 1 = i
    BY <1>1
  <2>2. QED BY <2>1 DEF Tiled
<1>5. Tiled(t)
  <2>1. t[1].start = 0
    BY <1>1, <1>3 DEF Tiled
  <2>2. End(t[Len(t)]) = TotalPages
    <3>1. Len(t) = Len(s) /\ Len(s) \in 1 .. Len(s) /\ Len(s) # i - 1
      BY <1>1, <1>3
    <3>2. End(s[Len(s)]) = TotalPages
      BY DEF Tiled
    <3>3. QED BY <1>e, <3>1, <3>2
  <2>3. ASSUME NEW k \in 1 .. Len(t) - 1 PROVE t[k + 1].start = End(t[k])
    <3>1. k \in 1 .. Len(s) /\ k + 1 \in 1 .. Len(s) /\ s[k + 1].start = End(s[k])
      BY <1>1 DEF Tiled
    <3>2. /\ t[k + 1].start = IF k + 1 = i THEN s[k + 1].start + 1 ELSE s[k + 1].start
          /\ End(t[k]) = IF k = i - 1 THEN End(s[k]) + 1 ELSE End(s[k])
      BY <1>3, <1>e, <3>1
    <3>3. QED BY <3>1, <3>2
  <2>4. ASSUME NEW j \in 1 .. Len(t), NEW k \in 1 .. Len(t), j < k
        PROVE  End(t[j]) <= t[k].start
    <3>1. j \in 1 .. Len(s) /\ k \in 1 .. Len(s) /\ End(s[j]) <= s[k].start
      BY <1>1, <2>4 DEF Tiled
    <3>2. j = i - 1 /\ k > i => End(s[i]) <= s[k].start /\ End(s[j]) + 1 <= End(s[i])
      <4>1. s[i].pages \in Nat /\ End(s[i]) = s[i].start + s[i].pages
        BY <1>3, <1>4 DEF End
      <4>2. k > i => End(s[i]) <= s[k].start
        BY <1>4, <3>1 DEF Tiled
      <4>3. s[i].start \in Nat
        BY <1>3, <1>4
      <4>4. QED BY <1>4, <4>1, <4>2, <4>3
    <3>3. /\ s[k].start \in Nat /\ End(s[j]) \in Nat /\ s[i].start \in Nat /\ End(s[i]) \in Nat
          /\ t[k].start = IF k = i THEN s[k].start + 1 ELSE s[k].start
          /\ End(t[j]) = IF j = i - 1 THEN End(s[j]) + 1 ELSE End(s[j])
      BY <1>3, <1>4, <1>e, <3>1
    <3>4. CASE j = i - 1 /\ k = i
      BY <1>4, <3>3, <3>4
    <3>5. CASE j = i - 1 /\ k > i
      BY <3>2, <3>3, <3>5
    <3>6. CASE j # i - 1
      BY <3>1, <3>3, <3>6
    <3>7. QED BY <1>1, <2>4, <3>4, <3>5, <3>6
  <2>5. QED BY <2>1, <2>2, <2>3, <2>4 DEF Tiled
<1>6. Covers(t[i - 1], x)
  BY <1>3, <1>4 DEF Covers, End
<1>7. ASSUME NEW other \in Kinds, NEW p \in Pages
      PROVE  p \in KindPages(t, other) <=>
                IF p = x THEN other = kind ELSE p \in KindPages(s, other)
  <2>1. p \in Nat
    BY DEF Pages
  <2>2. CASE p = x
    <3>1. \A k \in 1 .. Len(t) : Covers(t[k], p) <=> k = i - 1
      BY <1>1, <1>2, <1>4, <1>5, <1>6, <2>1, <2>2, OneSection
    <3>2. QED BY <1>1, <1>2, <1>3, <1>4, <2>2, <3>1, KindPagesProperties
  <2>3. CASE p # x
    <3>1. ASSUME NEW k \in 1 .. Len(s)
          PROVE  Covers(t[k], p) <=> Covers(s[k], p)
      <4>1. /\ s[k].start \in Nat /\ End(s[k]) \in Nat
            /\ t[k].start = IF k = i THEN s[k].start + 1 ELSE s[k].start
            /\ End(t[k]) = IF k = i - 1 THEN End(s[k]) + 1 ELSE End(s[k])
        BY <1>3, <1>e
      <4>2. k = i - 1 => End(s[k]) = x
        BY <1>4
      <4>3. QED BY <2>1, <2>3, <4>1, <4>2 DEF Covers
    <3>2. \A k \in 1 .. Len(s) :
            t[k].free = other /\ Covers(t[k], p) <=> s[k].free = other /\ Covers(s[k], p)
      BY <1>3, <3>1
    <3>3. QED BY <1>1, <1>2, <2>3, <3>2, KindPagesProperties
  <2>4. QED BY <2>2, <2>3
<1>8. Moves(s, t, x, kind)
  BY <1>7 DEF Moves, KindPages
<1>9. QED BY <1>2, <1>5, <1>8 DEF t

\* ShiftUp keeps the tiling and moves the last page of section i.
LEMMA ShiftUpPages ==
    ASSUME NEW s \in List, Tiled(s), NEW i \in 1 .. Len(s) - 1, s[i].pages > 0,
           NEW x \in Pages, x + 1 = s[i + 1].start
    PROVE  /\ ShiftUp(s, i) \in List
           /\ Tiled(ShiftUp(s, i))
           /\ Moves(s, ShiftUp(s, i), x, s[i + 1].free)
<1> DEFINE t == ShiftUp(s, i)
           kind == s[i + 1].free
<1>0. x \in Nat
  BY DEF Pages
<1>1. /\ s \in Seq(Section) /\ Len(s) \in Nat /\ Len(s) >= 1
      /\ t \in Seq(Section) /\ Len(t) = Len(s)
      /\ \A k \in 1 .. Len(s) : t[k] =
            IF k = i THEN Sec(s[k].start, s[k].pages - 1, s[k].free)
            ELSE IF k = i + 1 THEN Sec(s[k].start - 1, s[k].pages + 1, s[k].free)
            ELSE s[k]
  BY <1>0, ListProperties, ShiftUpElements
<1>2. t \in List
  BY <1>1, IsList
<1>3. \A k \in 1 .. Len(s) :
        /\ s[k].start \in Nat /\ s[k].pages \in Nat
        /\ t[k].start = IF k = i + 1 THEN s[k].start - 1 ELSE s[k].start
        /\ t[k].pages = IF k = i THEN s[k].pages - 1
                        ELSE IF k = i + 1 THEN s[k].pages + 1 ELSE s[k].pages
        /\ t[k].free = s[k].free
  <2>1. \A k \in 1 .. Len(s) : s[k].start \in Nat /\ s[k].pages \in Nat
    BY <1>1, ElementType
  <2>2. ASSUME NEW k \in 1 .. Len(s)
        PROVE  /\ t[k].start = IF k = i + 1 THEN s[k].start - 1 ELSE s[k].start
               /\ t[k].pages = IF k = i THEN s[k].pages - 1
                               ELSE IF k = i + 1 THEN s[k].pages + 1 ELSE s[k].pages
               /\ t[k].free = s[k].free
    <3>1. CASE k = i
      <4>1. t[k] = Sec(s[k].start, s[k].pages - 1, s[k].free)
        BY <1>1, <3>1
      <4>2. QED BY <3>1, <4>1 DEF Sec
    <3>2. CASE k = i + 1
      <4>1. t[k] = Sec(s[k].start - 1, s[k].pages + 1, s[k].free)
        BY <1>1, <3>2
      <4>2. QED BY <3>2, <4>1 DEF Sec
    <3>3. CASE k # i /\ k # i + 1
      BY <1>1, <3>3
    <3>4. QED BY <3>1, <3>2, <3>3
  <2>3. QED BY <2>1, <2>2
<1> HIDE DEF t
<1>e. \A k \in 1 .. Len(s) :
        /\ End(s[k]) \in Nat
        /\ End(t[k]) = IF k = i THEN End(s[k]) - 1 ELSE End(s[k])
  <2> SUFFICES ASSUME NEW k \in 1 .. Len(s)
               PROVE  /\ End(s[k]) \in Nat
                      /\ End(t[k]) = IF k = i THEN End(s[k]) - 1 ELSE End(s[k])
    OBVIOUS
  <2>1. /\ s[k].start \in Nat /\ s[k].pages \in Nat
        /\ t[k].start = IF k = i + 1 THEN s[k].start - 1 ELSE s[k].start
        /\ t[k].pages = IF k = i THEN s[k].pages - 1
                        ELSE IF k = i + 1 THEN s[k].pages + 1 ELSE s[k].pages
    BY <1>3
  <2>2. End(s[k]) = s[k].start + s[k].pages /\ End(t[k]) = t[k].start + t[k].pages
    BY DEF End
  <2>3. CASE k = i
    <3>1. i # i + 1
      BY <1>1
    <3>2. t[k].start = s[k].start /\ t[k].pages = s[k].pages - 1
      BY <2>1, <2>3, <3>1, Zenon
    <3>3. QED BY <2>1, <2>2, <2>3, <3>2
  <2>4. CASE k = i + 1
    <3>1. k # i
      BY <1>1, <2>4
    <3>2. t[k].start = s[k].start - 1 /\ t[k].pages = s[k].pages + 1
      BY <2>1, <2>4, <3>1, Zenon
    <3>3. s[k].start \in Int /\ s[k].pages \in Int
      BY <2>1
    <3>4. End(t[k]) = End(s[k])
      BY <2>2, <3>2, <3>3
    <3>5. QED BY <2>1, <2>2, <3>1, <3>4
  <2>5. CASE k # i /\ k # i + 1
    <3>1. t[k].start = s[k].start /\ t[k].pages = s[k].pages
      BY <2>1, <2>5
    <3>2. QED BY <2>1, <2>2, <2>5, <3>1
  <2>6. QED BY <2>3, <2>4, <2>5
<1>4. i \in 1 .. Len(s) /\ i + 1 \in 1 .. Len(s) /\ s[i + 1].start = End(s[i])
  <2>1. i \in 1 .. Len(s) /\ i + 1 \in 1 .. Len(s)
    BY <1>1
  <2>2. s[i + 1].start = End(s[i])
    BY DEF Tiled
  <2>3. QED BY <2>1, <2>2
<1>5. Tiled(t)
  <2>1. t[1].start = 0
    <3>1. 1 \in 1 .. Len(s) /\ 1 # i + 1
      BY <1>1
    <3>2. t[1].start = s[1].start
      BY <1>3, <3>1
    <3>3. QED BY <3>2 DEF Tiled
  <2>2. End(t[Len(t)]) = TotalPages
    <3>1. Len(s) \in 1 .. Len(s) /\ Len(s) # i
      BY <1>1
    <3>2. End(t[Len(s)]) = End(s[Len(s)])
      BY <1>e, <3>1
    <3>3. QED BY <1>1, <3>2 DEF Tiled
  <2>3. ASSUME NEW k \in 1 .. Len(t) - 1 PROVE t[k + 1].start = End(t[k])
    <3>1. k \in 1 .. Len(s) /\ k + 1 \in 1 .. Len(s) /\ s[k + 1].start = End(s[k])
      <4>1. k \in 1 .. Len(s) - 1
        BY <1>1
      <4>2. QED BY <1>1, <4>1 DEF Tiled
    <3>2. /\ t[k + 1].start = IF k + 1 = i + 1 THEN s[k + 1].start - 1 ELSE s[k + 1].start
          /\ End(t[k]) = IF k = i THEN End(s[k]) - 1 ELSE End(s[k])
      BY <1>3, <1>e, <3>1
    <3>3. QED BY <3>1, <3>2
  <2>4. ASSUME NEW j \in 1 .. Len(t), NEW k \in 1 .. Len(t), j < k
        PROVE  End(t[j]) <= t[k].start
    <3>1. j \in 1 .. Len(s) /\ k \in 1 .. Len(s) /\ End(s[j]) <= s[k].start
      BY <1>1, <2>4 DEF Tiled
    <3>2. j < i => End(s[j]) <= s[i].start /\ s[i].start < s[i + 1].start
      <4>1. s[i].pages \in Nat /\ s[i].start \in Nat /\ s[i + 1].start = s[i].start + s[i].pages
        BY <1>3, <1>4 DEF End
      <4>2. j < i => End(s[j]) <= s[i].start
        BY <1>4, <3>1 DEF Tiled
      <4>3. QED BY <4>1, <4>2
    <3>3. /\ s[k].start \in Nat /\ End(s[j]) \in Nat /\ s[i].start \in Nat
          /\ t[k].start = IF k = i + 1 THEN s[k].start - 1 ELSE s[k].start
          /\ End(t[j]) = IF j = i THEN End(s[j]) - 1 ELSE End(s[j])
      BY <1>3, <1>4, <1>e, <3>1
    <3>4. CASE j = i
      BY <1>0, <1>4, <2>4, <3>1, <3>3, <3>4
    <3>5. CASE j # i /\ k = i + 1
      BY <1>1, <2>4, <3>2, <3>3, <3>5
    <3>6. CASE j # i /\ k # i + 1
      BY <3>1, <3>3, <3>6
    <3>7. QED BY <3>4, <3>5, <3>6
  <2>5. QED BY <2>1, <2>2, <2>3, <2>4 DEF Tiled
<1>6. Covers(t[i + 1], x)
  <2>1. /\ t[i + 1].start = x /\ End(t[i + 1]) = End(s[i + 1])
        /\ s[i + 1].pages \in Nat /\ s[i + 1].start = x + 1
    BY <1>0, <1>1, <1>3, <1>4, <1>e
  <2>2. End(s[i + 1]) >= x + 1
    BY <1>0, <2>1 DEF End
  <2>3. QED BY <1>0, <2>1, <2>2 DEF Covers, End
<1>7. ASSUME NEW other \in Kinds, NEW p \in Pages
      PROVE  p \in KindPages(t, other) <=>
                IF p = x THEN other = kind ELSE p \in KindPages(s, other)
  <2>1. p \in Nat
    BY DEF Pages
  <2>2. CASE p = x
    <3>1. \A k \in 1 .. Len(t) : Covers(t[k], p) <=> k = i + 1
      BY <1>1, <1>2, <1>4, <1>5, <1>6, <2>1, <2>2, OneSection
    <3>2. QED BY <1>1, <1>2, <1>3, <1>4, <2>2, <3>1, KindPagesProperties
  <2>3. CASE p # x
    <3>1. ASSUME NEW k \in 1 .. Len(s)
          PROVE  Covers(t[k], p) <=> Covers(s[k], p)
      <4>1. /\ s[k].start \in Nat /\ End(s[k]) \in Nat
            /\ t[k].start = IF k = i + 1 THEN s[k].start - 1 ELSE s[k].start
            /\ End(t[k]) = IF k = i THEN End(s[k]) - 1 ELSE End(s[k])
        BY <1>3, <1>e
      <4>2. /\ k = i => End(s[k]) = x + 1
            /\ k = i + 1 => s[k].start = x + 1
            /\ x \in Nat
        BY <1>0, <1>4
      <4>3. QED BY <2>1, <2>3, <4>1, <4>2 DEF Covers
    <3>2. \A k \in 1 .. Len(s) :
            t[k].free = other /\ Covers(t[k], p) <=> s[k].free = other /\ Covers(s[k], p)
      BY <1>3, <3>1
    <3>3. QED BY <1>1, <1>2, <2>3, <3>2, KindPagesProperties
  <2>4. QED BY <2>2, <2>3
<1>8. Moves(s, t, x, kind)
  BY <1>7 DEF Moves, KindPages
<1>9. QED BY <1>2, <1>5, <1>8 DEF t

\* Split keeps the tiling and the kind of every page.
LEMMA SplitPages ==
    ASSUME NEW s \in List, Tiled(s), NEW i \in 1 .. Len(s), NEW at \in Nat,
           s[i].start <= at, Cuts(s, i, at)
    PROVE  /\ Split(s, i, at) \in List
           /\ Tiled(Split(s, i, at))
           /\ SamePages(s, Split(s, i, at))
<1> DEFINE t == Split(s, i, at)
<1>1. /\ s \in Seq(Section) /\ Len(s) \in Nat /\ Len(s) >= 1
      /\ t \in Seq(Section) /\ Len(t) = Len(s) + 1
      /\ \A k \in 1 .. Len(s) + 1 : t[k] =
            IF k < i THEN s[k]
            ELSE IF k = i THEN Sec(s[i].start, at - s[i].start, s[i].free)
            ELSE IF k = i + 1 THEN Sec(at, End(s[i]) - at, s[i].free)
            ELSE s[k - 1]
  BY ListProperties, SplitElements
<1>2. t \in List
  BY <1>1, IsList
<1> HIDE DEF t
<1>3. \A k \in 1 .. Len(s) : s[k].start \in Nat /\ s[k].pages \in Nat
  BY <1>1, ElementType
<1>4. /\ \A k \in 1 .. i - 1 : t[k] = s[k]
      /\ \A k \in i + 1 .. Len(s) : t[k + 1] = s[k]
      /\ t[i].start = s[i].start /\ t[i].pages = at - s[i].start /\ t[i].free = s[i].free
      /\ t[i + 1].start = at /\ t[i + 1].pages = End(s[i]) - at
      /\ t[i + 1].free = s[i].free
  BY <1>1 DEF Sec
<1>5. End(t[i]) = at /\ End(t[i + 1]) = End(s[i])
  BY <1>3, <1>4 DEF End
<1>6. Tiled(t)
  <2>1. t[1].start = 0
    BY <1>1, <1>4 DEF Tiled
  <2>2. End(t[Len(t)]) = TotalPages
    <3>1. CASE i = Len(s)
      BY <1>1, <1>5, <3>1 DEF Tiled
    <3>2. CASE i < Len(s)
      <4>1. t[Len(s) + 1] = s[Len(s)]
        BY <1>1, <1>4, <3>2
      <4>2. QED BY <1>1, <4>1 DEF Tiled
    <3>3. QED BY <1>1, <3>1, <3>2
  <2>3. ASSUME NEW k \in 1 .. Len(t) - 1 PROVE t[k + 1].start = End(t[k])
    <3>1. CASE k < i - 1
      <4>1. t[k] = s[k] /\ t[k + 1] = s[k + 1] /\ k \in 1 .. Len(s) - 1
        BY <1>1, <1>4, <3>1
      <4>2. QED BY <4>1 DEF Tiled
    <3>2. CASE k = i - 1
      <4>1. t[k] = s[k] /\ t[k + 1].start = s[k + 1].start /\ k \in 1 .. Len(s) - 1
        BY <1>1, <1>4, <3>2
      <4>2. QED BY <4>1 DEF Tiled
    <3>3. CASE k = i
      BY <1>4, <1>5, <3>3
    <3>4. CASE k = i + 1
      <4>1. t[k + 1] = s[i + 1] /\ i \in 1 .. Len(s) - 1
        BY <1>1, <1>4, <3>4
      <4>2. QED BY <1>5, <3>4, <4>1 DEF Tiled
    <3>5. CASE k > i + 1
      <4>0. /\ k \in 1 .. Len(s) + 1 /\ k + 1 \in 1 .. Len(s) + 1 /\ k - 1 \in 1 .. Len(s) - 1
            /\ ~ (k < i) /\ k # i /\ k # i + 1
            /\ ~ (k + 1 < i) /\ k + 1 # i /\ k + 1 # i + 1
            /\ (k - 1) + 1 = k /\ (k + 1) - 1 = k
        BY <1>1, <3>5
      <4>1. t[k] = s[k - 1] /\ t[k + 1] = s[(k + 1) - 1]
        BY <1>1, <4>0, ZenonT(40)
      <4>2. s[(k - 1) + 1].start = End(s[k - 1])
        BY <4>0 DEF Tiled
      <4>3. QED BY <4>0, <4>1, <4>2
    <3>6. QED BY <3>1, <3>2, <3>3, <3>4, <3>5
  <2>4. ASSUME NEW j \in 1 .. Len(t), NEW k \in 1 .. Len(t), j < k
        PROVE  End(t[j]) <= t[k].start
    <3> DEFINE low == IF j <= i THEN j ELSE j - 1
               high == IF k <= i THEN k ELSE k - 1
    <3>1. low \in 1 .. Len(s) /\ high \in 1 .. Len(s)
      BY <1>1
    <3>2. low < high => End(s[low]) <= s[high].start
      BY <3>1 DEF Tiled
    <3>3. End(t[j]) <= End(s[low])
      <4>1. CASE j = i
        <5>0. low = i
          BY <1>1, <4>1
        <5>1. at < End(s[i]) /\ low = i /\ End(t[j]) = at
          BY <1>5, <4>1, <5>0 DEF Cuts
        <5>2. End(s[i]) \in Nat
          BY <1>3 DEF End
        <5>3. QED BY <5>1, <5>2
      <4>2. CASE j = i + 1
        <5>0. low = i
          BY <1>1, <4>2
        <5>1. End(t[j]) = End(s[i]) /\ End(s[i]) \in Nat
          BY <1>3, <1>5, <4>2 DEF End
        <5>2. QED BY <5>0, <5>1
      <4>3. CASE j # i /\ j # i + 1
        <5>0. j < i \/ j > i + 1
          BY <1>1, <4>3
        <5>1. t[j] = s[low]
          <6>1. CASE j < i
            <7>1. j \in 1 .. i - 1 /\ low = j
              BY <1>1, <6>1
            <7>2. QED BY <1>4, <7>1
          <6>2. CASE j > i + 1
            <7>1. j - 1 \in i + 1 .. Len(s) /\ (j - 1) + 1 = j /\ low = j - 1
              BY <1>1, <6>2
            <7>2. t[(j - 1) + 1] = s[j - 1]
              BY <1>4, <7>1
            <7>3. QED BY <7>1, <7>2
          <6>3. QED BY <5>0, <6>1, <6>2
        <5>2. End(s[low]) \in Nat
          <6> HIDE DEF low
          <6>1. s[low].start \in Nat /\ s[low].pages \in Nat
            BY <1>3, <3>1
          <6>2. QED BY <6>1, EndType, Zenon
        <5>3. QED BY <5>1, <5>2
      <4> HIDE DEF low
      <4>4. QED BY <4>1, <4>2, <4>3
    <3>4. t[k].start >= s[high].start
      <4>1. CASE k <= i
        <5>1. high = k /\ t[k].start = s[k].start /\ s[k].start \in Nat
          BY <1>1, <1>3, <1>4, <4>1
        <5>2. QED BY <5>1
      <4>2. CASE k = i + 1
        <5>1. high = i /\ t[k].start = at /\ s[i].start \in Nat
          BY <1>1, <1>3, <1>4, <4>2
        <5>2. QED BY <1>1, <5>1
      <4>3. CASE k > i + 1
        <5>1. k - 1 \in i + 1 .. Len(s) /\ (k - 1) + 1 = k /\ high = k - 1
          BY <1>1, <4>3
        <5>2. t[(k - 1) + 1] = s[k - 1]
          BY <1>4, <5>1
        <5>3. s[k - 1].start \in Nat
          BY <1>3, <3>1, <5>1
        <5>4. QED BY <5>1, <5>2, <5>3
      <4>4. k \in Int /\ i \in Int
        BY <1>1
      <4>5. QED BY <4>1, <4>2, <4>3, <4>4
    <3>5. End(t[j]) \in Nat /\ End(s[low]) \in Nat /\ t[k].start \in Nat /\ s[high].start \in Nat
      <4> HIDE DEF low, high
      <4>1. t[j].start \in Nat /\ t[j].pages \in Nat /\ t[k].start \in Nat
        BY <1>1, ElementType
      <4>2. s[low].start \in Nat /\ s[low].pages \in Nat /\ s[high].start \in Nat
        BY <1>3, <3>1
      <4>3. End(t[j]) \in Nat
        BY <4>1, EndType, Zenon
      <4>4. End(s[low]) \in Nat
        BY <4>2, EndType, Zenon
      <4>5. QED BY <4>1, <4>2, <4>3, <4>4
    <3>6. CASE low < high
      BY <3>2, <3>3, <3>4, <3>5, <3>6, SMTT(40)
    <3>7. CASE ~ (low < high)
      <4>1. j = i /\ k = i + 1
        BY <2>4, <3>7
      <4>2. QED BY <1>4, <1>5, <4>1
    <3>8. QED BY <3>6, <3>7
  <2>5. QED BY <2>1, <2>2, <2>3, <2>4 DEF Tiled
<1>7. ASSUME NEW kind \in Kinds, NEW p \in Pages
      PROVE  p \in KindPages(t, kind) <=> p \in KindPages(s, kind)
  <2>1. p \in Nat
    BY DEF Pages
  <2>2. Covers(s[i], p) <=> Covers(t[i], p) \/ Covers(t[i + 1], p)
    BY <1>3, <1>4, <1>5, <2>1 DEF Covers, Cuts, End
  <2>3. ASSUME NEW k \in 1 .. Len(s), s[k].free = kind, Covers(s[k], p)
        PROVE  \E j \in 1 .. Len(t) : t[j].free = kind /\ Covers(t[j], p)
    <3>1. CASE k < i
      BY <1>1, <1>4, <2>3, <3>1
    <3>2. CASE k = i
      <4>1. i \in 1 .. Len(t) /\ i + 1 \in 1 .. Len(t)
        BY <1>1
      <4>2. QED BY <1>4, <2>2, <2>3, <3>2, <4>1
    <3>3. CASE k > i
      <4>1. k + 1 \in 1 .. Len(t) /\ t[k + 1] = s[k]
        BY <1>1, <1>4, <3>3
      <4>2. QED BY <2>3, <4>1
    <3>4. QED BY <3>1, <3>2, <3>3
  <2>4. ASSUME NEW k \in 1 .. Len(t), t[k].free = kind, Covers(t[k], p)
        PROVE  \E j \in 1 .. Len(s) : s[j].free = kind /\ Covers(s[j], p)
    <3>1. CASE k < i
      BY <1>1, <1>4, <2>4, <3>1
    <3>2. CASE k = i \/ k = i + 1
      BY <1>4, <2>2, <2>4, <3>2
    <3>3. CASE k > i + 1
      <4>1. k - 1 \in 1 .. Len(s) /\ t[k] = s[k - 1]
        BY <1>1, <3>3
      <4>2. QED BY <2>4, <4>1
    <3>4. QED BY <3>1, <3>2, <3>3
  <2>5. QED BY <1>2, <2>3, <2>4, KindPagesProperties
<1>8. SamePages(s, t)
  BY <1>7 DEF SamePages, KindPages
<1>9. QED BY <1>2, <1>6, <1>8 DEF t

\* Merge of neighbours of one kind keeps the tiling and the kind of every page.
LEMMA MergePages ==
    ASSUME NEW s \in List, Tiled(s), NEW i \in 1 .. Len(s) - 1,
           s[i].free = s[i + 1].free
    PROVE  /\ Merge(s, i) \in List
           /\ Tiled(Merge(s, i))
           /\ SamePages(s, Merge(s, i))
<1> DEFINE t == Merge(s, i)
<1>1. /\ s \in Seq(Section) /\ Len(s) \in Nat /\ Len(s) >= 1
      /\ t \in Seq(Section) /\ Len(t) = Len(s) - 1
      /\ \A k \in 1 .. Len(s) - 1 : t[k] =
            IF k < i THEN s[k]
            ELSE IF k = i THEN Sec(s[i].start, s[i].pages + s[i + 1].pages, s[i].free)
            ELSE s[k + 1]
  BY ListProperties, MergeElements
<1>2. t \in List
  BY <1>1, IsList
<1> HIDE DEF t
<1>3. \A k \in 1 .. Len(s) : s[k].start \in Nat /\ s[k].pages \in Nat /\ End(s[k]) \in Nat
  BY <1>1, ElementType DEF End
<1>4. i \in 1 .. Len(s) /\ i + 1 \in 1 .. Len(s) /\ s[i + 1].start = End(s[i])
  BY <1>1 DEF Tiled
<1>5. /\ t[i].start = s[i].start /\ t[i].free = s[i].free
      /\ End(t[i]) = End(s[i + 1])
  <2>1. t[i] = Sec(s[i].start, s[i].pages + s[i + 1].pages, s[i].free)
    BY <1>1
  <2>2. t[i].start = s[i].start /\ t[i].pages = s[i].pages + s[i + 1].pages
    BY <2>1 DEF Sec
  <2>3. t[i].free = s[i].free
    BY <2>1 DEF Sec
  <2>4. /\ s[i].start \in Nat /\ s[i].pages \in Nat
        /\ s[i + 1].start \in Nat /\ s[i + 1].pages \in Nat
    BY <1>3, <1>4
  <2>5. QED BY <1>4, <2>2, <2>3, <2>4 DEF End
<1>6. ASSUME NEW k \in 1 .. Len(t)
      PROVE  /\ k < i => t[k] = s[k]
             /\ k > i => t[k] = s[k + 1]
             /\ k <= i => t[k].start = s[k].start
             /\ k >= i => End(t[k]) = End(s[k + 1])
  <2>0. k \in 1 .. Len(s) - 1 /\ i \in Int
    BY <1>1
  <2>1. (k < i => t[k] = s[k]) /\ (k > i => t[k] = s[k + 1])
    <3>1. CASE k < i
      BY <1>1, <2>0, <3>1
    <3>2. CASE k > i
      BY <1>1, <2>0, <3>2
    <3>3. QED BY <2>0, <3>1, <3>2
  <2>2. QED BY <1>1, <1>5, <2>1
<1>7. Tiled(t)
  <2>1. t[1].start = 0
    <3>1. 1 \in 1 .. Len(t) /\ 1 <= i
      BY <1>1
    <3>2. QED BY <1>6, <3>1 DEF Tiled
  <2>2. End(t[Len(t)]) = TotalPages
    <3>1. End(t[Len(t)]) = End(s[Len(t) + 1])
      BY <1>1, <1>6
    <3>2. QED BY <1>1, <3>1 DEF Tiled
  <2>3. ASSUME NEW k \in 1 .. Len(t) - 1 PROVE t[k + 1].start = End(t[k])
    <3>1. k \in 1 .. Len(t) /\ k + 1 \in 1 .. Len(t)
      BY <1>1
    <3>2. CASE k < i
      <4>1. t[k] = s[k] /\ t[k + 1].start = s[k + 1].start /\ k \in 1 .. Len(s) - 1
        BY <1>1, <1>6, <3>1, <3>2
      <4>2. QED BY <4>1 DEF Tiled
    <3>3. CASE k >= i
      <4>1. /\ End(t[k]) = End(s[k + 1]) /\ t[k + 1] = s[(k + 1) + 1]
            /\ k + 1 \in 1 .. Len(s) - 1
        BY <1>1, <1>6, <3>1, <3>3
      <4>2. QED BY <4>1 DEF Tiled
    <3>4. QED BY <3>2, <3>3
  <2>4. ASSUME NEW j \in 1 .. Len(t), NEW k \in 1 .. Len(t), j < k
        PROVE  End(t[j]) <= t[k].start
    <3>1. /\ j \in 1 .. Len(s) /\ j + 1 \in 1 .. Len(s)
          /\ k \in 1 .. Len(s) /\ k + 1 \in 1 .. Len(s)
      BY <1>1
    <3>2. CASE j < i /\ k <= i
      <4>1. End(t[j]) = End(s[j]) /\ t[k].start = s[k].start
        BY <1>6, <3>2
      <4>2. QED BY <2>4, <3>1, <4>1 DEF Tiled
    <3>3. CASE j < i /\ k > i
      <4>1. End(t[j]) = End(s[j]) /\ t[k].start = s[k + 1].start /\ j < k + 1
        BY <1>6, <2>4, <3>3
      <4>2. QED BY <3>1, <4>1 DEF Tiled
    <3>4. CASE j >= i
      <4>1. End(t[j]) = End(s[j + 1]) /\ t[k].start = s[k + 1].start /\ j + 1 < k + 1
        BY <1>1, <1>6, <2>4, <3>4
      <4>2. QED BY <3>1, <4>1 DEF Tiled
    <3>5. QED BY <1>1, <3>2, <3>3, <3>4
  <2>5. QED BY <2>1, <2>2, <2>3, <2>4 DEF Tiled
<1>8. ASSUME NEW kind \in Kinds, NEW p \in Pages
      PROVE  p \in KindPages(t, kind) <=> p \in KindPages(s, kind)
  <2>1. p \in Nat
    BY DEF Pages
  <2>2. Covers(t[i], p) <=> Covers(s[i], p) \/ Covers(s[i + 1], p)
    <3>1. /\ s[i].start \in Nat /\ s[i].pages \in Nat /\ End(s[i]) \in Nat
          /\ s[i + 1].pages \in Nat /\ End(s[i + 1]) \in Nat
      BY <1>3, <1>4
    <3>2. s[i].start <= End(s[i]) /\ End(s[i]) <= End(s[i + 1])
      BY <1>4, <3>1 DEF End
    <3>3. QED BY <1>4, <1>5, <2>1, <3>1, <3>2 DEF Covers
  <2>3. ASSUME NEW k \in 1 .. Len(s), s[k].free = kind, Covers(s[k], p)
        PROVE  \E j \in 1 .. Len(t) : t[j].free = kind /\ Covers(t[j], p)
    <3>1. CASE k < i
      <4>1. k \in 1 .. Len(t) /\ t[k] = s[k]
        BY <1>1, <1>6, <3>1
      <4>2. QED BY <2>3, <4>1
    <3>2. CASE k = i \/ k = i + 1
      <4>1. i \in 1 .. Len(t)
        BY <1>1
      <4>2. QED BY <1>5, <2>2, <2>3, <3>2, <4>1
    <3>3. CASE k > i + 1
      <4>1. k - 1 \in 1 .. Len(t) /\ k - 1 > i /\ (k - 1) + 1 = k
        BY <1>1, <3>3
      <4>2. t[k - 1] = s[k]
        BY <1>6, <4>1
      <4>3. QED BY <2>3, <4>1, <4>2
    <3>4. QED BY <3>1, <3>2, <3>3
  <2>4. ASSUME NEW k \in 1 .. Len(t), t[k].free = kind, Covers(t[k], p)
        PROVE  \E j \in 1 .. Len(s) : s[j].free = kind /\ Covers(s[j], p)
    <3>1. k \in 1 .. Len(s) /\ k + 1 \in 1 .. Len(s)
      BY <1>1
    <3>2. CASE k < i
      BY <1>6, <2>4, <3>1, <3>2
    <3>3. CASE k = i
      BY <1>4, <1>5, <2>2, <2>4, <3>3
    <3>4. CASE k > i
      BY <1>6, <2>4, <3>1, <3>4
    <3>5. QED BY <3>2, <3>3, <3>4
  <2>5. QED BY <1>2, <2>3, <2>4, KindPagesProperties
<1>9. SamePages(s, t)
  BY <1>8 DEF SamePages, KindPages
<1>10. QED BY <1>2, <1>7, <1>9 DEF t

\* Unlinking an empty section keeps the tiling and the kind of every page.
LEMMA RemovePages ==
    ASSUME NEW s \in List, Tiled(s), NEW i \in 2 .. Len(s) - 1, s[i].pages = 0
    PROVE  /\ RemoveAt(s, i) \in List
           /\ Tiled(RemoveAt(s, i))
           /\ SamePages(s, RemoveAt(s, i))
           /\ Len(RemoveAt(s, i)) = Len(s) - 1
           /\ \A k \in 1 .. Len(s) - 1 :
                RemoveAt(s, i)[k] = IF k < i THEN s[k] ELSE s[k + 1]
<1> DEFINE t == RemoveAt(s, i)
<1>1. s \in Seq(Section) /\ Len(s) \in Nat /\ Len(s) >= 1
  BY ListProperties
<1>2. i \in 1 .. Len(s)
  BY <1>1
<1>3. /\ t \in Seq(Section) /\ Len(t) = Len(s) - 1
      /\ \A k \in 1 .. Len(s) - 1 : t[k] = IF k < i THEN s[k] ELSE s[k + 1]
  BY <1>1, <1>2, RemoveAtProperties
<1>4. t \in List
  BY <1>1, <1>3, IsList
<1> HIDE DEF t
<1>5. \A k \in 1 .. Len(s) : s[k].start \in Nat /\ s[k].pages \in Nat /\ End(s[k]) \in Nat
  BY <1>1, ElementType DEF End
<1>6. ASSUME NEW k \in 1 .. Len(t)
      PROVE  (k < i => t[k] = s[k]) /\ (k >= i => t[k] = s[k + 1])
  BY <1>1, <1>3
<1>7. s[i + 1].start = End(s[i - 1])
  <2>1. i - 1 \in 1 .. Len(s) - 1 /\ i \in 1 .. Len(s) - 1 /\ (i - 1) + 1 = i
    BY <1>1
  <2>2. s[i].start = End(s[i - 1]) /\ s[i + 1].start = End(s[i])
    BY <2>1 DEF Tiled
  <2>3. End(s[i]) = s[i].start
    BY <1>2, <1>5 DEF End
  <2>4. QED BY <2>2, <2>3
<1>8. Tiled(t)
  <2>1. t[1].start = 0
    BY <1>1, <1>3 DEF Tiled
  <2>2. End(t[Len(t)]) = TotalPages
    <3>1. t[Len(t)] = s[Len(s)]
      BY <1>1, <1>3
    <3>2. QED BY <3>1 DEF Tiled
  <2>3. ASSUME NEW k \in 1 .. Len(t) - 1 PROVE t[k + 1].start = End(t[k])
    <3>1. k \in 1 .. Len(t) /\ k + 1 \in 1 .. Len(t)
      BY <1>3
    <3>2. CASE k + 1 < i
      <4>1. t[k] = s[k] /\ t[k + 1] = s[k + 1] /\ k \in 1 .. Len(s) - 1
        BY <1>1, <1>3, <1>6, <3>1, <3>2
      <4>2. QED BY <4>1 DEF Tiled
    <3>3. CASE k + 1 = i
      <4>1. t[k] = s[i - 1] /\ t[k + 1] = s[i + 1]
        BY <1>1, <1>3, <1>6, <3>1, <3>3
      <4>2. QED BY <1>7, <4>1
    <3>4. CASE k >= i
      <4>1. t[k] = s[k + 1] /\ t[k + 1] = s[(k + 1) + 1] /\ k + 1 \in 1 .. Len(s) - 1
        BY <1>1, <1>3, <1>6, <3>1, <3>4
      <4>2. QED BY <4>1 DEF Tiled
    <3>5. QED BY <1>1, <3>2, <3>3, <3>4
  <2>4. ASSUME NEW j \in 1 .. Len(t), NEW k \in 1 .. Len(t), j < k
        PROVE  End(t[j]) <= t[k].start
    <3>1. /\ j \in 1 .. Len(s) /\ j + 1 \in 1 .. Len(s)
          /\ k \in 1 .. Len(s) /\ k + 1 \in 1 .. Len(s)
      BY <1>1, <1>3
    <3>2. CASE k < i
      <4>1. t[j] = s[j] /\ t[k] = s[k]
        BY <1>6, <2>4, <3>2
      <4>2. QED BY <2>4, <3>1, <4>1 DEF Tiled
    <3>3. CASE j < i /\ k >= i
      <4>1. t[j] = s[j] /\ t[k] = s[k + 1] /\ j < k + 1
        BY <1>6, <2>4, <3>3
      <4>2. QED BY <3>1, <4>1 DEF Tiled
    <3>4. CASE j >= i
      <4>1. t[j] = s[j + 1] /\ t[k] = s[k + 1] /\ j + 1 < k + 1
        BY <1>1, <1>6, <2>4, <3>4
      <4>2. QED BY <3>1, <4>1 DEF Tiled
    <3>5. QED BY <1>1, <3>2, <3>3, <3>4
  <2>5. QED BY <2>1, <2>2, <2>3, <2>4 DEF Tiled
<1>9. ASSUME NEW kind \in Kinds, NEW p \in Pages
      PROVE  p \in KindPages(t, kind) <=> p \in KindPages(s, kind)
  <2>1. p \in Nat
    BY DEF Pages
  <2>2. ~ Covers(s[i], p)
    BY <1>2, <1>5, <2>1 DEF Covers, End
  <2>3. ASSUME NEW k \in 1 .. Len(s), s[k].free = kind, Covers(s[k], p)
        PROVE  \E j \in 1 .. Len(t) : t[j].free = kind /\ Covers(t[j], p)
    <3>1. CASE k < i
      <4>1. k \in 1 .. Len(t) /\ t[k] = s[k]
        BY <1>1, <1>3, <1>6, <3>1
      <4>2. QED BY <2>3, <4>1
    <3>2. CASE k > i
      <4>1. k - 1 \in 1 .. Len(t) /\ k - 1 >= i /\ (k - 1) + 1 = k
        BY <1>1, <1>3, <3>2
      <4>2. t[k - 1] = s[k]
        BY <1>6, <4>1
      <4>3. QED BY <2>3, <4>1, <4>2
    <3>3. QED BY <2>2, <2>3, <3>1, <3>2
  <2>4. ASSUME NEW k \in 1 .. Len(t), t[k].free = kind, Covers(t[k], p)
        PROVE  \E j \in 1 .. Len(s) : s[j].free = kind /\ Covers(s[j], p)
    <3>1. k \in 1 .. Len(s) /\ k + 1 \in 1 .. Len(s)
      BY <1>1, <1>3
    <3>2. CASE k < i
      BY <1>6, <2>4, <3>1, <3>2
    <3>3. CASE k >= i
      BY <1>6, <2>4, <3>1, <3>3
    <3>4. QED BY <3>2, <3>3
  <2>5. QED BY <1>4, <2>3, <2>4, KindPagesProperties
<1>10. SamePages(s, t)
  BY <1>9 DEF SamePages, KindPages
<1>11. QED BY <1>3, <1>4, <1>8, <1>10 DEF t

----------------------------------------------------------------------------
(* Lists between two calls, and the surgery that takes one to another. *)

Good(s) == s \in List /\ Tiled(s) /\ Shaped(s) /\ Separated(s)

\* No two neighbours are FREE, except perhaps sections k and k + 1 for k in
\* lo .. hi - 1.
Apart(s, lo, hi) ==
    \A k \in 1 .. Len(s) - 1 :
        k < lo \/ k >= hi => ~ (s[k].free = FREE /\ s[k + 1].free = FREE)

\* The end of a section, and the section after it.
LEMMA EndProperties ==
    ASSUME NEW s \in List, Tiled(s), NEW i \in 1 .. Len(s)
    PROVE  /\ s[i].start \in Nat /\ s[i].pages \in Nat /\ s[i].free \in Kinds
           /\ End(s[i]) \in Nat
           /\ End(s[i]) = s[i].start + s[i].pages
           /\ End(s[i]) <= TotalPages
           /\ i < Len(s) => s[i + 1].start = End(s[i])
<1>1. /\ s \in Seq(Section) /\ Len(s) \in Nat /\ Len(s) >= 1
  BY ListProperties
<1>2. s[i].start \in Nat /\ s[i].pages \in Nat /\ s[i].free \in Kinds
  BY <1>1, ElementType
<1>3. End(s[i]) \in Nat /\ End(s[i]) = s[i].start + s[i].pages
  BY <1>2 DEF End
<1>4. i < Len(s) => s[i + 1].start = End(s[i])
  BY <1>1 DEF Tiled
<1>5. End(s[i]) <= TotalPages
  <2>1. CASE i = Len(s)
    BY <1>3, <2>1, SizesAssumption DEF Tiled
  <2>2. CASE i < Len(s)
    <3>1. Len(s) \in 1 .. Len(s)
      BY <1>1
    <3>2. /\ s[Len(s)].start \in Nat /\ s[Len(s)].pages \in Nat
          /\ TotalPages = s[Len(s)].start + s[Len(s)].pages
      BY <1>1, <3>1, ElementType DEF Tiled, End
    <3>3. End(s[i]) <= s[Len(s)].start
      BY <2>2, <3>1 DEF Tiled
    <3>4. QED BY <1>3, <3>2, <3>3
  <2>3. QED BY <1>1, <2>1, <2>2
<1>6. QED BY <1>2, <1>3, <1>4, <1>5

\* A section lies within the pages.
LEMMA CoveredIsPage ==
    ASSUME NEW s \in List, Tiled(s), NEW i \in 1 .. Len(s), NEW p \in Nat,
           Covers(s[i], p)
    PROVE  p \in Pages
<1>1. End(s[i]) <= TotalPages /\ End(s[i]) \in Nat /\ p < End(s[i])
  BY EndProperties DEF Covers
<1>2. TotalPages \in Nat
  BY SizesAssumption
<1>3. QED BY <1>1, <1>2 DEF Pages

\* What Split leaves at each place.
LEMMA SplitFields ==
    ASSUME NEW s \in List, NEW i \in 1 .. Len(s), NEW at \in Nat,
           s[i].start <= at, Cuts(s, i, at)
    PROVE  LET t == Split(s, i, at) IN
           /\ Len(t) = Len(s) + 1
           /\ \A k \in 1 .. Len(t) : k < i => t[k] = s[k]
           /\ \A k \in 1 .. Len(t) : k > i + 1 => t[k] = s[k - 1]
           /\ t[i].start = s[i].start /\ t[i].pages = at - s[i].start
           /\ t[i].free = s[i].free
           /\ t[i + 1].start = at /\ t[i + 1].pages = End(s[i]) - at
           /\ t[i + 1].free = s[i].free
<1> DEFINE t == Split(s, i, at)
<1>1. s \in Seq(Section) /\ Len(s) \in Nat
  BY ListProperties
<1>2. /\ Len(t) = Len(s) + 1
      /\ \A k \in 1 .. Len(s) + 1 : t[k] =
            IF k < i THEN s[k]
            ELSE IF k = i THEN Sec(s[i].start, at - s[i].start, s[i].free)
            ELSE IF k = i + 1 THEN Sec(at, End(s[i]) - at, s[i].free)
            ELSE s[k - 1]
  BY <1>1, SplitElements
<1> HIDE DEF t
<1>3. \A k \in 1 .. Len(t) : k < i => t[k] = s[k]
  BY <1>1, <1>2
<1>4. ASSUME NEW k \in 1 .. Len(t), k > i + 1 PROVE t[k] = s[k - 1]
  <2>1. k \in 1 .. Len(s) + 1 /\ ~ (k < i) /\ k # i /\ k # i + 1
    BY <1>1, <1>2, <1>4
  <2>2. QED BY <1>2, <2>1
<1>5. /\ t[i].start = s[i].start /\ t[i].pages = at - s[i].start
      /\ t[i].free = s[i].free
  <2>1. t[i] = Sec(s[i].start, at - s[i].start, s[i].free)
    BY <1>1, <1>2
  <2>2. QED BY <2>1 DEF Sec
<1>6. /\ t[i + 1].start = at /\ t[i + 1].pages = End(s[i]) - at
      /\ t[i + 1].free = s[i].free
  <2>1. t[i + 1] = Sec(at, End(s[i]) - at, s[i].free)
    <3>1. i + 1 \in 1 .. Len(s) + 1 /\ ~ (i + 1 < i) /\ i + 1 # i
      BY <1>1
    <3>2. QED BY <1>2, <3>1
  <2>2. QED BY <2>1 DEF Sec
<1>7. QED BY <1>2, <1>3, <1>4, <1>5, <1>6 DEF t

\* Split leaves no section empty, and makes one pair of neighbours of a kind.
LEMMA SplitShape ==
    ASSUME NEW s \in List, Tiled(s), Shaped(s), NEW i \in 1 .. Len(s), NEW at \in Nat,
           s[i].start < at, Cuts(s, i, at),
           NEW lo \in Int, NEW hi \in Int, lo <= i, i <= hi, Apart(s, lo, hi)
    PROVE  /\ Shaped(Split(s, i, at))
           /\ Apart(Split(s, i, at), lo, hi + 1)
<1> DEFINE t == Split(s, i, at)
<1>1. Len(s) \in Nat /\ Len(s) >= 1
  BY ListProperties
<1>2. s[i].start \in Nat /\ End(s[i]) \in Nat
  BY EndProperties
<1>3. /\ Len(t) = Len(s) + 1
      /\ \A k \in 1 .. Len(t) : k < i => t[k] = s[k]
      /\ \A k \in 1 .. Len(t) : k > i + 1 => t[k] = s[k - 1]
      /\ t[i].pages = at - s[i].start /\ t[i].free = s[i].free
      /\ t[i + 1].pages = End(s[i]) - at /\ t[i + 1].free = s[i].free
  BY <1>2, SplitFields, SMTT(40)
<1> HIDE DEF t
<1>4. t[1].free = BAD
  BY <1>1, <1>3 DEF Shaped
<1>5. ASSUME NEW k \in 1 .. Len(t), t[k].pages = 0 PROVE t[k].free = FREE
  <2>1. CASE k < i
    BY <1>1, <1>3, <1>5, <2>1 DEF Shaped
  <2>2. CASE k = i
    BY <1>2, <1>3, <1>5, <2>2
  <2>3. CASE k = i + 1
    BY <1>2, <1>3, <1>5, <2>3 DEF Cuts
  <2>4. CASE k > i + 1
    <3>1. k - 1 \in 1 .. Len(s) /\ t[k] = s[k - 1]
      BY <1>1, <1>3, <2>4
    <3>2. QED BY <1>5, <3>1 DEF Shaped
  <2>5. QED BY <2>1, <2>2, <2>3, <2>4
<1>6. ASSUME NEW k \in 1 .. Len(t) - 1, k < lo \/ k >= hi + 1
      PROVE  ~ (t[k].free = FREE /\ t[k + 1].free = FREE)
  <2>1. k \in 1 .. Len(t) /\ k + 1 \in 1 .. Len(t) /\ k # i
    BY <1>1, <1>3, <1>6
  <2>2. CASE k < i
    <3>1. k \in 1 .. Len(s) - 1 /\ k + 1 <= i
      BY <1>1, <2>1, <2>2
    <3>a. t[k].free = s[k].free
      <4>1. t[k] = s[k]
        BY <1>3, <2>1, <2>2
      <4>2. QED BY <4>1
    <3>b. t[k + 1].free = s[k + 1].free
      <4>1. CASE k + 1 = i
        BY <1>3, <4>1
      <4>2. CASE k + 1 < i
        <5>1. t[k + 1] = s[k + 1]
          BY <1>3, <2>1, <4>2
        <5>2. QED BY <5>1
      <4>3. QED BY <3>1, <4>1, <4>2
    <3>2. k < lo \/ k >= hi
      BY <1>6
    <3>3. QED BY <3>1, <3>a, <3>b, <3>2 DEF Apart
  <2>3. CASE k > i
    <3>1. k - 1 \in 1 .. Len(s) - 1 /\ (k - 1) + 1 = k
      BY <1>1, <1>3, <2>3
    <3>2. t[k].free = s[k - 1].free
      <4>1. CASE k = i + 1
        BY <1>3, <4>1
      <4>2. CASE k > i + 1
        BY <1>3, <2>1, <4>2
      <4>3. QED BY <2>3, <2>1, <4>1, <4>2
    <3>3. t[k + 1].free = s[k].free
      <4>1. k + 1 > i + 1 /\ (k + 1) - 1 = k
        BY <2>3, <2>1
      <4>2. t[k + 1] = s[(k + 1) - 1]
        BY <1>3, <2>1, <4>1
      <4>3. QED BY <4>1, <4>2
    <3>4. k - 1 < lo \/ k - 1 >= hi
      BY <1>6
    <3>5. QED BY <3>1, <3>2, <3>3, <3>4 DEF Apart
  <2>4. QED BY <2>1, <2>2, <2>3
<1>7. QED BY <1>4, <1>5, <1>6 DEF Shaped, Apart, t

\* A section of one kind between sections of others may be given that kind.
LEMMA RetypeShape ==
    ASSUME NEW s \in List, Shaped(s), NEW i \in 2 .. Len(s), s[i].pages > 0,
           NEW kind \in Kinds, Apart(s, i - 1, i + 1),
           kind = FREE => /\ s[i - 1].free # FREE
                          /\ i < Len(s) => s[i + 1].free # FREE
    PROVE  Shaped(Retype(s, i, kind)) /\ Separated(Retype(s, i, kind))
<1> DEFINE t == Retype(s, i, kind)
<1>1. s \in Seq(Section) /\ Len(s) \in Nat /\ Len(s) >= 1
  BY ListProperties
<1>2. i \in 1 .. Len(s) /\ i # 1
  BY <1>1
<1>3. /\ Len(t) = Len(s)
      /\ \A k \in 1 .. Len(s) :
            t[k] = IF k = i THEN Sec(s[i].start, s[i].pages, kind) ELSE s[k]
  BY <1>1, <1>2, RetypeElements
<1> HIDE DEF t
<1>4. \A k \in 1 .. Len(s) : k # i => t[k] = s[k]
  BY <1>3
<1>5. t[i].pages = s[i].pages /\ t[i].free = kind
  <2>1. t[i] = Sec(s[i].start, s[i].pages, kind)
    BY <1>2, <1>3
  <2>2. QED BY <2>1 DEF Sec
<1>6. t[1].free = BAD
  BY <1>1, <1>2, <1>4 DEF Shaped
<1>7. ASSUME NEW k \in 1 .. Len(t), t[k].pages = 0 PROVE t[k].free = FREE
  <2>1. k # i
    BY <1>5, <1>7
  <2>2. QED BY <1>3, <1>4, <1>7, <2>1 DEF Shaped
<1>8. ASSUME NEW k \in 1 .. Len(t) - 1
      PROVE  ~ (t[k].free = FREE /\ t[k + 1].free = FREE)
  <2>1. k \in 1 .. Len(s) /\ k + 1 \in 1 .. Len(s) /\ k \in 1 .. Len(s) - 1
    BY <1>1, <1>3
  <2>2. CASE k = i
    <3>1. t[k].free = kind /\ t[k + 1].free = s[i + 1].free /\ i < Len(s)
      BY <1>1, <1>4, <1>5, <2>1, <2>2
    <3>2. QED BY <3>1
  <2>3. CASE k + 1 = i
    <3>1. k = i - 1 /\ k # i
      BY <1>1, <2>1, <2>3
    <3>2. t[k] = s[i - 1] /\ t[k + 1].free = kind
      BY <1>4, <1>5, <2>1, <2>3, <3>1
    <3>3. QED BY <3>2
  <2>4. CASE k # i /\ k + 1 # i
    <3>1. t[k].free = s[k].free /\ t[k + 1].free = s[k + 1].free
      BY <1>4, <2>1, <2>4
    <3>2. k < i - 1 \/ k >= i + 1
      BY <1>1, <2>4
    <3>3. QED BY <2>1, <3>1, <3>2 DEF Apart
  <2>5. QED BY <2>2, <2>3, <2>4
<1>9. QED BY <1>6, <1>7, <1>8 DEF Shaped, Separated, t

\* Moves composes with a change that keeps the kind of every page.
LEMMA SameThenMoves ==
    ASSUME NEW s, NEW u, NEW t, NEW x, NEW kind, SamePages(s, u), Moves(u, t, x, kind)
    PROVE  Moves(s, t, x, kind)
BY DEF SamePages, Moves

\* A section that is not BAD is not the first.
LEMMA NotFirst ==
    ASSUME NEW s \in List, Shaped(s), NEW i \in 1 .. Len(s), s[i].free # BAD
    PROVE  i \in 2 .. Len(s)
<1>1. i # 1
  BY DEF Shaped
<1>2. QED BY <1>1

\* Cutting the first page from a section and giving it another kind.
LEMMA HeadRetype ==
    ASSUME NEW s, Good(s), NEW i \in 1 .. Len(s), s[i].free # BAD, s[i].pages > 0,
           NEW kind \in Kinds, kind # s[i].free,
           kind = FREE => s[i].pages > 1 /\ s[i - 1].free # FREE
    PROVE  LET t == Retype(Split(s, i, s[i].start + 1), i, kind) IN
           /\ Good(t)
           /\ Moves(s, t, s[i].start, kind)
           /\ s[i].pages > 1 => /\ i + 1 \in 1 .. Len(t)
                                /\ t[i + 1].start = s[i].start + 1
                                /\ t[i + 1].pages = s[i].pages - 1
                                /\ t[i + 1].free = s[i].free
<1> DEFINE x == s[i].start
           u == Split(s, i, x + 1)
           t == Retype(u, i, kind)
<1>1. s \in List /\ Tiled(s) /\ Shaped(s) /\ Separated(s) /\ Len(s) \in Nat
  BY ListProperties DEF Good
<1>2. /\ x \in Nat /\ s[i].pages \in Nat /\ End(s[i]) = x + s[i].pages
      /\ i \in 2 .. Len(s)
  BY <1>1, EndProperties, NotFirst
<1>3. x \in Pages
  <2>1. Covers(s[i], x)
    BY <1>2 DEF Covers
  <2>2. QED BY <1>1, <1>2, <2>1, CoveredIsPage
<1>4. CASE s[i].pages = 1
  <2>1. u = s
    BY <1>2, <1>4 DEF Split, Cuts
  <2>2. t \in List /\ Tiled(t) /\ Moves(s, t, x, kind)
    BY <1>1, <1>3, <1>4, <2>1, RetypePages
  <2>3. Apart(s, i - 1, i + 1)
    BY <1>1 DEF Separated, Apart
  <2>4. Shaped(t) /\ Separated(t)
    BY <1>1, <1>2, <1>4, <2>1, <2>3, RetypeShape
  <2>5. QED BY <1>4, <2>2, <2>4 DEF Good
<1>5. CASE s[i].pages > 1
  <2>1. x + 1 \in Nat /\ x <= x + 1 /\ x < x + 1 /\ Cuts(s, i, x + 1)
    BY <1>2, <1>5 DEF Cuts
  <2>2. u \in List /\ Tiled(u) /\ SamePages(s, u)
    BY <1>1, <2>1, SplitPages
  <2>3. /\ Len(u) = Len(s) + 1
        /\ \A k \in 1 .. Len(u) : k < i => u[k] = s[k]
        /\ u[i].start = x /\ u[i].pages = (x + 1) - x
        /\ u[i + 1].start = x + 1 /\ u[i + 1].pages = End(s[i]) - (x + 1)
        /\ u[i + 1].free = s[i].free
    BY <1>1, <2>1, SplitFields
  <2>4. Apart(s, i, i)
    BY <1>1 DEF Separated, Apart
  <2>5. Shaped(u) /\ Apart(u, i, i + 1)
    <3>1. i \in Int /\ i <= i
      BY <1>2
    <3>2. QED BY <1>1, <2>1, <2>4, <3>1, SplitShape
  <2> HIDE DEF u
  <2>6. Apart(u, i - 1, i + 1)
    BY <1>2, <2>5 DEF Apart
  <2>7. u[i].pages = 1 /\ i \in 2 .. Len(u) /\ i \in 1 .. Len(u) /\ i + 1 \in 1 .. Len(u)
    BY <1>1, <1>2, <2>3
  <2>8. t \in List /\ Tiled(t) /\ Moves(u, t, x, kind)
    BY <1>3, <2>2, <2>3, <2>7, RetypePages
  <2>9. kind = FREE => u[i - 1].free # FREE /\ u[i + 1].free # FREE
    <3>1. u[i - 1] = s[i - 1]
      BY <1>1, <1>2, <2>3
    <3>2. QED BY <2>3, <3>1
  <2>10. Shaped(t) /\ Separated(t)
    BY <2>2, <2>5, <2>6, <2>7, <2>9, RetypeShape
  <2>11. Moves(s, t, x, kind)
    BY <2>2, <2>8, SameThenMoves
  <2>12. t[i + 1] = u[i + 1] /\ Len(t) = Len(u)
    <3>1. u \in Seq(Section)
      BY <2>2, ListProperties
    <3>2. i + 1 # i
      BY <1>2
    <3>3. QED BY <2>7, <3>1, <3>2, RetypeElements
  <2>13. u[i + 1].pages = s[i].pages - 1
    BY <1>2, <2>3
  <2> HIDE DEF t
  <2>14. QED BY <2>3, <2>7, <2>8, <2>10, <2>11, <2>12, <2>13 DEF Good, t, u
<1>6. QED BY <1>2, <1>4, <1>5

\* Cutting the last page from a section and giving it another kind.
LEMMA TailRetype ==
    ASSUME NEW s, Good(s), NEW i \in 1 .. Len(s), s[i].free # BAD,
           NEW p \in Nat, s[i].start < p, p + 1 = End(s[i]),
           NEW kind \in Kinds, kind # s[i].free,
           kind = FREE /\ i < Len(s) => s[i + 1].free # FREE
    PROVE  LET t == Retype(Split(s, i, p), i + 1, kind) IN
           Good(t) /\ Moves(s, t, p, kind)
<1> DEFINE u == Split(s, i, p)
           t == Retype(u, i + 1, kind)
<1>1. s \in List /\ Tiled(s) /\ Shaped(s) /\ Separated(s) /\ Len(s) \in Nat
  BY ListProperties DEF Good
<1>2. /\ s[i].start \in Nat /\ s[i].pages \in Nat /\ End(s[i]) \in Nat
      /\ i \in 2 .. Len(s)
  BY <1>1, EndProperties, NotFirst
<1>3. s[i].start <= p /\ Cuts(s, i, p)
  BY <1>2 DEF Cuts
<1>4. p \in Pages
  <2>1. Covers(s[i], p)
    BY <1>2, <1>3 DEF Covers, Cuts
  <2>2. QED BY <1>1, <2>1, CoveredIsPage
<1>5. u \in List /\ Tiled(u) /\ SamePages(s, u)
  BY <1>1, <1>3, SplitPages
<1>6. /\ Len(u) = Len(s) + 1
      /\ \A k \in 1 .. Len(u) : k > i + 1 => u[k] = s[k - 1]
      /\ u[i].free = s[i].free
      /\ u[i + 1].start = p /\ u[i + 1].pages = End(s[i]) - p
  BY <1>1, <1>3, SplitFields, SMTT(40)
<1>7. Shaped(u) /\ Apart(u, i, i + 1)
  <2>1. i \in Int /\ i <= i /\ Apart(s, i, i)
    BY <1>1, <1>2 DEF Separated, Apart
  <2>2. Shaped(u) /\ Apart(u, i, i + 1)
    BY <1>1, <1>3, <2>1, SplitShape, ZenonT(40)
  <2>3. QED BY <2>2
<1> HIDE DEF u
<1>8. Apart(u, (i + 1) - 1, (i + 1) + 1)
  BY <1>2, <1>7 DEF Apart
<1>9. u[i + 1].pages = 1 /\ i + 1 \in 2 .. Len(u) /\ i + 1 \in 1 .. Len(u)
  BY <1>1, <1>2, <1>6
<1>10. t \in List /\ Tiled(t) /\ Moves(u, t, p, kind)
  BY <1>4, <1>5, <1>6, <1>9, RetypePages
<1>11. kind = FREE => /\ u[(i + 1) - 1].free # FREE
                      /\ i + 1 < Len(u) => u[(i + 1) + 1].free # FREE
  <2>1. (i + 1) - 1 = i
    BY <1>2
  <2>2. i + 1 < Len(u) => u[(i + 1) + 1] = s[i + 1] /\ i < Len(s)
    <3>1. i + 1 < Len(u) =>
            /\ (i + 1) + 1 \in 1 .. Len(u) /\ (i + 1) + 1 > i + 1
            /\ ((i + 1) + 1) - 1 = i + 1 /\ i < Len(s)
      BY <1>1, <1>2, <1>6
    <3>2. QED BY <1>6, <3>1
  <2>3. QED BY <1>6, <2>1, <2>2
<1>12. Shaped(t) /\ Separated(t)
  BY <1>5, <1>7, <1>8, <1>9, <1>11, RetypeShape
<1>13. Moves(s, t, p, kind)
  BY <1>5, <1>10, SameThenMoves
<1>14. QED BY <1>10, <1>12, <1>13 DEF Good, t, u

\* Cutting a page from inside a section and making it USED.
LEMMA MiddleRetype ==
    ASSUME NEW s, Good(s), NEW i \in 1 .. Len(s), s[i].free # BAD,
           NEW p \in Nat, s[i].start < p, p + 1 < End(s[i])
    PROVE  LET t == Retype(Split(Split(s, i, p), i + 1, p + 1), i + 1, USED) IN
           Good(t) /\ Moves(s, t, p, USED)
<1> DEFINE u == Split(s, i, p)
           v == Split(u, i + 1, p + 1)
           t == Retype(v, i + 1, USED)
<1>1. s \in List /\ Tiled(s) /\ Shaped(s) /\ Separated(s) /\ Len(s) \in Nat
  BY ListProperties DEF Good
<1>2. /\ s[i].start \in Nat /\ s[i].pages \in Nat /\ End(s[i]) \in Nat
      /\ i \in 2 .. Len(s)
  BY <1>1, EndProperties, NotFirst
<1>3. s[i].start <= p /\ Cuts(s, i, p)
  BY <1>2 DEF Cuts
<1>4. p \in Pages
  <2>1. Covers(s[i], p)
    BY <1>2, <1>3 DEF Covers, Cuts
  <2>2. QED BY <1>1, <2>1, CoveredIsPage
<1>5. u \in List /\ Tiled(u) /\ SamePages(s, u)
  BY <1>1, <1>3, SplitPages
<1>6. /\ Len(u) = Len(s) + 1
      /\ u[i + 1].start = p /\ u[i + 1].pages = End(s[i]) - p
  BY <1>1, <1>3, SplitFields, SMTT(40)
<1>7. Shaped(u) /\ Apart(u, i, i + 1)
  <2>1. i \in Int /\ i <= i /\ Apart(s, i, i)
    BY <1>1, <1>2 DEF Separated, Apart
  <2>2. Shaped(u) /\ Apart(u, i, i + 1)
    BY <1>1, <1>3, <2>1, SplitShape, ZenonT(40)
  <2>3. QED BY <2>2
<1> HIDE DEF u
<1>8. i + 1 \in 1 .. Len(u) /\ p + 1 \in Nat
  BY <1>1, <1>2, <1>6
<1>9. u[i + 1].start <= p + 1 /\ u[i + 1].start < p + 1 /\ Cuts(u, i + 1, p + 1)
  <2>1. End(u[i + 1]) = u[i + 1].start + u[i + 1].pages
    BY <1>5, <1>8, EndProperties
  <2>2. QED BY <1>2, <1>6, <2>1 DEF Cuts
<1>10. v \in List /\ Tiled(v) /\ SamePages(u, v)
  BY <1>5, <1>8, <1>9, SplitPages
<1>11. /\ Len(v) = Len(u) + 1
       /\ v[i + 1].start = u[i + 1].start
       /\ v[i + 1].pages = (p + 1) - u[i + 1].start
  BY <1>5, <1>8, <1>9, SplitFields
<1>12. Shaped(v) /\ Apart(v, i, (i + 1) + 1)
  <2>1. i \in Int /\ i + 1 \in Int /\ i <= i + 1 /\ i + 1 <= i + 1
    BY <1>2
  <2>2. QED BY <1>5, <1>7, <1>8, <1>9, <2>1, SplitShape
<1> HIDE DEF v
<1>13. /\ v[i + 1].start = p /\ v[i + 1].pages = 1
       /\ i + 1 \in 2 .. Len(v) /\ i + 1 \in 1 .. Len(v)
  BY <1>1, <1>2, <1>6, <1>11
<1>14. USED \in Kinds /\ USED # FREE
  BY KindsDiffer DEF Kinds
<1>15. t \in List /\ Tiled(t) /\ Moves(v, t, p, USED)
  BY <1>4, <1>10, <1>13, <1>14, RetypePages
<1>16. Apart(v, (i + 1) - 1, (i + 1) + 1)
  BY <1>2, <1>12 DEF Apart
<1>17. Shaped(t) /\ Separated(t)
  BY <1>10, <1>12, <1>13, <1>14, <1>16, RetypeShape
<1>18. Moves(s, t, p, USED)
  <2>1. Moves(u, t, p, USED)
    BY <1>10, <1>15, SameThenMoves
  <2>2. QED BY <1>5, <2>1, SameThenMoves
<1>19. QED BY <1>15, <1>17, <1>18 DEF Good, t, u, v

\* Lists whose sections have the same kinds and lose no page of a section that
\* may not be empty.
LEMMA SameShape ==
    ASSUME NEW s \in List, Shaped(s), Separated(s), NEW t, Len(t) = Len(s),
           \A k \in 1 .. Len(s) : /\ t[k].free = s[k].free
                                  /\ t[k].pages = 0 => s[k].free = FREE
    PROVE  Shaped(t) /\ Separated(t)
<1>1. Len(s) \in Nat /\ Len(s) >= 1
  BY ListProperties
<1>2. t[1].free = BAD
  BY <1>1 DEF Shaped
<1>3. \A k \in 1 .. Len(t) : t[k].pages = 0 => t[k].free = FREE
  OBVIOUS
<1>4. ASSUME NEW k \in 1 .. Len(t) - 1
      PROVE  ~ (t[k].free = FREE /\ t[k + 1].free = FREE)
  <2>1. k \in 1 .. Len(s) /\ k + 1 \in 1 .. Len(s) /\ k \in 1 .. Len(s) - 1
    BY <1>1
  <2>2. t[k].free = s[k].free /\ t[k + 1].free = s[k + 1].free
    BY <2>1
  <2>3. QED BY <2>1, <2>2 DEF Separated
<1>5. QED BY <1>2, <1>3, <1>4 DEF Shaped, Separated

\* Moving the first page of a section to the section before.
LEMMA ShiftDownGood ==
    ASSUME NEW s, Good(s), NEW i \in 2 .. Len(s), s[i].pages > 0,
           s[i].pages = 1 => s[i].free = FREE
    PROVE  LET t == ShiftDown(s, i) IN
           /\ Good(t)
           /\ Moves(s, t, s[i].start, s[i - 1].free)
           /\ i \in 1 .. Len(t)
           /\ t[i].start = s[i].start + 1
           /\ t[i].pages = s[i].pages - 1
           /\ t[i].free = s[i].free
<1> DEFINE t == ShiftDown(s, i)
<1>1. /\ s \in List /\ Tiled(s) /\ Shaped(s) /\ Separated(s)
      /\ s \in Seq(Section) /\ Len(s) \in Nat
  BY ListProperties DEF Good
<1>2. i \in 1 .. Len(s) /\ i - 1 \in 1 .. Len(s) /\ i # i - 1
  BY <1>1
<1>3. /\ s[i].start \in Nat /\ s[i].pages \in Nat /\ End(s[i]) = s[i].start + s[i].pages
      /\ s[i - 1].pages \in Nat
  BY <1>1, <1>2, EndProperties
<1>4. s[i].start \in Pages
  <2>1. Covers(s[i], s[i].start)
    BY <1>3 DEF Covers
  <2>2. QED BY <1>1, <1>2, <1>3, <2>1, CoveredIsPage
<1>5. t \in List /\ Tiled(t) /\ Moves(s, t, s[i].start, s[i - 1].free)
  BY <1>1, <1>4, ShiftDownPages
<1>6. /\ Len(t) = Len(s)
      /\ \A k \in 1 .. Len(s) : t[k] =
            IF k = i - 1 THEN Sec(s[k].start, s[k].pages + 1, s[k].free)
            ELSE IF k = i THEN Sec(s[k].start + 1, s[k].pages - 1, s[k].free)
            ELSE s[k]
  BY <1>1, ShiftDownElements
<1> HIDE DEF t
<1>7. t[i].start = s[i].start + 1 /\ t[i].pages = s[i].pages - 1 /\ t[i].free = s[i].free
  <2>1. t[i] = Sec(s[i].start + 1, s[i].pages - 1, s[i].free)
    BY <1>2, <1>6
  <2>2. QED BY <2>1 DEF Sec
<1>8. t[i - 1].pages = s[i - 1].pages + 1 /\ t[i - 1].free = s[i - 1].free
  <2>1. t[i - 1] = Sec(s[i - 1].start, s[i - 1].pages + 1, s[i - 1].free)
    BY <1>2, <1>6
  <2>2. QED BY <2>1 DEF Sec
<1>9. ASSUME NEW k \in 1 .. Len(s)
      PROVE  t[k].free = s[k].free /\ (t[k].pages = 0 => s[k].free = FREE)
  <2>1. CASE k = i
    BY <1>3, <1>7, <2>1
  <2>2. CASE k = i - 1
    BY <1>3, <1>8, <2>2
  <2>3. CASE k # i /\ k # i - 1
    <3>1. t[k] = s[k]
      BY <1>6, <2>3
    <3>2. QED BY <1>1, <3>1 DEF Shaped
  <2>4. QED BY <2>1, <2>2, <2>3
<1>10. Shaped(t) /\ Separated(t)
  BY <1>1, <1>6, <1>9, SameShape
<1>11. QED BY <1>2, <1>5, <1>6, <1>7, <1>10 DEF Good, t

\* Moving the last page of a section to the section after.
LEMMA ShiftUpGood ==
    ASSUME NEW s, Good(s), NEW i \in 1 .. Len(s) - 1,
           NEW p \in Nat, s[i].start < p, p + 1 = s[i + 1].start
    PROVE  LET t == ShiftUp(s, i) IN
           Good(t) /\ Moves(s, t, p, s[i + 1].free)
<1> DEFINE t == ShiftUp(s, i)
<1>1. /\ s \in List /\ Tiled(s) /\ Shaped(s) /\ Separated(s)
      /\ s \in Seq(Section) /\ Len(s) \in Nat
  BY ListProperties DEF Good
<1>2. i \in 1 .. Len(s) /\ i + 1 \in 1 .. Len(s) /\ i # i + 1 /\ i < Len(s)
  BY <1>1
<1>3. /\ s[i].start \in Nat /\ s[i].pages \in Nat /\ End(s[i]) = s[i].start + s[i].pages
      /\ s[i + 1].start = End(s[i]) /\ s[i + 1].pages \in Nat
  BY <1>1, <1>2, EndProperties
<1>4. s[i].pages > 1 /\ s[i + 1].start > 0
  BY <1>3
<1>5. p \in Pages
  <2>1. Covers(s[i], p)
    BY <1>3 DEF Covers
  <2>2. QED BY <1>1, <1>2, <2>1, CoveredIsPage
<1>6. t \in List /\ Tiled(t) /\ Moves(s, t, p, s[i + 1].free)
  BY <1>1, <1>3, <1>4, <1>5, ShiftUpPages
<1>7. /\ Len(t) = Len(s)
      /\ \A k \in 1 .. Len(s) : t[k] =
            IF k = i THEN Sec(s[k].start, s[k].pages - 1, s[k].free)
            ELSE IF k = i + 1 THEN Sec(s[k].start - 1, s[k].pages + 1, s[k].free)
            ELSE s[k]
  BY <1>1, <1>3, <1>4, ShiftUpElements
<1> HIDE DEF t
<1>8. t[i].pages = s[i].pages - 1 /\ t[i].free = s[i].free
  <2>1. t[i] = Sec(s[i].start, s[i].pages - 1, s[i].free)
    BY <1>2, <1>7
  <2>2. QED BY <2>1 DEF Sec
<1>9. t[i + 1].pages = s[i + 1].pages + 1 /\ t[i + 1].free = s[i + 1].free
  <2>1. t[i + 1] = Sec(s[i + 1].start - 1, s[i + 1].pages + 1, s[i + 1].free)
    BY <1>2, <1>7
  <2>2. QED BY <2>1 DEF Sec
<1>10. ASSUME NEW k \in 1 .. Len(s)
       PROVE  t[k].free = s[k].free /\ (t[k].pages = 0 => s[k].free = FREE)
  <2>1. CASE k = i
    BY <1>3, <1>4, <1>8, <2>1
  <2>2. CASE k = i + 1
    BY <1>3, <1>9, <2>2
  <2>3. CASE k # i /\ k # i + 1
    <3>1. t[k] = s[k]
      BY <1>7, <2>3
    <3>2. QED BY <1>1, <3>1 DEF Shaped
  <2>4. QED BY <2>1, <2>2, <2>3
<1>11. Shaped(t) /\ Separated(t)
  BY <1>1, <1>7, <1>10, SameShape
<1>12. QED BY <1>6, <1>11 DEF Good, t

\* A section of one page takes another kind.
LEMMA RetypeGood ==
    ASSUME NEW s, Good(s), NEW i \in 1 .. Len(s), s[i].free # BAD, s[i].pages = 1,
           NEW kind \in Kinds,
           kind = FREE => /\ s[i - 1].free # FREE
                          /\ i < Len(s) => s[i + 1].free # FREE
    PROVE  LET t == Retype(s, i, kind) IN
           /\ Good(t)
           /\ Moves(s, t, s[i].start, kind)
           /\ Len(t) = Len(s)
           /\ t[i].free = kind
           /\ \A k \in 1 .. Len(s) : k # i => t[k] = s[k]
<1> DEFINE t == Retype(s, i, kind)
<1>1. /\ s \in List /\ Tiled(s) /\ Shaped(s) /\ Separated(s)
      /\ s \in Seq(Section) /\ Len(s) \in Nat
  BY ListProperties DEF Good
<1>2. i \in 2 .. Len(s)
  BY <1>1, NotFirst
<1>3. s[i].start \in Pages
  <2>1. s[i].start \in Nat /\ End(s[i]) = s[i].start + s[i].pages
    BY <1>1, EndProperties
  <2>2. Covers(s[i], s[i].start)
    BY <2>1 DEF Covers
  <2>3. QED BY <1>1, <2>1, <2>2, CoveredIsPage
<1>4. t \in List /\ Tiled(t) /\ Moves(s, t, s[i].start, kind)
  BY <1>1, <1>3, RetypePages
<1>5. Apart(s, i - 1, i + 1)
  BY <1>1 DEF Separated, Apart
<1>6. Shaped(t) /\ Separated(t)
  <2>1. s[i].pages > 0
    OBVIOUS
  <2>2. QED BY <1>1, <1>2, <1>5, <2>1, RetypeShape
<1>7. /\ Len(t) = Len(s)
      /\ \A k \in 1 .. Len(s) :
            t[k] = IF k = i THEN Sec(s[i].start, s[i].pages, kind) ELSE s[k]
  BY <1>1, RetypeElements
<1> HIDE DEF t
<1>8. t[i].free = kind
  <2>1. t[i] = Sec(s[i].start, s[i].pages, kind)
    BY <1>7
  <2>2. QED BY <2>1 DEF Sec
<1>9. \A k \in 1 .. Len(s) : k # i => t[k] = s[k]
  BY <1>7
<1>10. QED BY <1>4, <1>6, <1>7, <1>8, <1>9 DEF Good, t

\* Two neighbours of one kind become one section.
LEMMA MergeGood ==
    ASSUME NEW s, Good(s), NEW i \in 1 .. Len(s) - 1, s[i].free = s[i + 1].free
    PROVE  LET t == Merge(s, i) IN
           /\ Good(t)
           /\ SamePages(s, t)
           /\ Len(t) = Len(s) - 1
           /\ \A k \in 1 .. Len(t) : k < i => t[k] = s[k]
           /\ t[i].free = s[i].free
<1> DEFINE t == Merge(s, i)
<1>1. /\ s \in List /\ Tiled(s) /\ Shaped(s) /\ Separated(s)
      /\ s \in Seq(Section) /\ Len(s) \in Nat
  BY ListProperties DEF Good
<1>2. i \in 1 .. Len(s) /\ i + 1 \in 1 .. Len(s)
  BY <1>1
<1>3. t \in List /\ Tiled(t) /\ SamePages(s, t)
  BY <1>1, MergePages
<1>4. /\ Len(t) = Len(s) - 1
      /\ \A k \in 1 .. Len(s) - 1 : t[k] =
            IF k < i THEN s[k]
            ELSE IF k = i THEN Sec(s[i].start, s[i].pages + s[i + 1].pages, s[i].free)
            ELSE s[k + 1]
  BY <1>1, MergeElements
<1> HIDE DEF t
<1>5. t[i].free = s[i].free /\ t[i].pages = s[i].pages + s[i + 1].pages
  <2>1. t[i] = Sec(s[i].start, s[i].pages + s[i + 1].pages, s[i].free)
    BY <1>4
  <2>2. QED BY <2>1 DEF Sec
<1>6. ASSUME NEW k \in 1 .. Len(t)
      PROVE  /\ k < i => t[k] = s[k]
             /\ k > i => t[k] = s[k + 1]
             /\ k \in 1 .. Len(s) - 1 /\ k + 1 \in 1 .. Len(s) /\ k \in 1 .. Len(s)
  <2>1. k \in 1 .. Len(s) - 1 /\ k + 1 \in 1 .. Len(s) /\ k \in 1 .. Len(s)
    BY <1>1, <1>4
  <2>2. CASE k < i
    BY <1>4, <2>1, <2>2
  <2>3. CASE k > i
    BY <1>4, <2>1, <2>3
  <2>4. QED BY <2>1, <2>2, <2>3
<1>7. t[1].free = BAD
  <2>1. 1 \in 1 .. Len(t) /\ 1 <= i
    BY <1>1, <1>4
  <2>2. t[1].free = s[1].free
    BY <1>5, <1>6, <2>1
  <2>3. QED BY <1>1, <2>2 DEF Shaped
<1>8. ASSUME NEW k \in 1 .. Len(t), t[k].pages = 0 PROVE t[k].free = FREE
  <2>1. CASE k < i
    <3>1. k \in 1 .. Len(s) /\ t[k] = s[k]
      BY <1>6, <2>1
    <3>2. QED BY <1>1, <1>8, <3>1 DEF Shaped
  <2>2. CASE k = i
    <3>1. s[i].pages \in Nat /\ s[i + 1].pages \in Nat
      BY <1>1, <1>2, EndProperties
    <3>2. s[i].pages = 0
      BY <1>5, <1>8, <2>2, <3>1
    <3>3. QED BY <1>1, <1>2, <1>5, <2>2, <3>2 DEF Shaped
  <2>3. CASE k > i
    <3>1. k + 1 \in 1 .. Len(s) /\ t[k] = s[k + 1]
      BY <1>6, <2>3
    <3>2. QED BY <1>1, <1>8, <3>1 DEF Shaped
  <2>4. QED BY <2>1, <2>2, <2>3
<1>9. ASSUME NEW k \in 1 .. Len(t) - 1
      PROVE  ~ (t[k].free = FREE /\ t[k + 1].free = FREE)
  <2>1. k \in 1 .. Len(t) /\ k + 1 \in 1 .. Len(t) /\ k \in 1 .. Len(s) - 1
    BY <1>1, <1>4
  <2>2. CASE k < i
    <3>1. t[k].free = s[k].free /\ t[k + 1].free = s[k + 1].free
      <4>1. CASE k + 1 < i
        BY <1>6, <2>1, <2>2, <4>1
      <4>2. CASE k + 1 = i
        BY <1>5, <1>6, <2>1, <2>2, <4>2
      <4>3. QED BY <2>2, <4>1, <4>2
    <3>2. QED BY <1>1, <2>1, <3>1 DEF Separated
  <2>3. CASE k >= i
    <3>1. t[k].free = s[k + 1].free /\ t[k + 1] = s[(k + 1) + 1]
      <4>1. t[k + 1] = s[(k + 1) + 1]
        BY <1>6, <2>1, <2>3
      <4>2. CASE k = i
        BY <1>5, <4>1, <4>2
      <4>3. CASE k > i
        BY <1>6, <2>1, <4>1, <4>3
      <4>4. QED BY <2>3, <4>2, <4>3
    <3>2. k + 1 \in 1 .. Len(s) - 1
      BY <1>1, <1>4
    <3>3. QED BY <1>1, <3>1, <3>2 DEF Separated
  <2>4. QED BY <2>2, <2>3
<1>10. Shaped(t) /\ Separated(t)
  BY <1>7, <1>8, <1>9 DEF Shaped, Separated
<1>11. QED BY <1>3, <1>4, <1>5, <1>6, <1>10 DEF Good, t

\* An empty section may be unlinked: its neighbours are not FREE.
LEMMA RemoveGood ==
    ASSUME NEW s, Good(s), NEW i \in 1 .. Len(s) - 1, s[i].pages = 0
    PROVE  LET t == RemoveAt(s, i) IN Good(t) /\ SamePages(s, t)
<1> DEFINE t == RemoveAt(s, i)
<1>1. /\ s \in List /\ Tiled(s) /\ Shaped(s) /\ Separated(s) /\ Len(s) \in Nat
  BY ListProperties DEF Good
<1>2. i \in 1 .. Len(s) /\ s[i].free = FREE /\ FREE # BAD
  BY <1>1, KindsDiffer DEF Shaped
<1>3. i \in 2 .. Len(s) - 1
  <2>1. i # 1
    BY <1>1, <1>2 DEF Shaped
  <2>2. QED BY <2>1
<1>4. /\ t \in List /\ Tiled(t) /\ SamePages(s, t)
      /\ Len(t) = Len(s) - 1
      /\ \A k \in 1 .. Len(s) - 1 : t[k] = IF k < i THEN s[k] ELSE s[k + 1]
  BY <1>1, <1>3, RemovePages
<1> HIDE DEF t
<1>5. ASSUME NEW k \in 1 .. Len(t)
      PROVE  /\ k < i => t[k] = s[k]
             /\ k >= i => t[k] = s[k + 1]
             /\ k + 1 \in 1 .. Len(s) /\ k \in 1 .. Len(s)
  BY <1>1, <1>4
<1>6. t[1].free = BAD
  <2>1. 1 \in 1 .. Len(t) /\ 1 < i
    BY <1>1, <1>3, <1>4
  <2>2. QED BY <1>1, <1>5, <2>1 DEF Shaped
<1>7. ASSUME NEW k \in 1 .. Len(t), t[k].pages = 0 PROVE t[k].free = FREE
  <2>1. CASE k < i
    <3>1. k \in 1 .. Len(s) /\ t[k] = s[k]
      BY <1>5, <2>1
    <3>2. QED BY <1>1, <1>7, <3>1 DEF Shaped
  <2>2. CASE k >= i
    <3>1. k + 1 \in 1 .. Len(s) /\ t[k] = s[k + 1]
      BY <1>5, <2>2
    <3>2. QED BY <1>1, <1>7, <3>1 DEF Shaped
  <2>3. QED BY <2>1, <2>2
<1>8. s[i - 1].free # FREE /\ s[i + 1].free # FREE
  <2>1. i - 1 \in 1 .. Len(s) - 1 /\ (i - 1) + 1 = i
    BY <1>1, <1>3
  <2>2. QED BY <1>1, <1>2, <2>1 DEF Separated
<1>9. ASSUME NEW k \in 1 .. Len(t) - 1
      PROVE  ~ (t[k].free = FREE /\ t[k + 1].free = FREE)
  <2>1. k \in 1 .. Len(t) /\ k + 1 \in 1 .. Len(t)
    BY <1>1, <1>4
  <2>2. CASE k + 1 < i
    <3>1. t[k] = s[k] /\ t[k + 1] = s[k + 1] /\ k \in 1 .. Len(s) - 1
      BY <1>1, <1>4, <1>5, <2>1, <2>2
    <3>2. QED BY <1>1, <3>1 DEF Separated
  <2>3. CASE k + 1 = i
    <3>1. k = i - 1 /\ k < i
      BY <2>3
    <3>2. t[k] = s[i - 1]
      BY <1>5, <2>1, <3>1
    <3>3. QED BY <1>8, <3>2
  <2>4. CASE k >= i
    <3>1. t[k] = s[k + 1] /\ t[k + 1] = s[(k + 1) + 1] /\ k + 1 \in 1 .. Len(s) - 1
      BY <1>1, <1>4, <1>5, <2>1, <2>4
    <3>2. QED BY <1>1, <3>1 DEF Separated
  <2>5. QED BY <2>2, <2>3, <2>4
<1>10. Shaped(t) /\ Separated(t)
  BY <1>6, <1>7, <1>9 DEF Shaped, Separated
<1>11. QED BY <1>4, <1>10 DEF Good, t

\* A page is of one kind only.
LEMMA OneKind ==
    ASSUME NEW s \in List, Tiled(s), NEW a, NEW b, NEW p,
           p \in KindPages(s, a), p \in KindPages(s, b)
    PROVE  a = b
<1>1. p \in Nat
  BY DEF KindPages, Pages
<1>2. PICK i \in 1 .. Len(s) : s[i].free = a /\ Covers(s[i], p)
  BY KindPagesProperties
<1>3. PICK j \in 1 .. Len(s) : s[j].free = b /\ Covers(s[j], p)
  BY KindPagesProperties
<1>4. i = j
  BY <1>1, <1>2, <1>3, OneSection
<1>5. QED BY <1>2, <1>3, <1>4

----------------------------------------------------------------------------
(* The inductive invariant of the manager. *)

\* pmm_recombine's current is a section of the list.
RecombineCursor == pc = "recombine" => cursor >= 1

\* The inductive invariant.
IInv ==
    /\ TypeOK
    /\ SectionsTile
    /\ FreeSeparated
    /\ HeldIsUsed
    /\ PoolAhead
    /\ RecombineCursor

----------------------------------------------------------------------------
(* The three things a step can do to the pages. *)

Keeps == held' = held /\ SamePages(sections, sections')

Takes(p) ==
    /\ p \in FreePages
    /\ held' = held \cup {p}
    /\ Moves(sections, sections', p, USED)

Gives(p) ==
    /\ p \in held
    /\ held' = held \ {p}
    /\ SamePages(sections, sections') \/ Moves(sections, sections', p, FREE)

Effect == Keeps \/ \E p \in Pages : Takes(p) \/ Gives(p)

\* The list of the invariant.
LEMMA IInvGood ==
    ASSUME IInv
    PROVE  /\ Good(sections)
           /\ sections \in List /\ Tiled(sections) /\ Shaped(sections) /\ Separated(sections)
           /\ sections \in Seq(Section) /\ Len(sections) \in Nat /\ Len(sections) >= 1
           /\ DOMAIN sections = 1 .. Len(sections)
<1>1. /\ sections \in List /\ Tiled(sections) /\ Shaped(sections) /\ Separated(sections)
  BY DEF IInv, TypeOK, SectionsTile, FreeSeparated, List
<1>2. QED BY <1>1, ListProperties DEF Good

\* Install installs its list or halts with the one there is.
LEMMA InstallList ==
    ASSUME NEW s, NEW n, Install(s, n)
    PROVE  \/ sections' = s /\ halted' = halted
           \/ sections' = sections /\ halted' = TRUE
BY DEF Install, Halt

\* A list is the same as itself, page by page.
LEMMA SamePagesReflexive ==
    SamePages(sections, sections)
BY DEF SamePages

\* Moves followed by a change that keeps the kind of every page.
LEMMA MovesThenSame ==
    ASSUME NEW s, NEW u, NEW t, NEW x, NEW kind, Moves(s, u, x, kind), SamePages(u, t)
    PROVE  Moves(s, t, x, kind)
BY DEF SamePages, Moves

\* The kinds of a page, by the section it is in.
LEMMA PageKind ==
    ASSUME IInv, NEW p
    PROVE  /\ p \in FreePages <=>
                p \in Pages /\ \E i \in 1 .. Len(sections) :
                                 sections[i].free = FREE /\ Covers(sections[i], p)
           /\ p \in UsedPages <=>
                p \in Pages /\ \E i \in 1 .. Len(sections) :
                                 sections[i].free = USED /\ Covers(sections[i], p)
BY IInvGood, KindPagesProperties DEF FreePages, UsedPages, PagesOf

\* The scan for a page of a FREE section stops at that section: an empty
\* section before it that starts with the page would be a FREE neighbour.
LEMMA FoundFree ==
    ASSUME IInv, NEW p \in Nat, NEW i \in 1 .. Len(sections),
           sections[i].free = FREE, Covers(sections[i], p),
           NEW j, Found(j, p)
    PROVE  j = i
<1> DEFINE s == sections
<1>1. /\ s \in List /\ Tiled(s) /\ Shaped(s) /\ Separated(s)
      /\ Len(s) \in Nat /\ DOMAIN s = 1 .. Len(s)
  BY IInvGood
<1>2. j \in 1 .. Len(s) /\ Matches(j, p) /\ \A k \in 1 .. j - 1 : ~ Matches(k, p)
  BY <1>1 DEF Found
<1>3. /\ s[i].start \in Nat /\ End(s[i]) \in Nat
      /\ i < Len(s) => s[i + 1].start = End(s[i])
  BY <1>1, EndProperties
<1>4. Matches(i, p)
  BY <1>3 DEF Matches, Covers
<1>5. ~ (i < j)
  <2>1. i < j => i \in 1 .. j - 1
    BY <1>2
  <2>2. QED BY <1>2, <1>4, <2>1
<1>6. ASSUME j < i PROVE FALSE
  <2>1. j < Len(s) /\ j \in 1 .. Len(s) - 1 /\ j + 1 \in 1 .. Len(s)
    BY <1>1, <1>2, <1>6
  <2>2. /\ s[j].start \in Nat /\ s[j].pages \in Nat /\ End(s[j]) = s[j].start + s[j].pages
        /\ s[j + 1].start \in Nat /\ s[j + 1].pages \in Nat
        /\ End(s[j + 1]) = s[j + 1].start + s[j + 1].pages
        /\ s[j + 1].start = End(s[j])
    BY <1>1, <1>2, <2>1, EndProperties
  <2>3. End(s[j]) <= s[i].start
    BY <1>1, <1>2, <1>6 DEF Tiled
  <2>4. s[i].start <= p
    BY DEF Covers
  <2>5. s[j].start = p
    <3>1. s[j].start = p \/ p < s[j + 1].start
      BY <1>2, <2>1 DEF Matches
    <3>2. QED BY <1>3, <2>2, <2>3, <2>4, <3>1, SMTT(40)
  <2>6. s[j].pages = 0 /\ s[j + 1].start = p /\ s[i].start = p
    BY <1>3, <2>2, <2>3, <2>4, <2>5, SMTT(40)
  <2>7. s[j].free = FREE
    BY <1>1, <1>2, <2>6 DEF Shaped
  <2>8. s[j + 1].free = FREE
    <3>1. CASE j + 1 = i
      BY <3>1
    <3>2. CASE j + 1 < i
      <4>1. End(s[j + 1]) <= s[i].start
        BY <1>1, <2>1, <3>2 DEF Tiled
      <4>2. s[j + 1].pages = 0
        BY <1>3, <2>2, <2>6, <4>1
      <4>3. QED BY <1>1, <2>1, <4>2 DEF Shaped
    <3>3. QED BY <1>2, <1>6, <3>1, <3>2
  <2>9. QED BY <1>1, <2>1, <2>7, <2>8 DEF Separated
<1>7. QED BY <1>2, <1>5, <1>6

----------------------------------------------------------------------------
(* One lemma per operation. *)

Rest(p, n) ==
    \E k \in 1 .. Len(sections') : /\ sections'[k].free = FREE
                                   /\ sections'[k].start = p + 1
                                   /\ sections'[k].pages = n - 1

\* pmm_lock_page makes a FREE page USED, or halts; the rest of a section whose
\* first page it locks remains FREE.
LEMMA LockAtEffect ==
    ASSUME IInv, ~ halted, NEW p \in Nat, NEW i \in 1 .. Len(sections),
           sections[i].free = FREE, Covers(sections[i], p), LockAt(p)
    PROVE  /\ Good(sections')
           /\ halted' \in BOOLEAN
           /\ halted' => sections' = sections
           /\ ~ halted' => Moves(sections, sections', p, USED)
           /\ ~ halted' /\ sections[i].start = p /\ sections[i].pages > 1 =>
                Rest(p, sections[i].pages)
<1> DEFINE s == sections
<1>1. /\ Good(s) /\ s \in List /\ Tiled(s) /\ Shaped(s) /\ Separated(s)
      /\ Len(s) \in Nat /\ DOMAIN s = 1 .. Len(s)
  BY IInvGood
<1>2. PICK j \in DOMAIN s :
        /\ Found(j, p)
        /\ IF FallsOff(j, p) THEN Halt
           ELSE IF IsFirst(j, p) /\ s[j].pages = 1 THEN LockSingle(j)
           ELSE IF s[j].free = USED THEN Install(s, 0)
           ELSE LockFirst(j, p) \/ LockLast(j, p) \/ LockInner(j, p)
  BY DEF LockAt
<1>3. j = i
  BY <1>2, FoundFree
<1>4. /\ s[i].start \in Nat /\ s[i].pages \in Nat /\ s[i].pages > 0
      /\ End(s[i]) = s[i].start + s[i].pages
      /\ i < Len(s) => s[i + 1].start = End(s[i])
  <2>1. /\ s[i].start \in Nat /\ s[i].pages \in Nat
        /\ End(s[i]) = s[i].start + s[i].pages
        /\ i < Len(s) => s[i + 1].start = End(s[i])
    BY <1>1, EndProperties
  <2>2. QED BY <2>1 DEF Covers
<1>5. /\ USED \in Kinds /\ USED # FREE /\ FREE # BAD /\ USED # BAD
      /\ s[i].free # BAD /\ s[i].free # USED /\ i \in 2 .. Len(s)
  <2>1. USED \in Kinds /\ USED # FREE /\ FREE # BAD /\ USED # BAD
    BY KindsDiffer DEF Kinds
  <2>2. QED BY <1>1, <2>1, NotFirst
<1> DEFINE P == /\ Good(sections')
                /\ halted' \in BOOLEAN
                /\ halted' => sections' = sections
                /\ ~ halted' => Moves(sections, sections', p, USED)
                /\ ~ halted' /\ sections[i].start = p /\ sections[i].pages > 1 =>
                     Rest(p, sections[i].pages)
<1>6. ASSUME Halt PROVE P
  BY <1>1, <1>6 DEF Halt
<1>7. ASSUME NEW t, NEW n, Install(t, n), Good(t), Moves(s, t, p, USED),
             s[i].start = p /\ s[i].pages > 1 =>
                \E k \in 1 .. Len(t) : /\ t[k].free = FREE
                                       /\ t[k].start = p + 1
                                       /\ t[k].pages = s[i].pages - 1
      PROVE  P
  <2>1. CASE sections' = t /\ halted' = halted
    <3>1. halted' = FALSE
      BY <2>1 DEF IInv, TypeOK
    <3>2. Good(sections') /\ Moves(sections, sections', p, USED)
      BY <1>7, <2>1
    <3>3. s[i].start = p /\ s[i].pages > 1 => Rest(p, s[i].pages)
      BY <1>7, <2>1 DEF Rest
    <3>4. QED BY <3>1, <3>2, <3>3
  <2>2. CASE sections' = sections /\ halted' = TRUE
    BY <1>1, <2>2
  <2>3. QED BY <1>7, <2>1, <2>2, InstallList
<1> HIDE DEF P
<1>8. ASSUME IsFirst(i, p), s[i].pages = 1, LockSingle(i) PROVE P
  <2> DEFINE t == Retype(s, i, USED)
  <2>1. /\ Good(t) /\ Moves(s, t, s[i].start, USED) /\ Len(t) = Len(s)
        /\ t[i].free = USED
        /\ \A k \in 1 .. Len(s) : k # i => t[k] = s[k]
    BY <1>1, <1>5, <1>8, RetypeGood
  <2>2. s[i].start = p /\ Moves(s, t, p, USED)
    BY <1>8, <2>1 DEF IsFirst
  <2>3. IF i = Len(s) THEN Halt
        ELSE IF PrevIs(i, USED) /\ NextIs(i, USED) THEN Install(Merge(Merge(t, i), i - 1), 0)
        ELSE IF PrevIs(i, USED) THEN Install(Merge(t, i - 1), 0)
        ELSE IF NextIs(i, USED) THEN Install(Merge(t, i), 0)
        ELSE Install(t, 0)
    BY <1>8 DEF LockSingle
  <2> HIDE DEF t
  <2>4. NextIs(i, USED) => i \in 1 .. Len(t) - 1 /\ t[i].free = t[i + 1].free
    <3>1. i < Len(s) => i + 1 \in 1 .. Len(s) /\ i + 1 # i /\ i \in 1 .. Len(s) - 1
      BY <1>1
    <3>2. QED BY <2>1, <3>1 DEF NextIs
  <2>5. PrevIs(i, USED) => /\ i - 1 \in 1 .. Len(t) - 1 /\ (i - 1) + 1 = i
                           /\ i - 1 # i /\ i - 1 \in 1 .. Len(s)
                           /\ t[i - 1] = s[i - 1] /\ t[i - 1].free = USED
    <3>1. i - 1 \in 1 .. Len(s) - 1 /\ (i - 1) + 1 = i /\ i - 1 # i /\ i - 1 \in 1 .. Len(s)
      BY <1>1, <1>5
    <3>2. t[i - 1] = s[i - 1]
      BY <2>1, <3>1
    <3>3. QED BY <2>1, <3>1, <3>2 DEF PrevIs
  <2>6. CASE i = Len(s)
    BY <1>6, <2>3, <2>6
  <2>7. CASE i # Len(s) /\ PrevIs(i, USED) /\ NextIs(i, USED)
    <3> DEFINE m == Merge(t, i)
    <3>1. /\ Good(m) /\ SamePages(t, m) /\ Len(m) = Len(t) - 1
          /\ \A k \in 1 .. Len(m) : k < i => m[k] = t[k]
          /\ m[i].free = t[i].free
      BY <2>1, <2>4, <2>7, MergeGood
    <3> HIDE DEF m
    <3>2. i - 1 \in 1 .. Len(m) - 1 /\ i - 1 \in 1 .. Len(m) /\ i - 1 < i
      <4>1. i \in 2 .. Len(s) /\ i \in 1 .. Len(t) - 1
        BY <1>5, <2>4, <2>7
      <4>2. Len(m) = Len(s) - 1 /\ Len(t) = Len(s) /\ Len(s) \in Nat
        BY <1>1, <2>1, <3>1
      <4>3. QED BY ONLY <4>1, <4>2
    <3>3. m[i - 1].free = m[(i - 1) + 1].free
      <4>1. m[i - 1] = t[i - 1] /\ t[i - 1].free = USED
        BY <2>5, <2>7, <3>1, <3>2
      <4>2. m[i].free = USED /\ (i - 1) + 1 = i
        BY <2>1, <2>5, <2>7, <3>1
      <4>3. QED BY <4>1, <4>2
    <3>4. Good(Merge(m, i - 1)) /\ SamePages(m, Merge(m, i - 1))
      BY <3>1, <3>2, <3>3, MergeGood
    <3>5. Moves(s, Merge(m, i - 1), p, USED)
      BY <2>2, <3>1, <3>4, MovesThenSame
    <3>6. Install(Merge(m, i - 1), 0)
      BY <2>3, <2>7 DEF m
    <3>7. QED BY <1>7, <1>8, <3>4, <3>5, <3>6
  <2>8. CASE i # Len(s) /\ PrevIs(i, USED) /\ ~ NextIs(i, USED)
    <3>1. t[i - 1].free = t[(i - 1) + 1].free
      BY <2>1, <2>5, <2>8
    <3>2. Good(Merge(t, i - 1)) /\ SamePages(t, Merge(t, i - 1))
      BY <2>1, <2>5, <2>8, <3>1, MergeGood
    <3>3. Moves(s, Merge(t, i - 1), p, USED)
      BY <2>2, <3>2, MovesThenSame
    <3>4. Install(Merge(t, i - 1), 0)
      BY <2>3, <2>8
    <3>5. QED BY <1>7, <1>8, <3>2, <3>3, <3>4
  <2>9. CASE i # Len(s) /\ ~ PrevIs(i, USED) /\ NextIs(i, USED)
    <3>1. Good(Merge(t, i)) /\ SamePages(t, Merge(t, i))
      BY <2>1, <2>4, <2>9, MergeGood
    <3>2. Moves(s, Merge(t, i), p, USED)
      BY <2>2, <3>1, MovesThenSame
    <3>3. Install(Merge(t, i), 0)
      BY <2>3, <2>9
    <3>4. QED BY <1>7, <1>8, <3>1, <3>2, <3>3
  <2>10. CASE i # Len(s) /\ ~ PrevIs(i, USED) /\ ~ NextIs(i, USED)
    <3>1. Install(t, 0)
      BY <2>3, <2>10
    <3>2. QED BY <1>7, <1>8, <2>1, <2>2, <3>1
  <2>11. QED BY <2>6, <2>7, <2>8, <2>9, <2>10
<1>9. ASSUME ~ (IsFirst(i, p) /\ s[i].pages = 1), LockFirst(i, p) PROVE P
  <2>1. s[i].start = p /\ s[i].pages > 1
    BY <1>4, <1>9 DEF LockFirst, IsFirst
  <2>2. CASE PrevIs(i, USED)
    <3> DEFINE t == ShiftDown(s, i)
    <3>1. s[i - 1].free = USED
      BY <2>2 DEF PrevIs
    <3>2. /\ Good(t) /\ Moves(s, t, s[i].start, s[i - 1].free)
          /\ i \in 1 .. Len(t) /\ t[i].start = s[i].start + 1
          /\ t[i].pages = s[i].pages - 1 /\ t[i].free = s[i].free
      BY <1>1, <1>4, <1>5, ShiftDownGood
    <3>3. Install(t, 0)
      BY <1>9, <2>2 DEF LockFirst
    <3> HIDE DEF t
    <3>4. \E k \in 1 .. Len(t) : /\ t[k].free = FREE
                                 /\ t[k].start = p + 1
                                 /\ t[k].pages = s[i].pages - 1
      BY <2>1, <3>2
    <3>5. Moves(s, t, p, USED)
      BY <2>1, <3>1, <3>2
    <3>6. QED BY <1>7, <3>2, <3>3, <3>4, <3>5
  <2>3. CASE ~ PrevIs(i, USED)
    <3> DEFINE t == Retype(Split(s, i, p + 1), i, USED)
               n == IF Cuts(s, i, p + 1) THEN 1 ELSE 0
    <3>1. Install(t, n)
      BY <1>9, <2>3 DEF LockFirst
    <3>2. /\ Good(t) /\ Moves(s, t, s[i].start, USED)
          /\ i + 1 \in 1 .. Len(t)
          /\ t[i + 1].start = s[i].start + 1
          /\ t[i + 1].pages = s[i].pages - 1
          /\ t[i + 1].free = s[i].free
      BY <1>1, <1>4, <1>5, <2>1, HeadRetype
    <3> HIDE DEF t, n
    <3>3. \E k \in 1 .. Len(t) : /\ t[k].free = FREE
                                 /\ t[k].start = p + 1
                                 /\ t[k].pages = s[i].pages - 1
      BY <2>1, <3>2
    <3>4. Moves(s, t, p, USED)
      BY <2>1, <3>2
    <3>5. QED BY <1>7, <3>1, <3>2, <3>3, <3>4
  <2>4. QED BY <2>2, <2>3
<1>10. ASSUME LockLast(i, p) PROVE P
  <2>1. /\ i < Len(s) /\ i \in 1 .. Len(s) - 1
        /\ s[i].start < p /\ p + 1 = s[i + 1].start /\ p + 1 = End(s[i])
        /\ s[i].start # p
    BY <1>1, <1>4, <1>10 DEF LockLast, IsLast
  <2>2. CASE NextIs(i, USED)
    <3>1. Good(ShiftUp(s, i)) /\ Moves(s, ShiftUp(s, i), p, s[i + 1].free)
      BY <1>1, <2>1, ShiftUpGood
    <3>2. s[i + 1].free = USED
      BY <2>2 DEF NextIs
    <3>3. Install(ShiftUp(s, i), 0)
      BY <1>10, <2>2 DEF LockLast
    <3>4. QED BY <1>7, <2>1, <3>1, <3>2, <3>3
  <2>3. CASE ~ NextIs(i, USED)
    <3> DEFINE t == Retype(Split(s, i, p), i + 1, USED)
    <3>1. Good(t) /\ Moves(s, t, p, USED)
      BY <1>1, <1>5, <2>1, TailRetype
    <3>2. Install(t, 1)
      BY <1>10, <2>3 DEF LockLast
    <3>3. QED BY <1>7, <2>1, <3>1, <3>2
  <2>4. QED BY <2>2, <2>3
<1>11. ASSUME LockInner(i, p) PROVE P
  <2>1. s[i].start < p /\ p + 1 < End(s[i]) /\ s[i].start # p
    BY <1>4, <1>11 DEF LockInner, IsInner
  <2> DEFINE t == Retype(Split(Split(s, i, p), i + 1, p + 1), i + 1, USED)
  <2>2. Good(t) /\ Moves(s, t, p, USED)
    BY <1>1, <1>5, <2>1, MiddleRetype
  <2>3. Install(t, 2)
    BY <1>11 DEF LockInner
  <2>4. QED BY <1>7, <2>1, <2>2, <2>3
<1>12. P
  BY <1>2, <1>3, <1>5, <1>6, <1>8, <1>9, <1>10, <1>11
<1>13. QED BY <1>12 DEF P

\* A page of the list is a natural number.
LEMMA PageIsNat ==
    ASSUME NEW p \in Pages
    PROVE  p \in Nat
BY DEF Pages

\* The kinds are kinds, and differ.
LEMMA KindsAreKinds ==
    /\ USED \in Kinds /\ FREE \in Kinds /\ BAD \in Kinds
    /\ USED # FREE /\ FREE # BAD /\ USED # BAD
BY KindsDiffer DEF Kinds

\* Unlinking an empty section changes the kind of no page.
LEMMA UnlinkEffect ==
    ASSUME IInv, AllocUnlinkEmpty
    PROVE  Good(sections') /\ Effect
<1>1. PICK i \in DOMAIN sections :
        /\ sections[i].pages = 0
        /\ IF i = Len(sections) THEN Halt ELSE Install(RemoveAt(sections, i), 0)
  BY DEF AllocUnlinkEmpty
<1>2. held' = held /\ Good(sections) /\ i \in 1 .. Len(sections) /\ Len(sections) \in Nat
  BY IInvGood DEF AllocUnlinkEmpty
<1>3. CASE sections' = sections
  BY <1>2, <1>3, SamePagesReflexive DEF Effect, Keeps
<1>4. CASE i # Len(sections) /\ sections' = RemoveAt(sections, i)
  <2>1. i \in 1 .. Len(sections) - 1
    BY <1>2, <1>4
  <2>2. Good(sections') /\ SamePages(sections, sections')
    BY <1>1, <1>2, <1>4, <2>1, RemoveGood
  <2>3. QED BY <1>2, <2>2 DEF Effect, Keeps
<1>5. QED BY <1>1, <1>3, <1>4, InstallList DEF Halt

\* pmm_alloc_page takes the first page of a FREE section.
LEMMA TakeEffect ==
    ASSUME IInv, AllocTake
    PROVE  Good(sections') /\ Effect
<1> DEFINE s == sections
<1>1. /\ Good(s) /\ s \in List /\ Tiled(s) /\ Shaped(s) /\ Len(s) \in Nat
      /\ DOMAIN s = 1 .. Len(s) /\ halted = FALSE
  BY IInvGood DEF AllocTake, IInv, TypeOK
<1>2. PICK i \in 1 .. Len(s) :
        /\ s[i].free = FREE /\ s[i].pages # 0
        /\ IF PrevIs(i, USED)
           THEN Install(ShiftDown(s, i), 0)
           ELSE Install(Retype(Split(s, i, s[i].start + 1), i, USED),
                        IF Cuts(s, i, s[i].start + 1) THEN 1 ELSE 0)
        /\ held' = IF halted' THEN held ELSE held \cup {s[i].start}
  BY <1>1 DEF AllocTake, Candidate
<1> DEFINE x == s[i].start
<1>3. /\ s[i].pages > 0 /\ i \in 2 .. Len(s) /\ x \in FreePages /\ x \in Pages
  <2>1. /\ x \in Nat /\ s[i].pages \in Nat /\ End(s[i]) = x + s[i].pages
    BY <1>1, EndProperties
  <2>2. Covers(s[i], x)
    BY <1>2, <2>1 DEF Covers
  <2>3. x \in Pages
    BY <1>1, <2>1, <2>2, CoveredIsPage
  <2>4. QED BY <1>1, <1>2, <2>1, <2>2, <2>3, NotFirst, PageKind, KindsAreKinds
<1>4. ASSUME NEW t, NEW n, Install(t, n), Good(t), Moves(s, t, x, USED)
      PROVE  Good(sections') /\ Effect
  <2>1. CASE sections' = t /\ halted' = halted
    <3>1. held' = held \cup {x}
      BY <1>1, <1>2, <2>1
    <3>2. Takes(x)
      BY <1>3, <1>4, <2>1, <3>1 DEF Takes
    <3>3. QED BY <1>3, <1>4, <2>1, <3>2 DEF Effect
  <2>2. CASE sections' = sections /\ halted' = TRUE
    <3>1. held' = held
      BY <1>2, <2>2
    <3>2. QED BY <1>1, <2>2, <3>1, SamePagesReflexive DEF Effect, Keeps
  <2>3. QED BY <1>4, <2>1, <2>2, InstallList
<1>5. CASE PrevIs(i, USED)
  <2>1. Good(ShiftDown(s, i)) /\ Moves(s, ShiftDown(s, i), x, s[i - 1].free)
    BY <1>1, <1>2, <1>3, ShiftDownGood
  <2>2. s[i - 1].free = USED /\ Install(ShiftDown(s, i), 0)
    BY <1>2, <1>5 DEF PrevIs
  <2>3. QED BY <1>4, <2>1, <2>2
<1>6. CASE ~ PrevIs(i, USED)
  <2> DEFINE t == Retype(Split(s, i, x + 1), i, USED)
             n == IF Cuts(s, i, x + 1) THEN 1 ELSE 0
  <2>1. Good(t) /\ Moves(s, t, x, USED)
    BY <1>1, <1>2, <1>3, HeadRetype, KindsAreKinds
  <2>2. Install(t, n)
    BY <1>2, <1>6
  <2> HIDE DEF t, n
  <2>3. QED BY <1>4, <2>1, <2>2
<1>7. QED BY <1>5, <1>6

\* pmm_free_page makes the page FREE, or leaves it USED.
LEMMA FreeEffect ==
    ASSUME IInv, NEW p \in Pages, FreePage(p)
    PROVE  Good(sections') /\ Effect
<1> DEFINE s == sections
<1>1. /\ Good(s) /\ s \in List /\ Tiled(s) /\ Shaped(s) /\ Len(s) \in Nat
      /\ DOMAIN s = 1 .. Len(s) /\ halted = FALSE
  BY IInvGood DEF FreePage, Idle, IInv, TypeOK
<1>2. PICK i \in 1 .. Len(s) :
        /\ Found(i, p)
        /\ IF FallsOff(i, p) THEN Halt /\ Credit(0)
           ELSE IF sections[i].free = FREE THEN Install(sections, 0) /\ Credit(0)
           ELSE \/ FreeSingle(i, p)
                \/ FreeFirst(i, p)
                \/ FreeLast(i, p)
                \/ FreeInner(i, p)
  BY <1>1 DEF FreePage
<1>3. p \in held /\ held' = IF halted' THEN held ELSE held \ {p}
  BY DEF FreePage
<1>4. ASSUME NEW t, NEW n, Install(t, n), Good(t),
             SamePages(s, t) \/ Moves(s, t, p, FREE)
      PROVE  Good(sections') /\ Effect
  <2>1. CASE sections' = t /\ halted' = halted
    <3>1. held' = held \ {p}
      BY <1>1, <1>3, <2>1
    <3>2. Gives(p)
      BY <1>3, <1>4, <2>1, <3>1 DEF Gives
    <3>3. QED BY <1>4, <2>1, <3>2 DEF Effect
  <2>2. CASE sections' = sections /\ halted' = TRUE
    <3>1. held' = held
      BY <1>3, <2>2
    <3>2. QED BY <1>1, <2>2, <3>1, SamePagesReflexive DEF Effect, Keeps
  <2>3. QED BY <1>4, <2>1, <2>2, InstallList
<1>5. ASSUME Install(s, 0) PROVE Good(sections') /\ Effect
  BY <1>1, <1>4, <1>5, SamePagesReflexive
<1>6. ASSUME Halt PROVE Good(sections') /\ Effect
  <2>1. held' = held /\ sections' = sections
    BY <1>3, <1>6 DEF Halt
  <2>2. QED BY <1>1, <2>1, SamePagesReflexive DEF Effect, Keeps
<1>7. CASE FallsOff(i, p)
  BY <1>2, <1>6, <1>7
<1>8. CASE ~ FallsOff(i, p) /\ s[i].free = FREE
  BY <1>2, <1>5, <1>8
<1>9. CASE ~ FallsOff(i, p) /\ s[i].free # FREE
  <2>1. p \in Nat
    BY PageIsNat
  <2>2. /\ s[i].start \in Nat /\ s[i].pages \in Nat
        /\ End(s[i]) = s[i].start + s[i].pages
        /\ i < Len(s) => s[i + 1].start = End(s[i])
        /\ s[i].pages > 0
    <3>1. /\ s[i].start \in Nat /\ s[i].pages \in Nat
          /\ End(s[i]) = s[i].start + s[i].pages
          /\ i < Len(s) => s[i + 1].start = End(s[i])
      BY <1>1, EndProperties
    <3>2. s[i].pages # 0
      BY <1>1, <1>9 DEF Shaped
    <3>3. QED BY <3>1, <3>2
  <2>3. Covers(s[i], p)
    <3>1. CASE s[i].start = p
      BY <2>1, <2>2, <3>1 DEF Covers
    <3>2. CASE s[i].start # p
      <4>1. i < Len(s)
        <5>1. i # Len(s)
          BY <1>9, <3>2 DEF FallsOff
        <5>2. Len(s) \in Nat
          BY <1>1
        <5>3. QED BY <5>1, <5>2
      <4>2. s[i].start < p /\ p < s[i + 1].start
        <5>1. Matches(i, p)
          BY <1>2 DEF Found
        <5>2. QED BY <3>2, <4>1, <5>1 DEF Matches
      <4>3. QED BY <2>1, <2>2, <4>1, <4>2 DEF Covers
    <3>3. QED BY <3>1, <3>2
  <2>4. s[i].free = USED
    <3>1. p \in UsedPages
      BY <1>3 DEF IInv, HeldIsUsed
    <3>2. PICK c \in 1 .. Len(s) : s[c].free = USED /\ Covers(s[c], p)
      BY <3>1, PageKind
    <3>3. c = i
      BY <1>1, <2>1, <2>3, <3>2, OneSection
    <3>4. QED BY <3>2, <3>3
  <2>5. i \in 2 .. Len(s) /\ s[i].free # BAD /\ FREE # s[i].free /\ FREE \in Kinds
    BY <1>1, <2>4, NotFirst, KindsAreKinds
  <2>6. ASSUME FreeSingle(i, p) PROVE Good(sections') /\ Effect
    <3>1. s[i].start = p /\ s[i].pages = 1
      BY <2>6 DEF FreeSingle, IsFirst
    <3>2. CASE i = Len(s)
      BY <1>6, <2>6, <3>2 DEF FreeSingle
    <3>3. CASE i # Len(s) /\ (PrevIs(i, FREE) \/ NextIs(i, FREE))
      BY <1>5, <2>6, <3>3 DEF FreeSingle
    <3>4. CASE i # Len(s) /\ ~ PrevIs(i, FREE) /\ ~ NextIs(i, FREE)
      <4>1. /\ s[i - 1].free # FREE
            /\ i < Len(s) => s[i + 1].free # FREE
        BY <2>5, <3>4 DEF PrevIs, NextIs
      <4>2. Good(Retype(s, i, FREE)) /\ Moves(s, Retype(s, i, FREE), p, FREE)
        BY <1>1, <2>5, <3>1, <4>1, RetypeGood
      <4>3. Install(Retype(s, i, FREE), 0)
        BY <2>6, <3>4 DEF FreeSingle
      <4>4. QED BY <1>4, <4>2, <4>3
    <3>5. QED BY <3>2, <3>3, <3>4
  <2>7. ASSUME FreeFirst(i, p) PROVE Good(sections') /\ Effect
    <3>1. s[i].start = p /\ s[i].pages # 1 /\ s[i].pages > 1
      BY <2>2, <2>7 DEF FreeFirst, IsFirst
    <3>2. CASE PrevIs(i, FREE)
      <4>1. s[i - 1].free = FREE
        BY <3>2 DEF PrevIs
      <4>2. Good(ShiftDown(s, i)) /\ Moves(s, ShiftDown(s, i), s[i].start, s[i - 1].free)
        BY <1>1, <2>2, <2>5, <3>1, ShiftDownGood
      <4>3. Install(ShiftDown(s, i), 0)
        BY <2>7, <3>2 DEF FreeFirst
      <4>4. QED BY <1>4, <3>1, <4>1, <4>2, <4>3
    <3>3. CASE ~ PrevIs(i, FREE)
      <4> DEFINE t == Retype(Split(s, i, p + 1), i, FREE)
      <4>1. s[i - 1].free # FREE
        BY <2>5, <3>3 DEF PrevIs
      <4>2. Good(t) /\ Moves(s, t, p, FREE)
        BY <1>1, <2>2, <2>5, <3>1, <4>1, HeadRetype
      <4>3. Install(t, 1)
        BY <2>7, <3>3 DEF FreeFirst
      <4> HIDE DEF t
      <4>4. QED BY <1>4, <4>2, <4>3
    <3>4. QED BY <3>2, <3>3
  <2>8. ASSUME FreeLast(i, p) PROVE Good(sections') /\ Effect
    <3>1. /\ i < Len(s) /\ i \in 1 .. Len(s) - 1
          /\ s[i].start < p /\ p + 1 = s[i + 1].start /\ p + 1 = End(s[i])
      BY <1>1, <2>2, <2>8 DEF FreeLast, IsLast
    <3>2. CASE NextIs(i, FREE)
      <4>1. Good(ShiftUp(s, i)) /\ Moves(s, ShiftUp(s, i), p, s[i + 1].free)
        BY <1>1, <2>1, <3>1, ShiftUpGood
      <4>2. s[i + 1].free = FREE
        BY <3>2 DEF NextIs
      <4>3. Install(ShiftUp(s, i), 0)
        BY <2>8, <3>2 DEF FreeLast
      <4>4. QED BY <1>4, <4>1, <4>2, <4>3
    <3>3. CASE ~ NextIs(i, FREE)
      <4> DEFINE t == Retype(Split(s, i, p), i + 1, FREE)
      <4>1. FREE = FREE /\ i < Len(s) => s[i + 1].free # FREE
        BY <3>3 DEF NextIs
      <4>2. Good(t) /\ Moves(s, t, p, FREE)
        BY <1>1, <2>1, <2>5, <3>1, <4>1, TailRetype
      <4>3. Install(t, 1)
        BY <2>8, <3>3 DEF FreeLast
      <4> HIDE DEF t
      <4>4. QED BY <1>4, <4>2, <4>3
    <3>4. QED BY <3>2, <3>3
  <2>9. ASSUME FreeInner(i, p) PROVE Good(sections') /\ Effect
    BY <1>5, <2>9 DEF FreeInner
  <2>10. QED BY <1>2, <1>9, <2>6, <2>7, <2>8, <2>9
<1>10. QED BY <1>7, <1>8, <1>9

\* pmm_lock_page for a page nobody holds takes that page.
LEMMA LockPageEffect ==
    ASSUME IInv, LockTargets \subseteq {FREE}, NEW p \in Pages, LockPage(p)
    PROVE  Good(sections') /\ Effect
<1>1. p \in FreePages
  BY DEF LockPage, FreePages
<1>2. PICK i \in 1 .. Len(sections) : sections[i].free = FREE /\ Covers(sections[i], p)
  BY <1>1, PageKind
<1>3. /\ Good(sections') /\ halted' \in BOOLEAN
      /\ halted' => sections' = sections
      /\ ~ halted' => Moves(sections, sections', p, USED)
  BY <1>2, LockAtEffect, PageIsNat DEF LockPage, Idle
<1>4. held' = IF ~ halted' THEN held \cup {p} ELSE held
  BY <1>1 DEF LockPage
<1>5. CASE halted'
  BY <1>3, <1>4, <1>5, SamePagesReflexive DEF Effect, Keeps
<1>6. CASE ~ halted'
  <2>1. Takes(p)
    BY <1>1, <1>3, <1>4, <1>6 DEF Takes
  <2>2. QED BY <1>3, <2>1 DEF Effect
<1>7. QED BY <1>5, <1>6

\* An iteration of pmm_lock_pages takes the next page and leaves the rest.
LEMMA PoolLockEffect ==
    ASSUME IInv, PoolLock
    PROVE  Good(sections') /\ Effect /\ PoolAhead'
<1>1. /\ pc = "lock" /\ ~ halted /\ LockAt(cursor)
      /\ held' = IF halted' THEN held ELSE held \cup {cursor}
      /\ cursor' = cursor + 1 /\ left' = left - 1
      /\ pc' = IF left = 1 THEN "idle" ELSE "lock"
  BY DEF PoolLock
<1>2. PICK i \in 1 .. Len(sections) :
        /\ sections[i].free = FREE /\ sections[i].start = cursor
        /\ sections[i].pages >= left
  BY <1>1, IInvGood DEF IInv, PoolAhead
<1>3. left > 0 /\ left \in Nat /\ cursor \in Nat
  BY <1>1 DEF IInv, PoolAhead, TypeOK
<1>4. /\ sections[i].pages \in Nat /\ End(sections[i]) = cursor + sections[i].pages
  BY <1>2, IInvGood, EndProperties
<1>5. Covers(sections[i], cursor)
  BY <1>2, <1>3, <1>4 DEF Covers
<1>6. cursor \in Pages /\ cursor \in FreePages
  <2>1. cursor \in Pages
    BY <1>3, <1>5, IInvGood, CoveredIsPage
  <2>2. QED BY <1>2, <1>5, <2>1, PageKind
<1>7. /\ Good(sections') /\ halted' \in BOOLEAN
      /\ halted' => sections' = sections
      /\ ~ halted' => Moves(sections, sections', cursor, USED)
      /\ ~ halted' /\ sections[i].pages > 1 => Rest(cursor, sections[i].pages)
  BY <1>1, <1>2, <1>3, <1>5, LockAtEffect
<1>8. CASE halted'
  <2>1. PoolAhead'
    BY <1>8 DEF PoolAhead
  <2>2. QED BY <1>1, <1>7, <1>8, <2>1, SamePagesReflexive DEF Effect, Keeps
<1>9. CASE ~ halted'
  <2>1. Takes(cursor)
    BY <1>1, <1>6, <1>7, <1>9 DEF Takes
  <2>2. PoolAhead'
    <3>1. CASE left = 1
      BY <1>1, <3>1 DEF PoolAhead
    <3>2. CASE left > 1
      <4>1. sections[i].pages > 1 /\ left' > 0 /\ sections[i].pages - 1 >= left'
        BY <1>1, <1>2, <1>3, <1>4, <3>2
      <4>2. PICK k \in 1 .. Len(sections') :
              /\ sections'[k].free = FREE /\ sections'[k].start = cursor + 1
              /\ sections'[k].pages = sections[i].pages - 1
        BY <1>7, <1>9, <4>1 DEF Rest
      <4>3. k \in DOMAIN sections'
        BY <1>7, ListProperties DEF Good
      <4>4. QED BY <1>1, <4>1, <4>2, <4>3 DEF PoolAhead
    <3>3. QED BY <1>3, <3>1, <3>2
  <2>3. QED BY <1>6, <1>7, <2>1, <2>2 DEF Effect
<1>10. QED BY <1>8, <1>9

\* A turn of pmm_recombine changes the kind of no page.
LEMMA RecombineEffect ==
    ASSUME IInv, RecombineMerge
    PROVE  Good(sections') /\ Effect
<1> DEFINE t == Merge(sections, cursor)
<1>1. /\ cursor < Len(sections) /\ pc = "recombine" /\ held' = held
      /\ sections[cursor].free = sections[cursor + 1].free
      /\ Install(t, 0)
  BY DEF RecombineMerge
<1>2. Good(sections) /\ cursor \in 1 .. Len(sections) - 1
  <2>1. cursor \in Nat /\ cursor >= 1
    BY <1>1 DEF IInv, TypeOK, RecombineCursor
  <2>2. QED BY <1>1, <2>1, IInvGood
<1>3. Good(t) /\ SamePages(sections, t)
  BY <1>1, <1>2, MergeGood
<1> HIDE DEF t
<1>4. CASE sections' = t
  BY <1>1, <1>3, <1>4 DEF Effect, Keeps
<1>5. CASE sections' = sections
  BY <1>1, <1>2, <1>5, SamePagesReflexive DEF Effect, Keeps
<1>6. QED BY <1>1, <1>4, <1>5, InstallList

----------------------------------------------------------------------------
(* The invariant. *)

\* Every step keeps the list in shape and takes or gives at most one page.
LEMMA StepEffect ==
    ASSUME IInv, [Next]_vars, LockTargets \subseteq {FREE}
    PROVE  Good(sections') /\ Effect /\ PoolAhead' /\ RecombineCursor'
<1> DEFINE P == Good(sections') /\ Effect
           Q == PoolAhead' /\ RecombineCursor'
<1>1. /\ Good(sections) /\ Len(sections) \in Nat
      /\ DOMAIN sections = 1 .. Len(sections)
  BY IInvGood
<1>2. ASSUME sections' = sections, held' = held PROVE P
  BY <1>1, <1>2, SamePagesReflexive DEF Effect, Keeps
<1>3. ASSUME pc' \in {"idle", "alloc"} PROVE Q
  BY <1>3 DEF PoolAhead, RecombineCursor
<1> HIDE DEF P, Q
<1>4. CASE AllocPage
  BY <1>2, <1>3, <1>4 DEF AllocPage, P, Q
<1>5. CASE AllocUnlinkEmpty
  <2>1. P
    BY <1>5, UnlinkEffect DEF P
  <2>2. pc' = "alloc"
    BY <1>5 DEF AllocUnlinkEmpty, Continue
  <2>3. QED BY <1>3, <2>1, <2>2 DEF P, Q
<1>6. CASE AllocTake
  <2>1. P
    BY <1>6, TakeEffect DEF P
  <2>2. pc' = "idle"
    BY <1>6 DEF AllocTake
  <2>3. QED BY <1>3, <2>1, <2>2 DEF P, Q
<1>7. CASE AllocFail
  BY <1>2, <1>3, <1>7 DEF AllocFail, P, Q
<1>8. ASSUME NEW p \in Pages, FreePage(p)
      PROVE  P /\ Q
  <2>1. P
    BY <1>8, FreeEffect DEF P
  <2>2. pc' = "idle"
    BY <1>8 DEF FreePage, Continue, Idle
  <2>3. QED BY <1>3, <2>1, <2>2
<1>9. ASSUME NEW p \in Pages, LockPage(p)
      PROVE  P /\ Q
  <2>1. P
    BY <1>9, LockPageEffect DEF P
  <2>2. pc' = "idle"
    BY <1>9 DEF LockPage, Continue, Idle
  <2>3. QED BY <1>3, <2>1, <2>2
<1>10. ASSUME NEW n \in PoolSizes, AllocPool(n)
       PROVE  P /\ Q
  <2>1. P
    BY <1>2, <1>10 DEF AllocPool
  <2>2. CASE \E i \in DOMAIN sections : Fits(i, n)
    <3>1. PICK i \in DOMAIN sections :
            /\ Fits(i, n) /\ pc' = "lock"
            /\ cursor' = sections[i].start /\ left' = n
      BY <1>10, <2>2 DEF AllocPool
    <3>2. n > 0 /\ sections' = sections
      BY <1>10, SizesAssumption DEF AllocPool
    <3>3. QED BY <2>1, <3>1, <3>2 DEF Q, PoolAhead, RecombineCursor, Fits
  <2>3. CASE ~ \E i \in DOMAIN sections : Fits(i, n)
    <3>1. pc' = "recombine" /\ cursor' = 1
      BY <1>10, <2>3 DEF AllocPool
    <3>2. QED BY <2>1, <3>1 DEF Q, PoolAhead, RecombineCursor
  <2>4. QED BY <2>1, <2>2, <2>3
<1>11. CASE PoolLock
  <2>1. pc' # "recombine"
    BY <1>11 DEF PoolLock
  <2>2. QED BY <1>11, <2>1, PoolLockEffect DEF RecombineCursor
<1>12. CASE RecombineMerge
  <2>1. P
    BY <1>12, RecombineEffect DEF P
  <2>2. pc' = "recombine" /\ cursor' >= 1
    BY <1>12 DEF RecombineMerge, IInv, TypeOK
  <2>3. QED BY <2>1, <2>2 DEF P, PoolAhead, RecombineCursor
<1>13. CASE RecombineSkip
  <2>1. P
    BY <1>2, <1>13 DEF RecombineSkip
  <2>2. pc' = "recombine" /\ cursor' >= 1
    BY <1>13 DEF RecombineSkip, IInv, TypeOK
  <2>3. QED BY <2>1, <2>2 DEF P, PoolAhead, RecombineCursor
<1>14. CASE RecombinePassEnd
  <2>1. P
    BY <1>2, <1>14 DEF RecombinePassEnd
  <2>2. pc' # "lock" /\ cursor' >= 1
    BY <1>14 DEF RecombinePassEnd
  <2>3. QED BY <2>1, <2>2 DEF P, PoolAhead, RecombineCursor
<1>15. CASE PmmDump \/ UNCHANGED vars
  <2>1. /\ sections' = sections /\ held' = held /\ pc' = pc /\ halted' = halted
        /\ cursor' = cursor /\ left' = left
    BY <1>15 DEF PmmDump, vars
  <2>2. P
    BY <1>2, <2>1
  <2>3. QED BY <2>1, <2>2 DEF P, IInv, PoolAhead, RecombineCursor
<1>16. QED
  BY <1>4, <1>5, <1>6, <1>7, <1>8, <1>9, <1>10, <1>11, <1>12, <1>13, <1>14, <1>15
  DEF Next, Step, P, Q

\* The free pages can be counted.
LEMMA FreePagesCount ==
    Cardinality(FreePages) \in Nat
<1>1. IsFiniteSet(Pages)
  <2>1. TotalPages \in Nat /\ 0 \in Int /\ TotalPages - 1 \in Int
    BY SizesAssumption
  <2>2. QED BY <2>1, FS_Interval DEF Pages
<1>2. FreePages \subseteq Pages
  BY DEF FreePages, PagesOf, KindPages
<1>3. IsFiniteSet(FreePages)
  BY <1>1, <1>2, FS_Subset
<1>4. QED BY <1>3, FS_CardinalityType

\* free_memory is a word, whatever is added to it.
LEMMA WordType ==
    ASSUME NEW n \in Int
    PROVE  n % Word \in 0 .. Word - 1
BY SizesAssumption

\* Every step keeps the types of the variables.
LEMMA TypeStep ==
    ASSUME IInv, [Next]_vars, Good(sections'), Effect
    PROVE  TypeOK'
<1> DEFINE H == head' \in 0 .. Slots /\ halted' \in BOOLEAN
           M == free_memory' \in 0 .. Word - 1
           R == /\ pc' \in {"idle", "alloc", "lock", "recombine"}
                /\ cursor' \in Nat
                /\ left' \in Nat
                /\ detected' \in BOOLEAN
<1>1. /\ head \in 0 .. Slots /\ halted \in BOOLEAN /\ free_memory \in 0 .. Word - 1
      /\ held \subseteq Pages /\ Slots \in Nat /\ Word \in Nat \ {0}
      /\ pc \in {"idle", "alloc", "lock", "recombine"}
      /\ cursor \in Nat /\ left \in Nat /\ detected \in BOOLEAN
  BY SizesAssumption, SlotsAssumption DEF IInv, TypeOK
<1>2. ASSUME NEW s, NEW n \in Nat, Install(s, n) PROVE H
  <2>1. CASE head + n <= Slots
    <3>1. head' = head + n /\ halted' = halted
      BY <1>2, <2>1 DEF Install
    <3>2. head' \in 0 .. Slots
      BY <1>1, <2>1, <3>1
    <3>3. QED BY <1>1, <3>1, <3>2
  <2>2. CASE ~ (head + n <= Slots)
    <3>1. head' = head /\ halted' = TRUE
      BY <1>2, <2>2 DEF Install, Halt
    <3>2. QED BY <1>1, <3>1
  <2>3. QED BY <2>1, <2>2
<1>3. ASSUME Halt PROVE H
  BY <1>1, <1>3 DEF Halt
<1>4. ASSUME NEW n \in Int, Credit(n) PROVE M
  <2>1. free_memory + n \in Int
    BY <1>1
  <2>2. QED BY <1>4, <2>1, WordType DEF Credit
<1>5. ASSUME Continue PROVE R
  BY <1>1, <1>5 DEF Continue
<1>6. ASSUME head' = head, halted' = halted PROVE H
  BY <1>1, <1>6
<1>7. ASSUME free_memory' = free_memory PROVE M
  BY <1>1, <1>7
<1> HIDE DEF H, M, R
<1>8. ASSUME NEW p, LockAt(p) PROVE H
  <2>1. PICK i \in DOMAIN sections :
          \/ Halt
          \/ LockSingle(i)
          \/ Install(sections, 0)
          \/ LockFirst(i, p)
          \/ LockLast(i, p)
          \/ LockInner(i, p)
    BY <1>8 DEF LockAt
  <2>2. ASSUME LockSingle(i) PROVE H
    BY <1>2, <1>3, <2>2 DEF LockSingle
  <2>3. ASSUME LockFirst(i, p) PROVE H
    BY <1>2, <2>3 DEF LockFirst
  <2>4. ASSUME LockLast(i, p) PROVE H
    BY <1>2, <2>4 DEF LockLast
  <2>5. ASSUME LockInner(i, p) PROVE H
    BY <1>2, <2>5 DEF LockInner
  <2>6. QED BY <1>2, <1>3, <2>1, <2>2, <2>3, <2>4, <2>5
<1>9. ASSUME NEW p, FreePage(p) PROVE H /\ M
  <2>1. PICK i \in DOMAIN sections :
          \/ Halt /\ Credit(0)
          \/ Install(sections, 0) /\ Credit(0)
          \/ FreeSingle(i, p)
          \/ FreeFirst(i, p)
          \/ FreeLast(i, p)
          \/ FreeInner(i, p)
    BY <1>9 DEF FreePage
  <2>2. ASSUME FreeSingle(i, p) PROVE H /\ M
    BY <1>2, <1>3, <1>4, <2>2 DEF FreeSingle
  <2>3. ASSUME FreeFirst(i, p) PROVE H /\ M
    BY <1>2, <1>4, <2>3 DEF FreeFirst
  <2>4. ASSUME FreeLast(i, p) PROVE H /\ M
    BY <1>2, <1>4, <2>4 DEF FreeLast
  <2>5. ASSUME FreeInner(i, p) PROVE H /\ M
    BY <1>2, <1>4, <2>5 DEF FreeInner
  <2>6. QED BY <1>2, <1>3, <1>4, <2>1, <2>2, <2>3, <2>4, <2>5
<1>10. ASSUME Next PROVE H /\ M /\ R
  <2>1. CASE AllocPage
    <3>1. head' = head /\ halted' = halted /\ free_memory' = free_memory
      BY <2>1 DEF AllocPage
    <3>2. R
      BY <1>1, <2>1 DEF AllocPage, R
    <3>3. QED BY <1>6, <1>7, <3>1, <3>2
  <2>2. CASE AllocUnlinkEmpty
    <3>1. H
      BY <1>2, <1>3, <2>2 DEF AllocUnlinkEmpty
    <3>2. free_memory' = free_memory /\ Continue
      BY <2>2 DEF AllocUnlinkEmpty
    <3>3. QED BY <1>5, <1>7, <3>1, <3>2
  <2>3. CASE AllocTake
    <3>1. H
      BY <1>2, <2>3 DEF AllocTake
    <3>2. M
      BY <1>4, <2>3 DEF AllocTake
    <3>3. R
      BY <1>1, <2>3 DEF AllocTake, R
    <3>4. QED BY <3>1, <3>2, <3>3
  <2>4. CASE AllocFail
    <3>1. head' = head /\ halted' = halted /\ free_memory' = free_memory
      BY <2>4 DEF AllocFail
    <3>2. R
      BY <1>1, <2>4 DEF AllocFail, R
    <3>3. QED BY <1>6, <1>7, <3>1, <3>2
  <2>5. ASSUME NEW p \in Pages, FreePage(p) PROVE H /\ M /\ R
    <3>1. Continue
      BY <2>5 DEF FreePage
    <3>2. QED BY <1>5, <1>9, <2>5, <3>1
  <2>6. ASSUME NEW p \in Pages, LockPage(p) PROVE H /\ M /\ R
    <3>1. Continue /\ free_memory' = free_memory /\ LockAt(p)
      BY <2>6 DEF LockPage
    <3>2. QED BY <1>5, <1>7, <1>8, <3>1
  <2>7. ASSUME NEW n \in PoolSizes, AllocPool(n) PROVE H /\ M /\ R
    <3>1. head' = head /\ halted' = halted /\ free_memory' = free_memory
      BY <2>7 DEF AllocPool
    <3>2. n \in Nat
      BY SizesAssumption
    <3>3. R
      <4>1. CASE \E i \in DOMAIN sections : Fits(i, n)
        <5>1. PICK i \in DOMAIN sections :
                /\ pc' = "lock" /\ cursor' = sections[i].start /\ left' = n
                /\ detected' = detected
          BY <2>7, <4>1 DEF AllocPool
        <5>2. sections[i].start \in Nat
          BY IInvGood, EndProperties
        <5>3. QED BY <1>1, <3>2, <5>1, <5>2 DEF R
      <4>2. CASE ~ \E i \in DOMAIN sections : Fits(i, n)
        <5>1. pc' = "recombine" /\ cursor' = 1 /\ detected' = FALSE /\ left' = left
          BY <2>7, <4>2 DEF AllocPool
        <5>2. QED BY <1>1, <5>1 DEF R
      <4>3. QED BY <4>1, <4>2
    <3>4. QED BY <1>6, <1>7, <3>1, <3>3
  <2>8. CASE PoolLock
    <3>1. LockAt(cursor) /\ free_memory' = free_memory
      BY <2>8 DEF PoolLock
    <3>2. R
      <4>1. /\ cursor' = cursor + 1 /\ left' = left - 1 /\ detected' = detected
            /\ pc' = IF left = 1 THEN "idle" ELSE "lock"
        BY <2>8 DEF PoolLock
      <4>2. left > 0
        BY <2>8 DEF IInv, PoolAhead, PoolLock
      <4>3. QED BY <1>1, <4>1, <4>2 DEF R
    <3>3. QED BY <1>7, <1>8, <3>1, <3>2
  <2>9. CASE RecombineMerge
    <3>1. H
      BY <1>2, <2>9 DEF RecombineMerge
    <3>2. R /\ free_memory' = free_memory
      BY <1>1, <2>9 DEF RecombineMerge, R
    <3>3. QED BY <1>7, <3>1, <3>2
  <2>10. CASE RecombineSkip
    <3>1. R /\ free_memory' = free_memory /\ head' = head /\ halted' = halted
      BY <1>1, <2>10 DEF RecombineSkip, R
    <3>2. QED BY <1>6, <1>7, <3>1
  <2>11. CASE RecombinePassEnd
    <3>1. R /\ free_memory' = free_memory /\ head' = head /\ halted' = halted
      BY <1>1, <2>11 DEF RecombinePassEnd, R
    <3>2. QED BY <1>6, <1>7, <3>1
  <2>12. CASE PmmDump
    <3>1. R /\ head' = head /\ halted' = halted
      BY <1>1, <2>12 DEF PmmDump, R
    <3>2. M
      BY <2>12, FreePagesCount, WordType DEF PmmDump, M
    <3>3. QED BY <1>6, <3>1, <3>2
  <2>13. QED
    BY <1>10, <2>1, <2>2, <2>3, <2>4, <2>5, <2>6, <2>7, <2>8, <2>9, <2>10, <2>11, <2>12
    DEF Next, Step
<1>11. H /\ M /\ R
  <2>1. CASE Next
    BY <1>10, <2>1
  <2>2. CASE UNCHANGED vars
    <3>1. Continue /\ free_memory' = free_memory /\ head' = head /\ halted' = halted
      BY <2>2 DEF vars, Continue
    <3>2. QED BY <1>5, <1>6, <1>7, <3>1
  <2>3. QED BY <2>1, <2>2
<1>12. held' \subseteq Pages
  BY <1>1 DEF Effect, Keeps, Takes, Gives
<1>13. sections' \in Seq(Section) \ {<<>>}
  BY DEF Good, List
<1>14. QED BY <1>11, <1>12, <1>13 DEF TypeOK, H, M, R

\* Pages move between the kinds as clients take and give them back.
LEMMA EffectOnKinds ==
    ASSUME IInv, Effect, Good(sections')
    PROVE  /\ HeldIsUsed'
           /\ BadPages' = BadPages
           /\ [Map!Next]_(Map!vars)
<1>1. /\ FreePages' = KindPages(sections', FREE)
      /\ UsedPages' = KindPages(sections', USED)
      /\ BadPages' = KindPages(sections', BAD)
      /\ FreePages = KindPages(sections, FREE)
      /\ UsedPages = KindPages(sections, USED)
      /\ BadPages = KindPages(sections, BAD)
  BY DEF FreePages, UsedPages, BadPages, PagesOf
<1>2. held \subseteq UsedPages /\ sections \in List /\ Tiled(sections)
  BY IInvGood DEF IInv, HeldIsUsed
<1>3. CASE Keeps
  <2>1. held' = held /\ FreePages' = FreePages /\ UsedPages' = UsedPages
        /\ BadPages' = BadPages
    BY <1>1, <1>3, KindsAreKinds DEF Keeps, SamePages
  <2>2. QED BY <1>2, <2>1 DEF HeldIsUsed, Map!vars
<1>4. ASSUME NEW p \in Pages, Takes(p)
      PROVE  HeldIsUsed' /\ BadPages' = BadPages /\ [Map!Next]_(Map!vars)
  <2>1. /\ p \in FreePages /\ held' = held \cup {p}
        /\ FreePages' = FreePages \ {p} /\ UsedPages' = UsedPages \cup {p}
        /\ BadPages' = BadPages \ {p}
    BY <1>1, <1>4, KindsAreKinds DEF Takes, Moves
  <2>2. p \notin BadPages
    BY <1>1, <1>2, <2>1, OneKind, KindsAreKinds
  <2>3. Map!Take(p)
    BY <2>1 DEF Map!Take
  <2>4. QED BY <1>2, <2>1, <2>2, <2>3 DEF HeldIsUsed, Map!Next
<1>5. ASSUME NEW p \in Pages, Gives(p)
      PROVE  HeldIsUsed' /\ BadPages' = BadPages /\ [Map!Next]_(Map!vars)
  <2>1. p \in held /\ held' = held \ {p} /\ p \in UsedPages
    BY <1>2, <1>5 DEF Gives
  <2>2. p \notin BadPages
    BY <1>1, <1>2, <2>1, OneKind, KindsAreKinds
  <2>3. CASE SamePages(sections, sections')
    <3>1. FreePages' = FreePages /\ UsedPages' = UsedPages /\ BadPages' = BadPages
      BY <1>1, <2>3, KindsAreKinds DEF SamePages
    <3>2. Map!Give(p)
      BY <2>1, <3>1 DEF Map!Give
    <3>3. QED BY <1>2, <2>1, <3>1, <3>2 DEF HeldIsUsed, Map!Next
  <2>4. CASE Moves(sections, sections', p, FREE)
    <3>1. /\ FreePages' = FreePages \cup {p} /\ UsedPages' = UsedPages \ {p}
          /\ BadPages' = BadPages \ {p}
      BY <1>1, <2>4, KindsAreKinds DEF Moves
    <3>2. Map!Give(p)
      BY <2>1, <3>1 DEF Map!Give
    <3>3. QED BY <1>2, <2>1, <2>2, <3>1, <3>2 DEF HeldIsUsed, Map!Next
  <2>5. QED BY <1>5, <2>3, <2>4 DEF Gives
<1>6. QED BY <1>3, <1>4, <1>5 DEF Effect

\* The machine boots into the invariant.
LEMMA InitIInv ==
    ASSUME Init
    PROVE  IInv
<1>1. /\ sections \in Seq(Section) \ {<<>>}
      /\ Tiled(sections) /\ Shaped(sections) /\ Separated(sections)
  BY BootAssumption DEF Init
<1>2. free_memory \in 0 .. Word - 1
  <2>1. Cardinality(FreePages) + DataPages \in Int
    BY FreePagesCount, SizesAssumption
  <2>2. QED BY <2>1, WordType DEF Init
<1>3. TypeOK
  BY <1>1, <1>2, SlotsAssumption DEF Init, TypeOK
<1>4. QED
  BY <1>1, <1>3
  DEF Init, IInv, SectionsTile, FreeSeparated, HeldIsUsed, PoolAhead, RecombineCursor

\* Every step keeps the invariant.
LEMMA NextIInv ==
    ASSUME LockTargets \subseteq {FREE}, IInv, [Next]_vars
    PROVE  /\ IInv'
           /\ BadPages' = BadPages
           /\ [Map!Next]_(Map!vars)
<1>1. Good(sections') /\ Effect /\ PoolAhead' /\ RecombineCursor'
  BY StepEffect
<1>2. TypeOK'
  BY <1>1, TypeStep
<1>3. HeldIsUsed' /\ BadPages' = BadPages /\ [Map!Next]_(Map!vars)
  BY <1>1, EffectOnKinds
<1>4. SectionsTile' /\ FreeSeparated'
  BY <1>1 DEF Good, SectionsTile, FreeSeparated
<1>5. QED BY <1>1, <1>2, <1>3, <1>4 DEF IInv

----------------------------------------------------------------------------
(* The theorems hold when pmm_lock_page is called only for FREE pages, as  *)
(* its callers in the kernel do; of a USED page it would merge sections    *)
(* before it looks at the kind (pfa.c:163).                                *)

\* The invariant holds in every state of the manager.
THEOREM Invariance ==
    ASSUME LockTargets \subseteq {FREE}
    PROVE  Spec => []IInv
<1>1. Init => IInv
  BY InitIInv
<1>2. IInv /\ [Next]_vars => IInv'
  BY NextIInv
<1>3. QED BY <1>1, <1>2, PTL DEF Spec

\* The variables keep their types: no counter runs below zero, and no section
\* shrinks below no pages.
THEOREM TypeCorrect ==
    ASSUME LockTargets \subseteq {FREE}
    PROVE  Spec => []TypeOK
<1>1. IInv => TypeOK
  BY DEF IInv
<1>2. QED BY <1>1, Invariance, PTL

\* Every page is in exactly one section, whatever is allocated, freed, locked
\* and recombined.
THEOREM Tiling ==
    ASSUME LockTargets \subseteq {FREE}
    PROVE  Spec => []SectionsTile
<1>1. IInv => SectionsTile
  BY DEF IInv
<1>2. QED BY <1>1, Invariance, PTL

\* FREE sections never become neighbours.
THEOREM Separation ==
    ASSUME LockTargets \subseteq {FREE}
    PROVE  Spec => []FreeSeparated
<1>1. IInv => FreeSeparated
  BY DEF IInv
<1>2. QED BY <1>1, Invariance, PTL

\* A page a client holds is in a USED section until the client gives it back.
THEOREM Ownership ==
    ASSUME LockTargets \subseteq {FREE}
    PROVE  Spec => []HeldIsUsed
<1>1. IInv => HeldIsUsed
  BY DEF IInv
<1>2. QED BY <1>1, Invariance, PTL

\* pmm_alloc_pool finds the rest of its pool FREE at every iteration.
THEOREM PoolsComplete ==
    ASSUME LockTargets \subseteq {FREE}
    PROVE  Spec => []PoolAhead
<1>1. IInv => PoolAhead
  BY DEF IInv
<1>2. QED BY <1>1, Invariance, PTL

\* Pages of BAD sections are never handed out, merged away or freed.
THEOREM BadStaysBad ==
    ASSUME LockTargets \subseteq {FREE}
    PROVE  Spec => BadIsFixed
<1>1. IInv /\ [Next]_vars => [BadPages' = BadPages]_vars
  BY NextIInv
<1>2. QED BY <1>1, Invariance, PTL DEF Spec, BadIsFixed

\* The section list implements the map of free and held pages.
THEOREM Refinement ==
    ASSUME LockTargets \subseteq {FREE}
    PROVE  Spec => ImplementsPageMap
<1>1. Init => Map!Init
  BY DEF Init, Map!Init, FreePages, PagesOf, KindPages
<1>2. IInv /\ [Next]_vars => [Map!Next]_(Map!vars)
  BY NextIInv
<1>3. QED BY <1>1, <1>2, Invariance, PTL DEF Spec, ImplementsPageMap, Map!Spec

\* A page a client holds is not FREE, so nobody else is handed it.
COROLLARY NotHandedOutTwice ==
    ASSUME LockTargets \subseteq {FREE}
    PROVE  Spec => []Map!Exclusive
<1>1. IInv => Map!Exclusive
  <2> SUFFICES ASSUME IInv, NEW p \in FreePages, p \in held
               PROVE  FALSE
    BY DEF Map!Exclusive
  <2>1. p \in KindPages(sections, FREE) /\ p \in KindPages(sections, USED)
    BY DEF IInv, HeldIsUsed, FreePages, UsedPages, PagesOf
  <2>2. QED BY <2>1, IInvGood, OneKind, KindsAreKinds
<1>2. QED BY <1>1, Invariance, PTL

\* As far as a pass of pmm_recombine that merged nothing has come, neighbours
\* differ in kind.
PassSoFar ==
    pc = "recombine" /\ ~ detected =>
        \A k \in 1 .. Len(sections) - 1 :
            k < cursor => sections[k].free # sections[k + 1].free

\* pmm_recombine does not end before neighbours differ everywhere.
THEOREM RecombineEndsComplete ==
    ASSUME LockTargets \subseteq {FREE}
    PROVE  Spec => RecombineComplete
<1> DEFINE Differ == \A i \in 1 .. Len(sections) - 1 : sections[i].free # sections[i + 1].free
<1>1. Init => PassSoFar
  BY DEF Init, PassSoFar
<1>2. ASSUME IInv, PassSoFar, [Next]_vars
      PROVE  /\ PassSoFar'
             /\ [pc = "recombine" /\ pc' = "idle" => Differ]_vars
  <2>1. CASE RecombineMerge
    BY <2>1 DEF RecombineMerge, PassSoFar
  <2>2. CASE RecombineSkip
    <3>1. /\ pc = "recombine" /\ pc' = pc /\ sections' = sections /\ detected' = detected
          /\ cursor' = cursor + 1 /\ sections[cursor].free # sections[cursor + 1].free
      BY <2>2 DEF RecombineSkip
    <3>2. cursor \in Nat /\ Len(sections) \in Nat
      BY <1>2, IInvGood DEF IInv, TypeOK
    <3>3. ASSUME ~ detected, NEW k \in 1 .. Len(sections) - 1, k < cursor + 1
          PROVE  sections[k].free # sections[k + 1].free
      <4>1. CASE k = cursor
        BY <3>1, <4>1
      <4>2. CASE k < cursor
        BY <1>2, <3>1, <3>3, <4>2 DEF PassSoFar
      <4>3. QED BY <3>2, <3>3, <4>1, <4>2
    <3>4. QED BY <3>1, <3>3 DEF PassSoFar
  <2>3. CASE RecombinePassEnd
    <3>1. /\ pc = "recombine" /\ cursor >= Len(sections) /\ cursor' = 1
          /\ pc' = IF detected THEN "recombine" ELSE "idle"
          /\ sections' = sections
      BY <2>3 DEF RecombinePassEnd
    <3>2. cursor \in Nat /\ Len(sections) \in Nat
      BY <1>2, IInvGood DEF IInv, TypeOK
    <3>3. PassSoFar'
      BY <3>1, <3>2 DEF PassSoFar
    <3>4. ~ detected => Differ
      <4>1. \A k \in 1 .. Len(sections) - 1 : k < cursor
        BY <3>1, <3>2
      <4>2. QED BY <1>2, <3>1, <4>1 DEF PassSoFar
    <3>5. QED BY <3>1, <3>3, <3>4
  <2>4. CASE PmmDump \/ UNCHANGED vars
    BY <1>2, <2>4 DEF PmmDump, vars, PassSoFar
  <2>5. ASSUME NEW n \in PoolSizes, AllocPool(n)
        PROVE  PassSoFar' /\ pc = "idle"
    <3>1. pc = "idle" /\ (pc' = "lock" \/ cursor' = 1)
      BY <2>5 DEF AllocPool, Idle
    <3>2. QED BY <3>1 DEF PassSoFar
  <2>6. ASSUME pc' \in {"idle", "alloc", "lock"} PROVE PassSoFar'
    BY <2>6 DEF PassSoFar
  <2>7. ASSUME AllocPage \/ (\E p \in Pages : FreePage(p) \/ LockPage(p))
        PROVE  pc = "idle" /\ pc' \in {"idle", "alloc"}
    BY <2>7 DEF AllocPage, FreePage, LockPage, Continue, Idle
  <2>8. ASSUME AllocUnlinkEmpty \/ AllocTake \/ AllocFail \/ PoolLock
        PROVE  pc \in {"alloc", "lock"} /\ pc' \in {"idle", "alloc", "lock"}
    BY <2>8 DEF AllocUnlinkEmpty, AllocTake, AllocFail, PoolLock, Continue
  <2>9. QED
    BY <1>2, <2>1, <2>2, <2>3, <2>4, <2>5, <2>6, <2>7, <2>8
    DEF Next, Step, RecombineMerge, RecombineSkip, PmmDump
<1>3. QED BY <1>1, <1>2, Invariance, PTL DEF Spec, RecombineComplete
=============================================================================
