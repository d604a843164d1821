----------------------------- MODULE HeapProofs -----------------------------
(***************************************************************************)
(* That the segments of the kernel heap tile it, whatever is split, joined *)
(* or appended, that they are the blocks callers hold, that malloc expands *)
(* the heap at most twice, and that the heap implements Blocks; for any    *)
(* header, page and block sizes, and any sequence of calls.                *)
(***************************************************************************)
EXTENDS Heap, SequencesExt, SequenceTheorems, TLAPS

\* RemoveAt drops the element at i and moves the later ones down.
LEMMA RemoveAtProperties ==
    ASSUME NEW S, NEW s \in Seq(S), NEW i \in 1 .. Len(s)
    PROVE  /\ RemoveAt(s, i) \in Seq(S)
           /\ Len(RemoveAt(s, i)) = Len(s) - 1
           /\ \A k \in 1 .. Len(s) - 1 :
                RemoveAt(s, i)[k] = IF k < i THEN s[k] ELSE s[k + 1]
<1> DEFINE a == SubSeq(s, 1, i - 1)
           b == SubSeq(s, i + 1, Len(s))
<1>1. /\ a \in Seq(S) /\ Len(a) = i - 1
      /\ \A k \in 1 .. i - 1 : a[k] = s[k]
  BY SubSeqProperties
<1>2. /\ b \in Seq(S) /\ Len(b) = Len(s) - i
      /\ \A k \in 1 .. Len(s) - i : b[k] = s[k + i]
  BY SubSeqProperties
<1> HIDE DEF a, b
<1>3. /\ a \o b \in Seq(S)
      /\ Len(a \o b) = Len(a) + Len(b)
      /\ \A k \in 1 .. Len(a) + Len(b) :
            (a \o b)[k] = IF k <= Len(a) THEN a[k] ELSE b[k - Len(a)]
  BY <1>1, <1>2, ConcatProperties
<1>4. RemoveAt(s, i) = a \o b
  BY DEF RemoveAt, a, b
<1>5. Len(a \o b) = Len(s) - 1
  BY <1>1, <1>2, <1>3
<1>6. ASSUME NEW k \in 1 .. Len(s) - 1
      PROVE  (a \o b)[k] = IF k < i THEN s[k] ELSE s[k + 1]
  BY <1>1, <1>2, <1>3
<1> QED BY <1>3, <1>4, <1>5, <1>6

\* InsertAt puts e at i and moves the element there and the later ones up.
LEMMA InsertAtProperties ==
    ASSUME NEW S, NEW s \in Seq(S), NEW i \in 1 .. Len(s) + 1, NEW e \in S
    PROVE  /\ InsertAt(s, i, e) \in Seq(S)
           /\ Len(InsertAt(s, i, e)) = Len(s) + 1
           /\ \A k \in 1 .. Len(s) + 1 :
                InsertAt(s, i, e)[k] =
                    IF k < i THEN s[k] ELSE IF k = i THEN e ELSE s[k - 1]
<1> DEFINE a == SubSeq(s, 1, i - 1)
           b == SubSeq(s, i, Len(s))
           c == a \o <<e>>
<1>1. /\ a \in Seq(S) /\ Len(a) = i - 1
      /\ \A k \in 1 .. i - 1 : a[k] = s[k]
  BY SubSeqProperties
<1>2. /\ b \in Seq(S) /\ Len(b) = Len(s) - i + 1
      /\ \A k \in 1 .. Len(s) - i + 1 : b[k] = s[k + i - 1]
  BY SubSeqProperties
<1> HIDE DEF a, b
<1>3. /\ c \in Seq(S) /\ Len(c) = i
      /\ \A k \in 1 .. i : c[k] = IF k < i THEN s[k] ELSE e
  BY <1>1
<1> HIDE DEF c
<1>4. /\ c \o b \in Seq(S)
      /\ Len(c \o b) = Len(c) + Len(b)
      /\ \A k \in 1 .. Len(c) + Len(b) :
            (c \o b)[k] = IF k <= Len(c) THEN c[k] ELSE b[k - Len(c)]
  BY <1>2, <1>3, ConcatProperties
<1>5. InsertAt(s, i, e) = c \o b
  BY DEF InsertAt, a, b, c
<1>6. Len(c \o b) = Len(s) + 1
  BY <1>2, <1>3, <1>4
<1>7. ASSUME NEW k \in 1 .. Len(s) + 1
      PROVE  (c \o b)[k] = IF k < i THEN s[k] ELSE IF k = i THEN e ELSE s[k - 1]
  BY <1>2, <1>3, <1>4
<1> QED BY <1>4, <1>5, <1>6, <1>7

\* Where the heap ended at first: the segment that the clearing of the first pool
\* node cut off from its successors reaches up to here.
Floor == InitPages * PageUnits

Stop(seg) == IF Lost(seg) THEN Floor ELSE SegEnd(seg)

\* A list of segments that tiles the heap up to e.  That the stops are in order is
\* stated of all pairs, so that no fact about the list needs induction on it.
Tiled(s, e) ==
    /\ s \in Seq(Segment) /\ Len(s) \in Nat \ {0}
    /\ \A k \in 1 .. Len(s) : Lost(s[k]) => ~ s[k].free /\ Block(s[k]) <= Floor
    /\ \A k \in 1 .. Len(s) - 1 : s[k + 1].at = Stop(s[k])
    /\ Stop(s[Len(s)]) = e
    /\ \A j, k \in 1 .. Len(s) : j < k => Stop(s[j]) <= s[k].at

\* Free segments are neighbours at most where J says.
JoinedBut(s, J) == \A k \in 1 .. Len(s) - 1 : s[k].free /\ s[k + 1].free => k \in J

\* The segments that are not free.
Used(s) == {s[k] : k \in {j \in 1 .. Len(s) : ~ s[j].free}}

\* A list, and last_header.
GoodHeap(h, e) ==
    /\ h = [segs |-> h.segs, last |-> h.last]
    /\ Tiled(h.segs, e)
    /\ h.last = h.segs[Len(h.segs)].at

----------------------------------------------------------------------------
(* Numbers and segments *)

\* heap_expand maps at least a page, and at least what was asked for.
LEMMA RoundUpProperties ==
    ASSUME NEW n \in Nat \ {0}
    PROVE  RoundUp(n) \in Nat /\ n <= RoundUp(n) /\ PageUnits <= RoundUp(n)
<1> DEFINE q == (n + PageUnits - 1) \div PageUnits
<1>1. PageUnits \in Nat \ {0}
  BY UnitsAssumption
<1>2. /\ q \in Int
      /\ q * PageUnits <= n + PageUnits - 1
      /\ n + PageUnits - 1 < (q + 1) * PageUnits
  BY <1>1, SMTT(30)
<1>3. q * PageUnits + PageUnits = (q + 1) * PageUnits
  BY <1>1, <1>2
<1>4. q >= 1
  BY <1>1, <1>2, SMTT(30)
<1>5. q * PageUnits >= PageUnits
  BY <1>1, <1>2, <1>4, SMTT(30)
<1> QED
  BY <1>1, <1>2, <1>3, <1>5, SMTT(30) DEF RoundUp

\* A header takes room.
LEMMA HeaderType == Header \in Nat /\ Header > 0
BY UnitsAssumption

\* The heap begins with at least a page.
LEMMA FloorProperties == Floor \in Nat /\ PageUnits <= Floor
<1>1. PageUnits \in Nat /\ InitPages \in Nat /\ InitPages >= 1
  BY UnitsAssumption
<1>2. InitPages * PageUnits \in Nat /\ InitPages * PageUnits >= PageUnits
  BY <1>1, SMTT(30)
<1> QED
  BY <1>2 DEF Floor

\* The types of a segment in a list.
LEMMA ElementType ==
    ASSUME NEW s \in Seq(Segment), NEW k \in 1 .. Len(s)
    PROVE  /\ s[k] \in Segment
           /\ s[k].at \in Nat /\ s[k].length \in Nat /\ s[k].free \in BOOLEAN
<1>1. s[k] \in Segment
  BY ElementOfSeq
<1> QED
  BY <1>1 DEF Segment

\* The fields of a segment.
LEMMA SegType ==
    ASSUME NEW at \in Nat, NEW n \in Nat, NEW free \in BOOLEAN
    PROVE  /\ Seg(at, n, free) \in Segment
           /\ Seg(at, n, free).at = at
           /\ Seg(at, n, free).length = n
           /\ Seg(at, n, free).free = free
BY DEF Seg, Segment

\* A segment with one field changed.
LEMMA SegExcept ==
    ASSUME NEW seg \in Segment, NEW n, NEW free
    PROVE  /\ [seg EXCEPT !.length = n] = Seg(seg.at, n, seg.free)
           /\ [seg EXCEPT !.free = free] = Seg(seg.at, seg.length, free)
BY DEF Seg, Segment

\* A segment is as long as its header and its block, and a lost one at least as
\* long as its header.
LEMMA StopType ==
    ASSUME NEW seg \in Segment, Lost(seg) => Block(seg) <= Floor
    PROVE  /\ Stop(seg) \in Nat /\ Block(seg) \in Nat /\ Block(seg) <= Stop(seg)
           /\ Block(seg) = seg.at + Header
           /\ ~ Lost(seg) => Stop(seg) = seg.at + Header + seg.length
BY UnitsAssumption, FloorProperties DEF Segment, Stop, Lost, Block, SegEnd

\* The elements of a tiling, with what each needs of the rest.
LEMMA TiledElement ==
    ASSUME NEW s, NEW e, Tiled(s, e), NEW k \in 1 .. Len(s)
    PROVE  /\ s[k] \in Segment
           /\ s[k].at \in Nat /\ s[k].length \in Nat /\ s[k].free \in BOOLEAN
           /\ Stop(s[k]) \in Nat /\ Block(s[k]) = s[k].at + Header
           /\ s[k].at < Stop(s[k]) /\ Block(s[k]) <= Stop(s[k])
           /\ s[k].free => ~ Lost(s[k])
           /\ ~ Lost(s[k]) => Stop(s[k]) = s[k].at + Header + s[k].length
<1>1. s \in Seq(Segment) /\ (Lost(s[k]) => ~ s[k].free /\ Block(s[k]) <= Floor)
  BY DEF Tiled
<1>2. s[k] \in Segment /\ s[k].at \in Nat /\ s[k].length \in Nat /\ s[k].free \in BOOLEAN
  BY <1>1, ElementType
<1>3. /\ Stop(s[k]) \in Nat /\ Block(s[k]) = s[k].at + Header
      /\ Block(s[k]) <= Stop(s[k])
      /\ ~ Lost(s[k]) => Stop(s[k]) = s[k].at + Header + s[k].length
  BY <1>1, <1>2, StopType
<1>4. s[k].at < Stop(s[k])
  BY <1>2, <1>3, UnitsAssumption, SMTT(30)
<1> QED
  BY <1>1, <1>2, <1>3, <1>4

\* Two segments of a tiling have different blocks.
LEMMA BlocksDiffer ==
    ASSUME NEW s, NEW e, Tiled(s, e), NEW j \in 1 .. Len(s), NEW k \in 1 .. Len(s),
           s[j].at = s[k].at \/ Block(s[j]) = Block(s[k])
    PROVE  j = k
<1>1. /\ s[j].at \in Nat /\ s[k].at \in Nat /\ Stop(s[j]) \in Nat /\ Stop(s[k]) \in Nat
      /\ s[j].at < Stop(s[j]) /\ s[k].at < Stop(s[k])
      /\ Block(s[j]) = s[j].at + Header /\ Block(s[k]) = s[k].at + Header
  BY TiledElement
<1>2. s[j].at = s[k].at
  BY <1>1, HeaderType
<1>3. /\ j < k => Stop(s[j]) <= s[k].at
      /\ k < j => Stop(s[k]) <= s[j].at
  BY DEF Tiled
<1>4. Len(s) \in Nat
  BY DEF Tiled
<1> QED
  BY <1>1, <1>2, <1>3, <1>4

----------------------------------------------------------------------------
(* A segment changes between free and used *)

Retype(s, i, free) == [s EXCEPT ![i] = Seg(s[i].at, s[i].length, free)]

\* The list with segment i used or free: the other segments stay.
LEMMA RetypeElements ==
    ASSUME NEW s \in Seq(Segment), NEW i \in 1 .. Len(s), NEW free \in BOOLEAN
    PROVE  /\ Retype(s, i, free) \in Seq(Segment)
           /\ Len(Retype(s, i, free)) = Len(s)
           /\ \A k \in 1 .. Len(s) :
                Retype(s, i, free)[k] =
                    IF k = i THEN Seg(s[i].at, s[i].length, free) ELSE s[k]
<1>1. Seg(s[i].at, s[i].length, free) \in Segment
  BY ElementType, SegType
<1> QED
  BY <1>1, ExceptSeq DEF Retype

\* It still tiles the heap: no segment moves.
LEMMA RetypeTiled ==
    ASSUME NEW s, NEW e, Tiled(s, e), NEW i \in 1 .. Len(s), NEW free \in BOOLEAN,
           ~ Lost(s[i])
    PROVE  /\ Tiled(Retype(s, i, free), e)
           /\ Retype(s, i, free)[Len(s)].at = s[Len(s)].at
<1> DEFINE t == Retype(s, i, free)
<1>1. s \in Seq(Segment) /\ Len(s) \in Nat \ {0}
  BY DEF Tiled
<1>2. /\ t \in Seq(Segment) /\ Len(t) = Len(s)
      /\ \A k \in 1 .. Len(s) :
            t[k] = IF k = i THEN Seg(s[i].at, s[i].length, free) ELSE s[k]
  BY <1>1, RetypeElements
<1> HIDE DEF t
<1>3. ASSUME NEW k \in 1 .. Len(s)
      PROVE  /\ t[k].at = s[k].at /\ Stop(t[k]) = Stop(s[k])
             /\ Lost(t[k]) => ~ t[k].free /\ Block(t[k]) <= Floor
  <2>1. CASE k # i
    BY <1>2, <2>1 DEF Tiled
  <2>2. CASE k = i
    <3>1. t[k].at = s[k].at /\ t[k].length = s[k].length
      BY <1>1, <1>2, <2>2, ElementType, SegType, SMTT(30)
    <3> QED
      BY <3>1, <2>2 DEF Stop, Lost, SegEnd, Block
  <2> QED
    BY <2>1, <2>2
<1>4. \A k \in 1 .. Len(s) - 1 : k \in 1 .. Len(s) /\ k + 1 \in 1 .. Len(s)
  BY <1>1
<1>5. \A k \in 1 .. Len(s) - 1 : t[k + 1].at = Stop(t[k])
  BY <1>3, <1>4 DEF Tiled
<1>6. \A j, k \in 1 .. Len(s) : j < k => Stop(t[j]) <= t[k].at
  BY <1>3 DEF Tiled
<1>7. Len(s) \in 1 .. Len(s)
  BY <1>1
<1>8. Stop(t[Len(t)]) = e
  BY <1>2, <1>3, <1>7 DEF Tiled
<1> QED
  BY <1>1, <1>2, <1>3, <1>5, <1>6, <1>7, <1>8 DEF Tiled, t

\* A segment that becomes used is one more, one that becomes free one less.
LEMMA RetypeUsed ==
    ASSUME NEW s, NEW e, Tiled(s, e), NEW i \in 1 .. Len(s)
    PROVE  /\ s[i].free => Used(Retype(s, i, FALSE)) =
                             Used(s) \cup {Seg(s[i].at, s[i].length, FALSE)}
           /\ ~ s[i].free => Used(Retype(s, i, TRUE)) = Used(s) \ {s[i]}
<1>1. s \in Seq(Segment)
  BY DEF Tiled
<1>2. ASSUME s[i].free
      PROVE  Used(Retype(s, i, FALSE)) = Used(s) \cup {Seg(s[i].at, s[i].length, FALSE)}
  <2> DEFINE t == Retype(s, i, FALSE)
  <2>1. /\ Len(t) = Len(s)
        /\ \A k \in 1 .. Len(s) :
              t[k] = IF k = i THEN Seg(s[i].at, s[i].length, FALSE) ELSE s[k]
    BY <1>1, RetypeElements
  <2>2. Seg(s[i].at, s[i].length, FALSE).free = FALSE
    BY DEF Seg
  <2> HIDE DEF t
  <2>3. Used(t) = Used(s) \cup {Seg(s[i].at, s[i].length, FALSE)}
    BY <1>2, <2>1, <2>2 DEF Used
  <2> QED
    BY <2>3 DEF t
<1>3. ASSUME ~ s[i].free
      PROVE  Used(Retype(s, i, TRUE)) = Used(s) \ {s[i]}
  <2> DEFINE t == Retype(s, i, TRUE)
  <2>1. /\ Len(t) = Len(s)
        /\ \A k \in 1 .. Len(s) :
              t[k] = IF k = i THEN Seg(s[i].at, s[i].length, TRUE) ELSE s[k]
    BY <1>1, RetypeElements
  <2>2. Seg(s[i].at, s[i].length, TRUE).free = TRUE
    BY DEF Seg
  <2>3. \A k \in 1 .. Len(s) : s[k] = s[i] => k = i
    BY BlocksDiffer
  <2> HIDE DEF t
  <2>4. Used(t) = Used(s) \ {s[i]}
    BY <1>3, <2>1, <2>2, <2>3 DEF Used
  <2> QED
    BY <2>4 DEF t
<1> QED
  BY <1>2, <1>3

----------------------------------------------------------------------------
(* Two free neighbours are joined *)

Merge(s, i) == RemoveAt([s EXCEPT ![i].length = @ + s[i + 1].length + Header], i + 1)

Joint(s, i) == Seg(s[i].at, s[i].length + s[i + 1].length + Header, s[i].free)

\* The list with segments i and i + 1 joined: the later ones move down.
LEMMA MergeElements ==
    ASSUME NEW s \in Seq(Segment), NEW i \in 1 .. Len(s) - 1
    PROVE  /\ Merge(s, i) \in Seq(Segment) /\ Len(Merge(s, i)) = Len(s) - 1
           /\ \A k \in 1 .. Len(s) - 1 :
                Merge(s, i)[k] = IF k < i THEN s[k]
                                 ELSE IF k = i THEN Joint(s, i) ELSE s[k + 1]
           /\ Joint(s, i) \in Segment
<1> DEFINE t == [s EXCEPT ![i] = Joint(s, i)]
<1>1. i \in 1 .. Len(s) /\ i + 1 \in 1 .. Len(s)
  OBVIOUS
<1>2. /\ s[i] \in Segment /\ s[i].at \in Nat /\ s[i].free \in BOOLEAN
      /\ s[i].length \in Nat /\ s[i + 1].length \in Nat
  BY <1>1, ElementType
<1>3. Joint(s, i) \in Segment
  <2>1. s[i].length + s[i + 1].length + Header \in Nat
    BY <1>2, UnitsAssumption, SMTT(30)
  <2> QED
    BY <1>2, <2>1, SegType DEF Joint
<1>4. [s EXCEPT ![i].length = @ + s[i + 1].length + Header] = t
  <2>1. [s[i] EXCEPT !.length = @ + s[i + 1].length + Header] = Joint(s, i)
    BY <1>2, SegExcept DEF Joint
  <2> QED
    BY <2>1
<1>5. /\ t \in Seq(Segment) /\ Len(t) = Len(s)
      /\ \A k \in 1 .. Len(s) : t[k] = IF k = i THEN Joint(s, i) ELSE s[k]
  BY <1>1, <1>3, ExceptSeq
<1>6. Merge(s, i) = RemoveAt(t, i + 1)
  BY <1>4 DEF Merge
<1> HIDE DEF t
<1>7. /\ RemoveAt(t, i + 1) \in Seq(Segment) /\ Len(RemoveAt(t, i + 1)) = Len(s) - 1
      /\ \A k \in 1 .. Len(s) - 1 :
            RemoveAt(t, i + 1)[k] = IF k < i + 1 THEN t[k] ELSE t[k + 1]
  BY <1>1, <1>5, RemoveAtProperties
<1>8. ASSUME NEW k \in 1 .. Len(s) - 1
      PROVE  Merge(s, i)[k] = IF k < i THEN s[k]
                              ELSE IF k = i THEN Joint(s, i) ELSE s[k + 1]
  <2>1. Len(s) \in Nat /\ k \in 1 .. Len(s) /\ k + 1 \in 1 .. Len(s)
    OBVIOUS
  <2>2. k < i + 1 <=> k < i \/ k = i
    BY <2>1
  <2>3. k + 1 = i => k < i
    BY <2>1
  <2> QED
    BY <1>5, <1>6, <1>7, <2>1, <2>2, <2>3
<1> QED
  BY <1>3, <1>6, <1>7, <1>8

\* The joined segment takes exactly the room of the two.
LEMMA JointExtent ==
    ASSUME NEW s, NEW e, Tiled(s, e), NEW i \in 1 .. Len(s) - 1,
           s[i].free, s[i + 1].free
    PROVE  /\ Joint(s, i).at = s[i].at /\ Joint(s, i).free
           /\ Joint(s, i).length = s[i].length + s[i + 1].length + Header
           /\ Stop(Joint(s, i)) = Stop(s[i + 1])
           /\ ~ Lost(Joint(s, i))
<1>1. Len(s) \in Nat /\ i \in 1 .. Len(s) /\ i + 1 \in 1 .. Len(s)
  BY DEF Tiled
<1>2. /\ s[i].at \in Nat /\ s[i].length \in Nat /\ s[i].free \in BOOLEAN
      /\ s[i + 1].at \in Nat /\ s[i + 1].length \in Nat
      /\ Stop(s[i]) = s[i].at + Header + s[i].length
      /\ Stop(s[i + 1]) = s[i + 1].at + Header + s[i + 1].length
  BY <1>1, TiledElement
<1>3. s[i + 1].at = Stop(s[i])
  BY DEF Tiled
<1>4. /\ s[i].length + s[i + 1].length + Header \in Nat
      /\ s[i].length + s[i + 1].length + Header # 0
  <2>1. s[i].length \in Nat /\ s[i + 1].length \in Nat
    BY <1>2
  <2> QED
    BY <2>1, HeaderType
<1>5. /\ Joint(s, i).at = s[i].at /\ Joint(s, i).free = s[i].free
      /\ Joint(s, i).length = s[i].length + s[i + 1].length + Header
  BY DEF Joint, Seg
<1>6. ~ Lost(Joint(s, i))
  BY <1>4, <1>5 DEF Lost
<1>7. Stop(Joint(s, i)) = s[i].at + Header + (s[i].length + s[i + 1].length + Header)
  BY <1>5, <1>6 DEF Stop, SegEnd, Block
<1> QED
  BY <1>2, <1>3, <1>5, <1>6, <1>7, HeaderType, SMTT(30)

\* It still tiles the heap: the joint fills what both filled.
LEMMA MergeTiled ==
    ASSUME NEW s, NEW e, Tiled(s, e), NEW i \in 1 .. Len(s) - 1,
           s[i].free, s[i + 1].free
    PROVE  Tiled(Merge(s, i), e)
<1> DEFINE t == Merge(s, i)
           src(k) == IF k <= i THEN k ELSE k + 1
           end(k) == IF k < i THEN k ELSE k + 1
<1>1. s \in Seq(Segment) /\ Len(s) \in Nat \ {0} /\ Len(s) - 1 \in Nat \ {0}
  BY DEF Tiled
<1>2. /\ t \in Seq(Segment) /\ Len(t) = Len(s) - 1
      /\ \A k \in 1 .. Len(s) - 1 :
            t[k] = IF k < i THEN s[k] ELSE IF k = i THEN Joint(s, i) ELSE s[k + 1]
  BY <1>1, MergeElements
<1>3. /\ Joint(s, i).at = s[i].at /\ Stop(Joint(s, i)) = Stop(s[i + 1])
      /\ ~ Lost(Joint(s, i))
  BY JointExtent
<1> HIDE DEF t
<1>4. ASSUME NEW k \in 1 .. Len(t)
      PROVE  /\ src(k) \in 1 .. Len(s) /\ end(k) \in 1 .. Len(s)
             /\ t[k].at = s[src(k)].at /\ Stop(t[k]) = Stop(s[end(k)])
             /\ Lost(t[k]) => ~ t[k].free /\ Block(t[k]) <= Floor
  <2>1. CASE k < i
    BY <1>1, <1>2, <2>1 DEF Tiled
  <2>2. CASE k = i
    BY <1>1, <1>2, <1>3, <2>2
  <2>3. CASE k > i
    <3>1. t[k] = s[k + 1] /\ k + 1 \in 1 .. Len(s)
      BY <1>1, <1>2, <2>3
    <3> QED
      BY <1>1, <2>3, <3>1 DEF Tiled
  <2> QED
    BY <1>2, <2>1, <2>2, <2>3
<1>5. ASSUME NEW k \in 1 .. Len(t) - 1
      PROVE  t[k + 1].at = Stop(t[k])
  <2>1. k \in 1 .. Len(t) /\ k + 1 \in 1 .. Len(t)
    BY <1>1, <1>2
  <2>2. src(k + 1) = end(k) + 1 /\ end(k) \in 1 .. Len(s) - 1
    BY <1>1, <1>2
  <2>3. s[end(k) + 1].at = Stop(s[end(k)])
    BY <2>2 DEF Tiled
  <2> QED
    BY <1>4, <2>1, <2>2, <2>3
<1>6. ASSUME NEW j \in 1 .. Len(t), NEW k \in 1 .. Len(t), j < k
      PROVE  Stop(t[j]) <= t[k].at
  <2>1. end(j) < src(k)
    BY <1>1, <1>2, <1>6
  <2>2. Stop(s[end(j)]) <= s[src(k)].at
    BY <1>4, <2>1 DEF Tiled
  <2> QED
    BY <1>4, <2>2
<1>7. Stop(t[Len(t)]) = e
  <2>1. Len(t) \in 1 .. Len(t) /\ end(Len(t)) = Len(s)
    BY <1>1, <1>2
  <2> QED
    BY <1>4, <2>1 DEF Tiled
<1> QED
  BY <1>1, <1>2, <1>4, <1>5, <1>6, <1>7 DEF Tiled, t

\* Both were free, and so is the joint: the used segments stay.
LEMMA MergeUsed ==
    ASSUME NEW s, NEW e, Tiled(s, e), NEW i \in 1 .. Len(s) - 1,
           s[i].free, s[i + 1].free
    PROVE  Used(Merge(s, i)) = Used(s)
<1> DEFINE t == Merge(s, i)
<1>1. s \in Seq(Segment) /\ Len(s) \in Nat \ {0}
  BY DEF Tiled
<1>2. /\ Len(t) = Len(s) - 1
      /\ \A k \in 1 .. Len(s) - 1 :
            t[k] = IF k < i THEN s[k] ELSE IF k = i THEN Joint(s, i) ELSE s[k + 1]
  BY <1>1, MergeElements
<1>3. Joint(s, i).free
  BY JointExtent
<1> HIDE DEF t
<1>4. ASSUME NEW k \in 1 .. Len(t), ~ t[k].free
      PROVE  t[k] \in Used(s)
  <2>1. CASE k < i
    BY <1>1, <1>2, <1>4, <2>1 DEF Used
  <2>2. CASE k > i
    <3>1. t[k] = s[k + 1] /\ k + 1 \in 1 .. Len(s)
      BY <1>1, <1>2, <2>2
    <3> QED
      BY <1>4, <3>1 DEF Used
  <2> QED
    BY <1>2, <1>3, <1>4, <2>1, <2>2
<1>5. ASSUME NEW k \in 1 .. Len(s), ~ s[k].free
      PROVE  s[k] \in Used(t)
  <2>1. CASE k < i
    <3>1. t[k] = s[k] /\ k \in 1 .. Len(t)
      BY <1>1, <1>2, <2>1
    <3> QED
      BY <1>5, <3>1 DEF Used
  <2>2. CASE k > i + 1
    <3>1. k - 1 \in 1 .. Len(t) /\ (k - 1) + 1 = k /\ ~ k - 1 < i /\ k - 1 # i
      BY <1>1, <1>2, <2>2
    <3>2. t[k - 1] = s[k]
      BY <1>2, <3>1
    <3> QED
      BY <1>5, <3>1, <3>2 DEF Used
  <2> QED
    BY <1>1, <1>5, <2>1, <2>2
<1>6. Used(t) = Used(s)
  BY <1>4, <1>5 DEF Used
<1> QED
  BY <1>6 DEF t

\* One pair of free neighbours less.
LEMMA MergeJoined ==
    ASSUME NEW s, NEW e, Tiled(s, e), NEW i \in 1 .. Len(s) - 1,
           s[i].free, s[i + 1].free, NEW J, J \subseteq {i - 1, i}, JoinedBut(s, J)
    PROVE  JoinedBut(Merge(s, i), J \ {i})
<1> DEFINE t == Merge(s, i)
<1>1. s \in Seq(Segment) /\ Len(s) \in Nat \ {0}
  BY DEF Tiled
<1>2. /\ Len(t) = Len(s) - 1
      /\ \A k \in 1 .. Len(s) - 1 :
            t[k] = IF k < i THEN s[k] ELSE IF k = i THEN Joint(s, i) ELSE s[k + 1]
  BY <1>1, MergeElements
<1>3. Joint(s, i).free
  BY JointExtent
<1> HIDE DEF t
<1>4. ASSUME NEW k \in 1 .. Len(t) - 1, t[k].free, t[k + 1].free
      PROVE  k \in J \ {i}
  <2>1. CASE k + 1 < i
    <3>1. t[k] = s[k] /\ t[k + 1] = s[k + 1] /\ k \in 1 .. Len(s) - 1
      BY <1>1, <1>2, <2>1, SMTT(30)
    <3> QED
      BY <1>4, <2>1, <3>1 DEF JoinedBut
  <2>2. CASE k + 1 = i
    <3>1. t[k] = s[k] /\ s[k + 1] = s[i] /\ k \in 1 .. Len(s) - 1
      BY <1>1, <1>2, <2>2
    <3> QED
      BY <1>4, <2>2, <3>1 DEF JoinedBut
  <2>3. CASE k >= i
    <3>1. t[k + 1] = s[k + 2] /\ k + 1 \in 1 .. Len(s) - 1 /\ k + 1 + 1 = k + 2
      BY <1>1, <1>2, <2>3
    <3>2. s[k + 1].free
      <4>1. k > i => t[k] = s[k + 1]
        <5>1. k \in 1 .. Len(s) - 1 /\ (k > i => ~ k < i /\ k # i)
          BY <1>1, <1>2
        <5> QED
          BY <1>2, <5>1
      <4> QED
        BY <1>1, <1>2, <1>4, <2>3, <4>1
    <3>3. k + 1 \in J
      BY <1>4, <3>1, <3>2 DEF JoinedBut
    <3> QED
      BY <1>1, <1>2, <2>3, <3>3
  <2> QED
    BY <1>1, <1>2, <2>1, <2>2, <2>3
<1>5. JoinedBut(t, J \ {i})
  BY <1>4 DEF JoinedBut
<1> QED
  BY <1>5 DEF t

----------------------------------------------------------------------------
(* A free segment is cut in two, and the first part taken *)

Rest(s, i, n) == Seg(Block(s[i]) + n, s[i].length - n - Header, s[i].free)
Cut(s, i, n) ==
    [InsertAt([s EXCEPT ![i].length = n], i + 1, Rest(s, i, n)) EXCEPT ![i].free = FALSE]

\* The list with segment i split and taken: the later ones move up.
LEMMA CutElements ==
    ASSUME NEW s \in Seq(Segment), NEW i \in 1 .. Len(s), NEW n \in Nat,
           Rest(s, i, n) \in Segment
    PROVE  /\ Cut(s, i, n) \in Seq(Segment) /\ Len(Cut(s, i, n)) = Len(s) + 1
           /\ \A k \in 1 .. Len(s) + 1 :
                Cut(s, i, n)[k] = IF k < i THEN s[k]
                                  ELSE IF k = i THEN Seg(s[i].at, n, FALSE)
                                  ELSE IF k = i + 1 THEN Rest(s, i, n) ELSE s[k - 1]
<1> DEFINE t == [s EXCEPT ![i] = Seg(s[i].at, n, s[i].free)]
           u == InsertAt(t, i + 1, Rest(s, i, n))
<1>1. Len(s) \in Nat /\ s[i] \in Segment /\ s[i].at \in Nat /\ s[i].free \in BOOLEAN
  BY ElementType
<1>2. Seg(s[i].at, n, s[i].free) \in Segment /\ Seg(s[i].at, n, FALSE) \in Segment
  BY <1>1, SegType
<1>3. [s EXCEPT ![i].length = n] = t
  BY <1>1, SegExcept
<1>4. /\ t \in Seq(Segment) /\ Len(t) = Len(s)
      /\ \A k \in 1 .. Len(s) :
            t[k] = IF k = i THEN Seg(s[i].at, n, s[i].free) ELSE s[k]
  BY <1>2, ExceptSeq
<1>5. Cut(s, i, n) = [u EXCEPT ![i].free = FALSE]
  BY <1>3 DEF Cut
<1> HIDE DEF t
<1>6. /\ u \in Seq(Segment) /\ Len(u) = Len(s) + 1
      /\ \A k \in 1 .. Len(s) + 1 :
            u[k] = IF k < i + 1 THEN t[k] ELSE IF k = i + 1 THEN Rest(s, i, n) ELSE t[k - 1]
  <2> DEFINE j == i + 1
             b == Rest(s, i, n)
  <2>1. j \in 1 .. Len(t) + 1
    BY <1>1, <1>4
  <2>2. t \in Seq(Segment) /\ b \in Segment
    BY <1>4
  <2> HIDE DEF j, b, u
  <2>3. InsertAt(t, j, b) \in Seq(Segment) /\ Len(InsertAt(t, j, b)) = Len(t) + 1
    BY <2>1, <2>2, InsertAtProperties
  <2>4. ASSUME NEW k \in 1 .. Len(t) + 1
        PROVE  InsertAt(t, j, b)[k] =
                    IF k < j THEN t[k] ELSE IF k = j THEN b ELSE t[k - 1]
    BY <2>1, <2>2, InsertAtProperties
  <2> QED
    BY <1>4, <2>3, <2>4 DEF j, b, u
<1>7. i \in 1 .. Len(s) + 1 /\ i < i + 1 /\ ~ i < i
  BY <1>1
<1> HIDE DEF u
<1>8. u[i] = Seg(s[i].at, n, s[i].free)
  BY <1>4, <1>6, <1>7
<1>9. [u EXCEPT ![i].free = FALSE] = [u EXCEPT ![i] = Seg(s[i].at, n, FALSE)]
  <2>1. [u[i] EXCEPT !.free = FALSE] = Seg(u[i].at, u[i].length, FALSE)
    BY <1>2, <1>8, SegExcept
  <2>2. u[i].at = s[i].at /\ u[i].length = n
    BY <1>1, <1>8, SegType
  <2> QED
    BY <2>1, <2>2
<1>10. /\ [u EXCEPT ![i] = Seg(s[i].at, n, FALSE)] \in Seq(Segment)
       /\ Len([u EXCEPT ![i] = Seg(s[i].at, n, FALSE)]) = Len(s) + 1
       /\ \A k \in 1 .. Len(s) + 1 :
             [u EXCEPT ![i] = Seg(s[i].at, n, FALSE)][k] =
                IF k = i THEN Seg(s[i].at, n, FALSE) ELSE u[k]
  <2> DEFINE a == Seg(s[i].at, n, FALSE)
  <2>1. i \in 1 .. Len(u) /\ a \in Segment /\ u \in Seq(Segment)
    BY <1>2, <1>6, <1>7
  <2> HIDE DEF a
  <2>2. /\ [u EXCEPT ![i] = a] \in Seq(Segment) /\ Len([u EXCEPT ![i] = a]) = Len(u)
        /\ \A k \in 1 .. Len(u) : [u EXCEPT ![i] = a][k] = IF k = i THEN a ELSE u[k]
    BY <2>1, ExceptSeq
  <2> QED
    BY <1>6, <2>2 DEF a
<1>11. ASSUME NEW k \in 1 .. Len(s) + 1
       PROVE  Cut(s, i, n)[k] = IF k < i THEN s[k]
                                ELSE IF k = i THEN Seg(s[i].at, n, FALSE)
                                ELSE IF k = i + 1 THEN Rest(s, i, n) ELSE s[k - 1]
  <2>1. CASE k < i
    <3>1. k \in 1 .. Len(s) /\ k # i /\ k < i + 1
      BY <1>1, <2>1
    <3> QED
      BY <1>4, <1>5, <1>6, <1>9, <1>10, <2>1, <3>1
  <2>2. CASE k = i
    <3>1. Cut(s, i, n)[i] = Seg(s[i].at, n, FALSE)
      BY <1>5, <1>7, <1>9, <1>10
    <3> QED
      BY <1>7, <2>2, <3>1
  <2>3. CASE k = i + 1
    <3>1. ~ k < i /\ k # i /\ ~ k < i + 1
      BY <1>1, <2>3
    <3> QED
      BY <1>5, <1>6, <1>9, <1>10, <2>3, <3>1
  <2>4. CASE k > i + 1
    <3>1. /\ ~ k < i /\ k # i /\ ~ k < i + 1 /\ k # i + 1
          /\ k - 1 \in 1 .. Len(s) /\ k - 1 # i
      BY <1>1, <2>4
    <3> QED
      BY <1>4, <1>5, <1>6, <1>9, <1>10, <3>1
  <2>5. k < i \/ k = i \/ k = i + 1 \/ k > i + 1
    BY <1>1
  <2> QED
    BY <2>1, <2>2, <2>3, <2>4, <2>5
<1> QED
  BY <1>5, <1>9, <1>10, <1>11

\* The two parts take exactly the room of the one.
LEMMA CutExtent ==
    ASSUME NEW s, NEW e, Tiled(s, e), NEW i \in 1 .. Len(s), s[i].free,
           NEW n \in Nat \ {0}, Splits(s, i, n)
    PROVE  LET a == Seg(s[i].at, n, FALSE)
               b == Rest(s, i, n)
           IN  /\ a \in Segment /\ a.at = s[i].at /\ ~ a.free /\ ~ Lost(a)
               /\ b \in Segment /\ b.free /\ ~ Lost(b)
               /\ b.at = Stop(a) /\ Stop(b) = Stop(s[i])
               /\ Stop(a) \in Nat /\ s[i].at < Stop(a) /\ Stop(a) < Stop(s[i])
<1> DEFINE a == Seg(s[i].at, n, FALSE)
           b == Rest(s, i, n)
<1>1. /\ s[i].at \in Nat /\ s[i].length \in Nat /\ Block(s[i]) = s[i].at + Header
      /\ Stop(s[i]) = s[i].at + Header + s[i].length
  BY TiledElement
<1>2. Block(s[i]) + n \in Nat /\ s[i].length - n - Header \in Nat \ {0}
  BY <1>1, HeaderType DEF Splits
<1>3. a \in Segment /\ a.at = s[i].at /\ a.length = n /\ ~ a.free
  BY <1>1, SegType
<1>4. /\ b \in Segment /\ b.free
      /\ b.at = Block(s[i]) + n /\ b.length = s[i].length - n - Header
  BY <1>2, SegType DEF Rest
<1> HIDE DEF a, b
<1>5. ~ Lost(a) /\ ~ Lost(b)
  BY <1>2, <1>3, <1>4 DEF Lost
<1>6. Stop(a) = s[i].at + Header + n
  BY <1>3, <1>5 DEF Stop, SegEnd, Block
<1>7. Stop(b) = Block(s[i]) + n + Header + (s[i].length - n - Header)
  BY <1>4, <1>5 DEF Stop, SegEnd, Block
<1>8. b.at = Stop(a) /\ Stop(b) = Stop(s[i])
  BY <1>1, <1>4, <1>6, <1>7, HeaderType
<1>9. Stop(a) \in Nat /\ s[i].at < Stop(a) /\ Stop(a) < Stop(s[i])
  BY <1>1, <1>2, <1>6, HeaderType, SMTT(30)
<1> QED
  BY <1>3, <1>4, <1>5, <1>8, <1>9 DEF a, b

\* It still tiles the heap: the two fill what the one filled.
LEMMA CutTiled ==
    ASSUME NEW s, NEW e, Tiled(s, e), NEW i \in 1 .. Len(s), s[i].free,
           NEW n \in Nat \ {0}, Splits(s, i, n)
    PROVE  Tiled(Cut(s, i, n), e)
<1> DEFINE t == Cut(s, i, n)
           a == Seg(s[i].at, n, FALSE)
           b == Rest(s, i, n)
<1>1. s \in Seq(Segment) /\ Len(s) \in Nat \ {0}
  BY DEF Tiled
<1>2. /\ a \in Segment /\ a.at = s[i].at /\ ~ a.free /\ ~ Lost(a)
      /\ b \in Segment /\ b.free /\ ~ Lost(b)
      /\ b.at = Stop(a) /\ Stop(b) = Stop(s[i])
      /\ Stop(a) \in Nat /\ s[i].at < Stop(a) /\ Stop(a) < Stop(s[i])
  BY CutExtent
<1>3. /\ t \in Seq(Segment) /\ Len(t) = Len(s) + 1
      /\ \A k \in 1 .. Len(s) + 1 :
            t[k] = IF k < i THEN s[k] ELSE IF k = i THEN a
                   ELSE IF k = i + 1 THEN b ELSE s[k - 1]
  <2>1. n \in Nat /\ Rest(s, i, n) \in Segment
    BY <1>2
  <2> QED
    BY <1>1, <2>1, CutElements
<1> HIDE DEF t, a, b
<1>4. i \in 1 .. Len(t) /\ i + 1 \in 1 .. Len(t) /\ t[i] = a /\ t[i + 1] = b
  BY <1>1, <1>3
\* The segment of s that position k of t lies in.
<1> DEFINE src(k) == IF k <= i THEN k ELSE k - 1
<1>5. ASSUME NEW k \in 1 .. Len(t)
      PROVE  /\ src(k) \in 1 .. Len(s)
             /\ k # i + 1 => t[k].at = s[src(k)].at
             /\ k # i => Stop(t[k]) = Stop(s[src(k)])
             /\ k # i /\ k # i + 1 => t[k] = s[src(k)]
             /\ Lost(t[k]) => ~ t[k].free /\ Block(t[k]) <= Floor
  <2>1. src(k) \in 1 .. Len(s)
    BY <1>1, <1>3
  <2>2. k # i /\ k # i + 1 => t[k] = s[src(k)]
    BY <1>1, <1>3
  <2>3. k = i + 1 => src(k) = i
    BY <1>1
  <2>4. k = i => src(k) = i
    OBVIOUS
  <2>5. \/ k # i /\ k # i + 1
        \/ k = i
        \/ k = i + 1
    OBVIOUS
  <2>6. k = i \/ k = i + 1 => ~ Lost(t[k])
    BY <1>2, <1>4
  <2> QED
    BY <1>2, <1>4, <2>1, <2>2, <2>3, <2>4, <2>5, <2>6 DEF Tiled
<1>6. ASSUME NEW k \in 1 .. Len(t) - 1
      PROVE  t[k + 1].at = Stop(t[k])
  <2>1. k \in 1 .. Len(t) /\ k + 1 \in 1 .. Len(t) /\ (k = i <=> k + 1 = i + 1)
    BY <1>1, <1>3
  <2>2. CASE k = i
    BY <1>2, <1>4, <2>2
  <2>3. CASE k # i
    <3>1. src(k + 1) = src(k) + 1 /\ src(k) \in 1 .. Len(s) - 1
      BY <1>1, <1>3, <2>3
    <3>2. s[src(k) + 1].at = Stop(s[src(k)])
      BY <3>1 DEF Tiled
    <3> QED
      BY <1>5, <2>1, <2>3, <3>1, <3>2
  <2> QED
    BY <2>2, <2>3
<1>7. ASSUME NEW j \in 1 .. Len(t), NEW k \in 1 .. Len(t), j < k
      PROVE  Stop(t[j]) <= t[k].at
  <2>1. src(j) \in 1 .. Len(s) /\ src(k) \in 1 .. Len(s)
    BY <1>5
  <2>2. CASE j = i /\ k = i + 1
    BY <1>2, <1>4, <2>2
  <2>3. CASE ~ (j = i /\ k = i + 1)
    <3>1. src(j) < src(k)
      BY <1>1, <1>3, <1>7, <2>3
    <3>2. Stop(s[src(j)]) <= s[src(k)].at
      BY <2>1, <3>1 DEF Tiled
    <3>3. Stop(s[src(j)]) \in Nat /\ s[src(k)].at \in Nat /\ Stop(s[i]) \in Nat
      BY <2>1, TiledElement
    <3>4. Stop(t[j]) \in Nat /\ Stop(t[j]) <= Stop(s[src(j)])
      <4>1. CASE j = i
        BY <1>2, <1>4, <3>3, <4>1
      <4>2. CASE j # i
        BY <1>5, <3>3, <4>2
      <4> QED
        BY <4>1, <4>2
    <3>5. t[k].at \in Nat /\ s[src(k)].at <= t[k].at
      <4>1. CASE k = i + 1
        <5>1. src(k) = i
          BY <1>1, <4>1
        <5> QED
          BY <1>2, <1>4, <3>3, <4>1, <5>1
      <4>2. CASE k # i + 1
        BY <1>5, <3>3, <4>2
      <4> QED
        BY <4>1, <4>2
    <3> QED
      BY <3>2, <3>3, <3>4, <3>5, SMTT(30)
  <2> QED
    BY <2>2, <2>3
<1>8. Stop(t[Len(t)]) = e
  <2>1. Len(t) \in 1 .. Len(t) /\ Len(t) # i /\ src(Len(t)) = Len(s)
    BY <1>1, <1>3
  <2> QED
    BY <1>5, <2>1 DEF Tiled
<1> QED
  BY <1>1, <1>3, <1>5, <1>6, <1>7, <1>8 DEF Tiled, t

\* The taken part is one used segment more.
LEMMA CutUsed ==
    ASSUME NEW s, NEW e, Tiled(s, e), NEW i \in 1 .. Len(s), s[i].free,
           NEW n \in Nat \ {0}, Splits(s, i, n)
    PROVE  Used(Cut(s, i, n)) = Used(s) \cup {Seg(s[i].at, n, FALSE)}
<1> DEFINE t == Cut(s, i, n)
           a == Seg(s[i].at, n, FALSE)
           b == Rest(s, i, n)
<1>1. s \in Seq(Segment) /\ Len(s) \in Nat \ {0} /\ n \in Nat
  BY DEF Tiled
<1>2. ~ a.free /\ b \in Segment /\ b.free
  BY CutExtent
<1>3. /\ Len(t) = Len(s) + 1
      /\ \A k \in 1 .. Len(s) + 1 :
            t[k] = IF k < i THEN s[k] ELSE IF k = i THEN a
                   ELSE IF k = i + 1 THEN b ELSE s[k - 1]
  BY <1>1, <1>2, CutElements
<1> HIDE DEF t, a, b
<1>4. a \in Used(t)
  <2>1. i \in 1 .. Len(t) /\ t[i] = a
    BY <1>1, <1>3
  <2> QED
    BY <1>2, <2>1 DEF Used
<1>5. ASSUME NEW k \in 1 .. Len(s), ~ s[k].free
      PROVE  s[k] \in Used(t)
  <2>1. CASE k < i
    <3>1. k \in 1 .. Len(t) /\ t[k] = s[k]
      BY <1>1, <1>3, <2>1
    <3> QED
      BY <1>5, <3>1 DEF Used
  <2>2. CASE k > i
    <3>1. k + 1 \in 1 .. Len(t) /\ t[k + 1] = s[k]
      BY <1>1, <1>3, <2>2
    <3> QED
      BY <1>5, <3>1 DEF Used
  <2> QED
    BY <1>1, <1>5, <2>1, <2>2
<1>6. ASSUME NEW k \in 1 .. Len(t), ~ t[k].free
      PROVE  t[k] = a \/ t[k] \in Used(s)
  <2>1. CASE k < i
    <3>1. k \in 1 .. Len(s) /\ t[k] = s[k]
      BY <1>1, <1>3, <2>1
    <3> QED
      BY <1>6, <3>1 DEF Used
  <2>2. CASE k > i + 1
    <3>1. k - 1 \in 1 .. Len(s) /\ t[k] = s[k - 1]
      BY <1>1, <1>3, <2>2
    <3> QED
      BY <1>6, <3>1 DEF Used
  <2> QED
    BY <1>1, <1>2, <1>3, <1>6, <2>1, <2>2
<1>7. Used(t) = Used(s) \cup {a}
  BY <1>4, <1>5, <1>6 DEF Used
<1> QED
  BY <1>7 DEF t, a

\* The free rest has no free neighbour, because the split segment had none.
LEMMA CutJoined ==
    ASSUME NEW s, NEW e, Tiled(s, e), NEW i \in 1 .. Len(s), s[i].free,
           NEW n \in Nat \ {0}, Splits(s, i, n), JoinedBut(s, {})
    PROVE  JoinedBut(Cut(s, i, n), {})
<1> DEFINE t == Cut(s, i, n)
           a == Seg(s[i].at, n, FALSE)
           b == Rest(s, i, n)
<1>1. s \in Seq(Segment) /\ Len(s) \in Nat \ {0} /\ n \in Nat
  BY DEF Tiled
<1>2. ~ a.free /\ b \in Segment
  BY CutExtent
<1>3. /\ Len(t) = Len(s) + 1
      /\ \A k \in 1 .. Len(s) + 1 :
            t[k] = IF k < i THEN s[k] ELSE IF k = i THEN a
                   ELSE IF k = i + 1 THEN b ELSE s[k - 1]
  BY <1>1, <1>2, CutElements
<1> HIDE DEF t, a, b
<1>4. ASSUME NEW k \in 1 .. Len(t) - 1
      PROVE  ~ (t[k].free /\ t[k + 1].free)
  <2>1. CASE k + 1 < i
    <3>1. t[k] = s[k] /\ t[k + 1] = s[k + 1] /\ k \in 1 .. Len(s) - 1
      BY <1>1, <1>3, <2>1
    <3> QED
      BY <3>1 DEF JoinedBut
  <2>2. CASE k = i \/ k + 1 = i
    <3>1. t[i] = a
      BY <1>1, <1>3
    <3> QED
      BY <1>2, <2>2, <3>1
  <2>3. CASE k = i + 1
    <3>1. t[k + 1] = s[i + 1] /\ i \in 1 .. Len(s) - 1
      BY <1>1, <1>3, <2>3
    <3> QED
      BY <3>1 DEF JoinedBut
  <2>4. CASE k > i + 1
    <3>1. t[k] = s[k - 1] /\ t[k + 1] = s[(k - 1) + 1] /\ k - 1 \in 1 .. Len(s) - 1
      BY <1>1, <1>3, <2>4
    <3> QED
      BY <3>1 DEF JoinedBut
  <2> QED
    BY <1>1, <1>3, <2>1, <2>2, <2>3, <2>4
<1>5. JoinedBut(t, {})
  BY <1>4 DEF JoinedBut
<1> QED
  BY <1>5 DEF t

\* A segment that becomes free may have a free neighbour on either side.
LEMMA RetypeJoined ==
    ASSUME NEW s, NEW e, Tiled(s, e), NEW i \in 1 .. Len(s), JoinedBut(s, {})
    PROVE  /\ JoinedBut(Retype(s, i, FALSE), {})
           /\ JoinedBut(Retype(s, i, TRUE), {i - 1, i})
<1>1. s \in Seq(Segment) /\ Len(s) \in Nat
  BY DEF Tiled
<1>2. ASSUME NEW free \in BOOLEAN
      PROVE  /\ Len(Retype(s, i, free)) = Len(s)
             /\ \A k \in 1 .. Len(s) :
                  Retype(s, i, free)[k].free = IF k = i THEN free ELSE s[k].free
  <2>1. Seg(s[i].at, s[i].length, free).free = free
    BY DEF Seg
  <2> QED
    BY <1>1, <2>1, RetypeElements
<1>3. ASSUME NEW free \in BOOLEAN, NEW k \in 1 .. Len(s) - 1,
             Retype(s, i, free)[k].free, Retype(s, i, free)[k + 1].free
      PROVE  (k = i \/ k = i - 1) /\ free
  <2>1. k \in 1 .. Len(s) /\ k + 1 \in 1 .. Len(s)
    BY <1>1
  <2>2. ~ (s[k].free /\ s[k + 1].free)
    BY <1>3 DEF JoinedBut
  <2>3. k = i \/ k + 1 = i
    BY <1>2, <1>3, <2>1, <2>2
  <2>4. free
    BY <1>2, <1>3, <2>1, <2>3
  <2> QED
    BY <1>1, <2>3, <2>4
<1> QED
  BY <1>2, <1>3 DEF JoinedBut

----------------------------------------------------------------------------
(* The operations of the heap *)

\* A list and last_header, with one field of one segment changed.
LEMMA HeapExcept ==
    ASSUME NEW u, NEW last, NEW i, NEW free
    PROVE  [[segs |-> u, last |-> last] EXCEPT !.segs[i].free = free] =
                [segs |-> [u EXCEPT ![i].free = free], last |-> last]
OBVIOUS

\* malloc's taking of a segment: the rest of the heap stays.
LEMMA TakeSegmentProperties ==
    ASSUME NEW h, NEW e, GoodHeap(h, e), JoinedBut(h.segs, {}),
           NEW i \in 1 .. Len(h.segs), h.segs[i].free,
           NEW n \in Nat \ {0}, n <= h.segs[i].length
    PROVE  /\ GoodHeap(TakeSegment(h, i, n), e)
           /\ JoinedBut(TakeSegment(h, i, n).segs, {})
           /\ \E m \in Nat : /\ m >= n
                             /\ Used(TakeSegment(h, i, n).segs) =
                                    Used(h.segs) \cup {Seg(h.segs[i].at, m, FALSE)}
<1> DEFINE s == h.segs
           t == TakeSegment(h, i, n)
<1>1. /\ Tiled(s, e) /\ s \in Seq(Segment) /\ Len(s) \in Nat \ {0}
      /\ h.last = s[Len(s)].at
      /\ h = [segs |-> s, last |-> h.last]
  BY DEF GoodHeap, Tiled
<1>2. s[i] \in Segment /\ s[i].length \in Nat
  BY <1>1, ElementType
<1>3. CASE Splits(s, i, n)
  <2> DEFINE new == Rest(s, i, n)
             last == IF h.last = s[i].at THEN new.at ELSE h.last
  <2>1. s[i].length > n
    BY <1>2, <1>3, HeaderType DEF Splits
  <2>2. SegSplit(h, i, n) =
            [segs |-> InsertAt([s EXCEPT ![i].length = n], i + 1, new), last |-> last]
    BY <1>3 DEF SegSplit, Rest
  <2>3. t = [segs |-> Cut(s, i, n), last |-> last]
    <3> DEFINE u == InsertAt([s EXCEPT ![i].length = n], i + 1, new)
    <3>1. t = [SegSplit(h, i, n) EXCEPT !.segs[i].free = FALSE]
      BY <2>1 DEF TakeSegment
    <3>2. Cut(s, i, n) = [u EXCEPT ![i].free = FALSE]
      BY DEF Cut
    <3>3. SegSplit(h, i, n) = [segs |-> u, last |-> last]
      BY <2>2
    <3> HIDE DEF u, last, t
    <3>4. t = [segs |-> [u EXCEPT ![i].free = FALSE], last |-> last]
      <4>1. t = [[segs |-> u, last |-> last] EXCEPT !.segs[i].free = FALSE]
        BY <3>1, <3>3
      <4> QED
        BY <4>1, HeapExcept
    <3> QED
      BY <3>2, <3>4
  <2>4. t.segs = Cut(s, i, n) /\ t.last = last /\ t = [segs |-> t.segs, last |-> t.last]
    BY <2>3
  <2>5. /\ Tiled(Cut(s, i, n), e) /\ JoinedBut(Cut(s, i, n), {})
        /\ Used(Cut(s, i, n)) = Used(s) \cup {Seg(s[i].at, n, FALSE)}
    BY <1>1, <1>3, CutTiled, CutJoined, CutUsed
  <2>6. /\ Len(Cut(s, i, n)) = Len(s) + 1
        /\ Cut(s, i, n)[Len(s) + 1] = IF i = Len(s) THEN new ELSE s[Len(s)]
    <3>1. n \in Nat /\ new \in Segment /\ i \in 1 .. Len(s)
      BY <1>1, <1>3, CutExtent
    <3> HIDE DEF s
    <3>2. /\ Len(Cut(s, i, n)) = Len(s) + 1
          /\ \A k \in 1 .. Len(s) + 1 :
                Cut(s, i, n)[k] = IF k < i THEN s[k]
                                  ELSE IF k = i THEN Seg(s[i].at, n, FALSE)
                                  ELSE IF k = i + 1 THEN new ELSE s[k - 1]
      BY <1>1, <3>1, CutElements
    <3> DEFINE k == Len(s) + 1
    <3>3. /\ k \in 1 .. Len(s) + 1 /\ k - 1 = Len(s)
          /\ ~ k < i /\ k # i /\ (k = i + 1 <=> i = Len(s))
      BY <1>1, <3>1
    <3> HIDE DEF new, k
    <3>4. Cut(s, i, n)[k] = IF k < i THEN s[k] ELSE IF k = i THEN Seg(s[i].at, n, FALSE)
                            ELSE IF k = i + 1 THEN new ELSE s[k - 1]
      BY <3>2, <3>3
    <3>5. Cut(s, i, n)[k] = IF i = Len(s) THEN new ELSE s[Len(s)]
      BY <3>3, <3>4
    <3> QED
      BY <3>2, <3>5 DEF k
  <2>7. last = Cut(s, i, n)[Len(s) + 1].at
    <3>1. CASE i = Len(s)
      BY <1>1, <2>6, <3>1
    <3>2. CASE i # Len(s)
      <4>1. Len(s) \in 1 .. Len(s)
        BY <1>1
      <4>2. s[i].at # s[Len(s)].at
        BY <1>1, <3>2, <4>1, BlocksDiffer
      <4> QED
        BY <1>1, <2>6, <3>2, <4>2
    <3> QED
      BY <3>1, <3>2
  <2>8. GoodHeap(t, e)
    BY <2>4, <2>5, <2>6, <2>7 DEF GoodHeap
  <2>9. n \in Nat /\ n >= n
    OBVIOUS
  <2> QED
    BY <2>4, <2>5, <2>8, <2>9
<1>4. CASE ~ Splits(s, i, n)
  <2>1. TakeSegment(h, i, n) = [h EXCEPT !.segs[i].free = FALSE]
    BY <1>4 DEF TakeSegment, SegSplit
  <2>2. [s EXCEPT ![i].free = FALSE] = Retype(s, i, FALSE)
    BY <1>2, SegExcept DEF Retype
  <2>3. t = [segs |-> Retype(s, i, FALSE), last |-> h.last]
    BY <1>1, <2>1, <2>2
  <2>4. /\ t.segs = Retype(s, i, FALSE) /\ t.last = h.last
        /\ t = [segs |-> t.segs, last |-> t.last]
    BY <2>3
  <2>5. ~ Lost(s[i])
    BY <1>1, TiledElement
  <2>6. /\ Tiled(Retype(s, i, FALSE), e) /\ JoinedBut(Retype(s, i, FALSE), {})
        /\ Used(Retype(s, i, FALSE)) = Used(s) \cup {Seg(s[i].at, s[i].length, FALSE)}
        /\ Len(Retype(s, i, FALSE)) = Len(s)
        /\ Retype(s, i, FALSE)[Len(s)].at = s[Len(s)].at
    BY <1>1, <2>5, RetypeTiled, RetypeJoined, RetypeUsed, RetypeElements
  <2>7. GoodHeap(t, e)
    BY <1>1, <2>4, <2>6 DEF GoodHeap
  <2> QED
    BY <1>2, <2>4, <2>6, <2>7
<1> QED
  BY <1>3, <1>4

\* header_combine_forward joins what is free behind segment i.
LEMMA ForwardProperties ==
    ASSUME NEW h, NEW e, GoodHeap(h, e), NEW i \in 1 .. Len(h.segs), h.segs[i].free,
           NEW J, J \subseteq {i - 1, i}, JoinedBut(h.segs, J)
    PROVE  /\ GoodHeap(Forward(h, i), e)
           /\ JoinedBut(Forward(h, i).segs, J \ {i})
           /\ Used(Forward(h, i).segs) = Used(h.segs)
           /\ i \in 1 .. Len(Forward(h, i).segs)
           /\ Forward(h, i).segs[i].free
<1> DEFINE s == h.segs
           t == Forward(h, i)
<1>1. /\ Tiled(s, e) /\ s \in Seq(Segment) /\ Len(s) \in Nat \ {0}
      /\ h.last = s[Len(s)].at
      /\ h = [segs |-> s, last |-> h.last]
  BY DEF GoodHeap, Tiled
<1>2. CASE i < Len(s) /\ s[i + 1].free
  <2> DEFINE last == IF h.last = s[i + 1].at THEN s[i].at ELSE h.last
  <2>1. i \in 1 .. Len(s) - 1 /\ i + 1 \in 1 .. Len(s) /\ Len(s) \in 1 .. Len(s)
    BY <1>1, <1>2
  <2>2. t = [segs |-> Merge(s, i), last |-> last]
    BY <1>2 DEF Forward, Merge
  <2>3. t.segs = Merge(s, i) /\ t.last = last /\ t = [segs |-> t.segs, last |-> t.last]
    BY <2>2
  <2>4. /\ Tiled(Merge(s, i), e) /\ JoinedBut(Merge(s, i), J \ {i})
        /\ Used(Merge(s, i)) = Used(s)
    <3> HIDE DEF s
    <3> QED
      BY <1>1, <1>2, <2>1, MergeTiled, MergeJoined, MergeUsed DEF s
  <2>5. /\ Len(Merge(s, i)) = Len(s) - 1
        /\ \A k \in 1 .. Len(s) - 1 :
                Merge(s, i)[k] = IF k < i THEN s[k]
                                 ELSE IF k = i THEN Joint(s, i) ELSE s[k + 1]
    BY <1>1, <2>1, MergeElements
  <2>6. Joint(s, i).free /\ Joint(s, i).at = s[i].at
    BY <1>1, <1>2, <2>1, JointExtent
  <2>7. i \in 1 .. Len(Merge(s, i)) /\ Merge(s, i)[i].free /\ Merge(s, i)[i].at = s[i].at
    BY <1>1, <2>1, <2>5, <2>6
  <2>8. last = Merge(s, i)[Len(s) - 1].at
    <3>1. CASE i + 1 = Len(s)
      <4>1. Len(s) - 1 = i
        BY <1>1, <3>1
      <4> QED
        BY <1>1, <2>7, <3>1, <4>1
    <3>2. CASE i + 1 # Len(s)
      <4>1. Merge(s, i)[Len(s) - 1] = s[Len(s)]
        BY <1>1, <2>1, <2>5, <3>2
      <4>2. s[i + 1].at # s[Len(s)].at
        BY <1>1, <2>1, <3>2, BlocksDiffer
      <4> QED
        BY <1>1, <4>1, <4>2
    <3> QED
      BY <3>1, <3>2
  <2>9. GoodHeap(t, e)
    BY <2>3, <2>4, <2>5, <2>8 DEF GoodHeap
  <2> QED
    BY <2>3, <2>4, <2>7, <2>9
<1>3. CASE ~ (i < Len(s) /\ s[i + 1].free)
  <2>1. t = h
    BY <1>3 DEF Forward
  <2>2. JoinedBut(s, J \ {i})
    BY <1>1, <1>3 DEF JoinedBut
  <2> QED
    BY <2>1, <2>2
<1> QED
  BY <1>2, <1>3

\* header_combine_backward joins segment i to what is free in front of it.
LEMMA BackwardProperties ==
    ASSUME NEW h, NEW e, GoodHeap(h, e), NEW i \in 1 .. Len(h.segs), h.segs[i].free,
           JoinedBut(h.segs, {i - 1})
    PROVE  /\ GoodHeap(Backward(h, i), e)
           /\ JoinedBut(Backward(h, i).segs, {})
           /\ Used(Backward(h, i).segs) = Used(h.segs)
<1> DEFINE s == h.segs
<1>1. Len(s) \in Nat
  BY DEF GoodHeap, Tiled
<1>2. CASE i > 1 /\ s[i - 1].free
  <2> DEFINE j == i - 1
             J == {j}
  <2>1. /\ j \in 1 .. Len(h.segs) /\ h.segs[j].free /\ JoinedBut(h.segs, J)
        /\ J \subseteq {j - 1, j} /\ J \ {j} = {}
    BY <1>1, <1>2
  <2>2. Backward(h, i) = Forward(h, j)
    BY <1>2 DEF Backward
  <2> HIDE DEF j, J
  <2>3. /\ GoodHeap(Forward(h, j), e)
        /\ JoinedBut(Forward(h, j).segs, J \ {j})
        /\ Used(Forward(h, j).segs) = Used(h.segs)
    BY <2>1, ForwardProperties
  <2> QED
    BY <2>1, <2>2, <2>3
<1>3. CASE ~ (i > 1 /\ s[i - 1].free)
  <2>1. Backward(h, i) = h
    BY <1>3 DEF Backward
  <2>2. JoinedBut(s, {})
    BY <1>1, <1>3 DEF JoinedBut
  <2> QED
    BY <2>1, <2>2
<1> QED
  BY <1>2, <1>3

\* free: the segment is no longer used, and the rest of the heap stays.
LEMMA ReleaseProperties ==
    ASSUME NEW h, NEW e, GoodHeap(h, e), JoinedBut(h.segs, {}),
           NEW i \in 1 .. Len(h.segs), ~ h.segs[i].free, ~ Lost(h.segs[i])
    PROVE  /\ GoodHeap(Release(h, i), e)
           /\ JoinedBut(Release(h, i).segs, {})
           /\ Used(Release(h, i).segs) = Used(h.segs) \ {h.segs[i]}
<1> DEFINE s == h.segs
           g == [h EXCEPT !.segs[i].free = TRUE]
<1>1. /\ Tiled(s, e) /\ s \in Seq(Segment) /\ Len(s) \in Nat \ {0}
      /\ h.last = s[Len(s)].at
      /\ h = [segs |-> s, last |-> h.last]
  BY DEF GoodHeap, Tiled
<1>2. g = [segs |-> Retype(s, i, TRUE), last |-> h.last]
  <2>1. g = [segs |-> [s EXCEPT ![i].free = TRUE], last |-> h.last]
    <3> DEFINE u == s
               last == h.last
    <3>1. h = [segs |-> u, last |-> last]
      BY <1>1
    <3> HIDE DEF u, last
    <3>2. g = [[segs |-> u, last |-> last] EXCEPT !.segs[i].free = TRUE]
      BY <3>1
    <3> HIDE DEF g
    <3>3. g = [segs |-> [u EXCEPT ![i].free = TRUE], last |-> last]
      BY <3>2, HeapExcept
    <3> QED
      BY <3>3 DEF u, last
  <2>2. s[i] \in Segment
    BY <1>1, ElementType
  <2>3. [s EXCEPT ![i].free = TRUE] = Retype(s, i, TRUE)
    BY <2>2, SegExcept DEF Retype
  <2> QED
    BY <2>1, <2>3
<1>3. /\ Tiled(Retype(s, i, TRUE), e) /\ JoinedBut(Retype(s, i, TRUE), {i - 1, i})
      /\ Used(Retype(s, i, TRUE)) = Used(s) \ {s[i]}
      /\ Len(Retype(s, i, TRUE)) = Len(s)
      /\ Retype(s, i, TRUE)[Len(s)].at = s[Len(s)].at
      /\ Retype(s, i, TRUE)[i].free
  <2>1. Seg(s[i].at, s[i].length, TRUE).free
    BY DEF Seg
  <2> QED
    BY <1>1, <2>1, RetypeTiled, RetypeJoined, RetypeUsed, RetypeElements, ZenonT(30)
<1>4. /\ GoodHeap(g, e) /\ JoinedBut(g.segs, {i - 1, i}) /\ g.segs[i].free
      /\ i \in 1 .. Len(g.segs)
      /\ Used(g.segs) = Used(s) \ {s[i]}
  BY <1>1, <1>2, <1>3 DEF GoodHeap
<1>5. Release(h, i) = Backward(Forward(g, i), i)
  BY DEF Release
<1> HIDE DEF g
<1>6. /\ GoodHeap(Forward(g, i), e)
      /\ JoinedBut(Forward(g, i).segs, {i - 1, i} \ {i})
      /\ Used(Forward(g, i).segs) = Used(g.segs)
      /\ i \in 1 .. Len(Forward(g, i).segs)
      /\ Forward(g, i).segs[i].free
  BY <1>4, ForwardProperties
<1>7. {i - 1, i} \ {i} = {i - 1}
  BY <1>1
<1> DEFINE f == Forward(g, i)
<1> HIDE DEF f, s
<1>8. GoodHeap(f, e) /\ JoinedBut(f.segs, {i - 1}) /\ i \in 1 .. Len(f.segs) /\ f.segs[i].free
  BY <1>6, <1>7 DEF f
<1>9. /\ GoodHeap(Backward(f, i), e) /\ JoinedBut(Backward(f, i).segs, {})
      /\ Used(Backward(f, i).segs) = Used(f.segs)
  BY <1>8, BackwardProperties
<1> QED
  BY <1>4, <1>5, <1>6, <1>9 DEF f, s

----------------------------------------------------------------------------
(* heap_expand *)

\* A free segment behind the last one.
Longer(s, e, n) == Append(s, Seg(e, n, TRUE))

\* It tiles the heap to its new end, with one pair of free neighbours at most.
LEMMA LongerTiled ==
    ASSUME NEW s, NEW e, Tiled(s, e), NEW n \in Nat \ {0}, JoinedBut(s, {})
    PROVE  /\ Tiled(Longer(s, e, n), e + Header + n)
           /\ JoinedBut(Longer(s, e, n), {Len(s)})
           /\ Used(Longer(s, e, n)) = Used(s)
           /\ Len(Longer(s, e, n)) = Len(s) + 1
           /\ Longer(s, e, n)[Len(s) + 1] = Seg(e, n, TRUE)
           /\ Longer(s, e, n)[Len(s)] = s[Len(s)]
<1> DEFINE new == Seg(e, n, TRUE)
           t == Longer(s, e, n)
<1>0. t = Append(s, new)
  BY DEF Longer
<1> HIDE DEF t
<1>1. s \in Seq(Segment) /\ Len(s) \in Nat /\ Len(s) >= 1 /\ Len(s) \in 1 .. Len(s)
  BY DEF Tiled
<1>2. e \in Nat /\ Stop(s[Len(s)]) = e
  <2>1. Stop(s[Len(s)]) \in Nat
    BY <1>1, TiledElement
  <2> QED
    BY <2>1 DEF Tiled
<1>3. new \in Segment /\ new.at = e /\ new.length = n /\ new.free
  BY <1>2, SegType
<1> HIDE DEF new
<1>4. ~ Lost(new) /\ Stop(new) = e + Header + n
  BY <1>3 DEF Lost, Stop, SegEnd, Block
<1>5. /\ t \in Seq(Segment) /\ Len(t) = Len(s) + 1
      /\ \A k \in 1 .. Len(s) : t[k] = s[k]
      /\ t[Len(s) + 1] = new
  <2>1. /\ Append(s, new) \in Seq(Segment) /\ Len(Append(s, new)) = Len(s) + 1
        /\ \A k \in 1 .. Len(s) : Append(s, new)[k] = s[k]
        /\ Append(s, new)[Len(s) + 1] = new
    BY <1>1, <1>3, AppendProperties
  <2> QED
    BY <1>0, <2>1
<1>6. \A k \in 1 .. Len(t) : k \in 1 .. Len(s) \/ k = Len(s) + 1
  BY <1>1, <1>5
<1>7. ASSUME NEW k \in 1 .. Len(t)
      PROVE  Lost(t[k]) => ~ t[k].free /\ Block(t[k]) <= Floor
  BY <1>4, <1>5, <1>6 DEF Tiled
<1>8. ASSUME NEW k \in 1 .. Len(t) - 1
      PROVE  t[k + 1].at = Stop(t[k])
  <2>1. CASE k = Len(s)
    BY <1>1, <1>2, <1>3, <1>5, <2>1
  <2>2. CASE k # Len(s)
    <3>1. k \in 1 .. Len(s) - 1 /\ k \in 1 .. Len(s) /\ k + 1 \in 1 .. Len(s)
      BY <1>1, <1>5, <2>2
    <3> QED
      BY <1>5, <3>1 DEF Tiled
  <2> QED
    BY <2>1, <2>2
<1>9. ASSUME NEW k \in 1 .. Len(s)
      PROVE  Stop(s[k]) <= e
  <2>1. CASE k = Len(s)
    BY <1>2, <2>1
  <2>2. CASE k # Len(s)
    <3>1. k < Len(s)
      BY <1>1, <2>2
    <3>2. Stop(s[k]) <= s[Len(s)].at
      BY <1>1, <3>1 DEF Tiled
    <3>3. Stop(s[k]) \in Nat /\ s[Len(s)].at \in Nat /\ s[Len(s)].at < Stop(s[Len(s)])
      BY <1>1, TiledElement
    <3> QED
      BY <1>2, <3>2, <3>3
  <2> QED
    BY <2>1, <2>2
<1>10. ASSUME NEW j \in 1 .. Len(t), NEW k \in 1 .. Len(t), j < k
       PROVE  Stop(t[j]) <= t[k].at
  <2>1. j \in 1 .. Len(s)
    BY <1>1, <1>5, <1>10
  <2>2. CASE k = Len(s) + 1
    BY <1>3, <1>5, <1>9, <2>1, <2>2
  <2>3. CASE k \in 1 .. Len(s)
    BY <1>5, <1>10, <2>1, <2>3 DEF Tiled
  <2> QED
    BY <1>6, <2>2, <2>3
<1>11. Stop(t[Len(t)]) = e + Header + n
  BY <1>4, <1>5
<1>12. JoinedBut(t, {Len(s)})
  <2> SUFFICES ASSUME NEW k \in 1 .. Len(t) - 1, t[k].free, t[k + 1].free, k # Len(s)
               PROVE  FALSE
    BY DEF JoinedBut
  <2>1. k \in 1 .. Len(s) - 1 /\ k \in 1 .. Len(s) /\ k + 1 \in 1 .. Len(s)
    BY <1>1, <1>5
  <2> QED
    BY <1>5, <2>1 DEF JoinedBut
<1>13. Used(t) = Used(s)
  <2>1. \A k \in 1 .. Len(s) : k \in 1 .. Len(t)
    BY <1>1, <1>5
  <2> QED
    BY <1>3, <1>5, <1>6, <2>1 DEF Used
<1>14. Tiled(t, e + Header + n)
  BY <1>1, <1>5, <1>7, <1>8, <1>10, <1>11 DEF Tiled
<1> QED
  BY <1>1, <1>5, <1>12, <1>13, <1>14 DEF new, t

\* heap_expand links the new segment behind the last one and joins it: what is used
\* stays, and the last segment is as long as malloc counts on.
LEMMA ExpandedProperties ==
    ASSUME NEW h, NEW e, GoodHeap(h, e), JoinedBut(h.segs, {}), NEW n \in Nat \ {0}
    PROVE  /\ GoodHeap(Expanded(h, e, n), e + RoundUp(n))
           /\ JoinedBut(Expanded(h, e, n).segs, {})
           /\ Used(Expanded(h, e, n).segs) = Used(h.segs)
           /\ Expanded(h, e, n).segs[Len(Expanded(h, e, n).segs)].free
           /\ Expanded(h, e, n).segs[Len(Expanded(h, e, n).segs)].length =
                IF h.segs[Len(h.segs)].free THEN h.segs[Len(h.segs)].length + RoundUp(n)
                ELSE RoundUp(n) - Header
<1> DEFINE s == h.segs
           x == Expanded(h, e, n)
           m == RoundUp(n) - Header
           t == Longer(s, e, m)
           g == [segs |-> t, last |-> e]
<1>1. /\ Tiled(s, e) /\ s \in Seq(Segment) /\ Len(s) \in Nat /\ Len(s) >= 1
      /\ Len(s) \in 1 .. Len(s)
      /\ h.last = s[Len(s)].at
  BY DEF GoodHeap, Tiled
<1>2. RoundUp(n) \in Nat /\ m \in Nat \ {0} /\ m + Header = RoundUp(n)
  BY RoundUpProperties, HeaderType, UnitsAssumption
<1>3. (CHOOSE i \in DOMAIN s : s[i].at = h.last) = Len(s)
  <2>1. DOMAIN s = 1 .. Len(s)
    BY <1>1
  <2>2. \A i \in 1 .. Len(s) : s[i].at = h.last => i = Len(s)
    BY <1>1, BlocksDiffer
  <2> QED
    BY <1>1, <2>1, <2>2
<1>4. SubSeq(s, 1, Len(s)) = s
  BY <1>1
<1>5. Len(t) = Len(s) + 1
  BY <1>1, <1>2, LongerTiled
<1>6. x = Backward(g, Len(s) + 1)
  <2>1. x = Backward([segs |-> Append(SubSeq(s, 1, Len(s)), Seg(e, m, TRUE)),
                      last |-> e],
                     Len(Append(SubSeq(s, 1, Len(s)), Seg(e, m, TRUE))))
    BY <1>3 DEF Expanded
  <2> QED
    BY <1>4, <1>5, <2>1 DEF Longer
<1>7. /\ Tiled(t, e + RoundUp(n)) /\ JoinedBut(t, {Len(s)})
      /\ Used(t) = Used(s)
      /\ t[Len(s) + 1] = Seg(e, m, TRUE)
      /\ t[Len(s)] = s[Len(s)]
  <2>1. e \in Nat
    <3>1. Stop(s[Len(s)]) \in Nat
      BY <1>1, TiledElement
    <3> QED
      BY <1>1, <3>1 DEF Tiled
  <2>2. e + Header + m = e + RoundUp(n)
    BY <1>2, <2>1, HeaderType
  <2>3. JoinedBut(s, {})
    OBVIOUS
  <2> HIDE DEF m, s
  <2>4. m \in Nat \ {0} /\ Tiled(s, e)
    BY <1>1, <1>2
  <2>5. /\ Tiled(t, e + Header + m) /\ JoinedBut(t, {Len(s)})
        /\ Used(t) = Used(s)
        /\ t[Len(s) + 1] = Seg(e, m, TRUE)
        /\ t[Len(s)] = s[Len(s)]
    BY <2>3, <2>4, LongerTiled
  <2> QED
    BY <2>2, <2>5
<1>8. /\ Seg(e, m, TRUE).free /\ Seg(e, m, TRUE).at = e
      /\ Seg(e, m, TRUE).length = m
  BY DEF Seg
<1> HIDE DEF t, x, m
<1>9. /\ GoodHeap(g, e + RoundUp(n)) /\ g.segs = t /\ g.segs[Len(s) + 1].free
      /\ Len(s) + 1 \in 1 .. Len(g.segs)
      /\ JoinedBut(g.segs, {Len(s) + 1 - 1})
  <2>1. g.segs = t /\ g.last = e /\ g = [segs |-> g.segs, last |-> g.last]
    OBVIOUS
  <2>2. Len(s) + 1 - 1 = Len(s) /\ Len(s) + 1 \in 1 .. Len(t)
    BY <1>1, <1>5
  <2> HIDE DEF g, s
  <2> QED
    BY <1>5, <1>7, <1>8, <2>1, <2>2 DEF GoodHeap
<1> HIDE DEF g, s
<1> DEFINE z == Len(s) + 1
           f == e + RoundUp(n)
<1> HIDE DEF z, f
<1>10. /\ GoodHeap(x, e + RoundUp(n)) /\ JoinedBut(x.segs, {})
       /\ Used(x.segs) = Used(s)
  <2>1. GoodHeap(g, f) /\ z \in 1 .. Len(g.segs) /\ g.segs[z].free /\ JoinedBut(g.segs, {z - 1})
    BY <1>9 DEF z, f
  <2>2. /\ GoodHeap(Backward(g, z), f) /\ JoinedBut(Backward(g, z).segs, {})
        /\ Used(Backward(g, z).segs) = Used(g.segs)
    BY <2>1, BackwardProperties
  <2> QED
    BY <1>6, <1>7, <1>9, <2>2 DEF z, f
<1>11. /\ x.segs[Len(x.segs)].free
       /\ x.segs[Len(x.segs)].length = IF s[Len(s)].free THEN s[Len(s)].length + RoundUp(n)
                                       ELSE RoundUp(n) - Header
  <2>1. t[Len(s)] = s[Len(s)]
    BY <1>7
  <2>2. CASE s[Len(s)].free
    <3> DEFINE j == Len(s)
    <3>1. /\ j + 1 > 1 /\ j + 1 - 1 = j /\ j < j + 1
          /\ j \in 1 .. Len(t) - 1
      BY <1>1, <1>5
    <3>2. x = Forward(g, j)
      BY <1>6, <1>9, <2>1, <2>2, <3>1 DEF Backward
    <3>3. x.segs = Merge(t, j)
      BY <1>5, <1>7, <1>8, <1>9, <3>1, <3>2 DEF Forward, Merge
    <3>4. t \in Seq(Segment)
      BY <1>7 DEF Tiled
    <3>5. Len(Merge(t, j)) = j /\ Merge(t, j)[j] = Joint(t, j)
      <4>1. Len(t) - 1 = j /\ j \in 1 .. j
        BY <1>1, <1>5
      <4> HIDE DEF j
      <4>2. /\ Len(Merge(t, j)) = Len(t) - 1
            /\ \A k \in 1 .. Len(t) - 1 :
                    Merge(t, j)[k] = IF k < j THEN t[k]
                                     ELSE IF k = j THEN Joint(t, j) ELSE t[k + 1]
        BY <3>1, <3>4, MergeElements
      <4>3. ~ j < j
        BY <3>1
      <4> QED
        BY <4>1, <4>2, <4>3
    <3>6. Joint(t, j).free /\ Joint(t, j).length = s[j].length + m + Header
      BY <1>7, <1>8, <2>1, <2>2, <3>1 DEF Joint, Seg
    <3>7. s[j].length \in Nat
      BY <1>1, TiledElement
    <3>8. s[j].length + m + Header = s[j].length + RoundUp(n)
      BY <1>2, <3>7, HeaderType
    <3> QED
      BY <2>2, <3>3, <3>5, <3>6, <3>8
  <2>3. CASE ~ s[Len(s)].free
    <3>1. Len(s) + 1 - 1 = Len(s)
      BY <1>1
    <3>2. x = g
      BY <1>6, <1>9, <2>1, <2>3, <3>1 DEF Backward
    <3>3. x.segs[Len(x.segs)] = Seg(e, m, TRUE)
      BY <1>5, <1>7, <1>9, <3>2
    <3> QED
      BY <1>8, <2>3, <3>3 DEF m
  <2> QED
    BY <2>2, <2>3
<1> QED
  BY <1>10, <1>11 DEF x, s

----------------------------------------------------------------------------
(* The blocks that callers hold *)

\* Every held block has its segment, and every used segment is held or lost.
Held(s, l) ==
    /\ \A p \in DOMAIN l : p \in Nat /\ l[p] \in Nat \ {0}
    /\ \A p \in DOMAIN l : \E g \in Used(s) : Block(g) = p /\ g.length >= l[p]
    /\ \A g \in Used(s) : Lost(g) \/ Block(g) \in DOMAIN l

\* A used segment is somewhere in the list.
LEMMA UsedElement ==
    ASSUME NEW s, NEW g \in Used(s)
    PROVE  \E k \in 1 .. Len(s) : s[k] = g /\ ~ s[k].free
BY DEF Used

\* A block is of one used segment.
LEMMA UsedOnce ==
    ASSUME NEW s, NEW e, Tiled(s, e), NEW g \in Used(s), NEW x \in Used(s),
           Block(g) = Block(x)
    PROVE  g = x
<1>1. PICK j \in 1 .. Len(s) : s[j] = g
  BY UsedElement
<1>2. PICK k \in 1 .. Len(s) : s[k] = x
  BY UsedElement
<1>3. j = k
  BY <1>1, <1>2, BlocksDiffer
<1> QED
  BY <1>1, <1>2, <1>3

\* Blocks in different used segments are apart.
LEMMA UsedApart ==
    ASSUME NEW s, NEW e, Tiled(s, e), NEW g \in Used(s), NEW x \in Used(s),
           Block(g) # Block(x),
           NEW m \in Nat \ {0}, m <= g.length, NEW n \in Nat \ {0}, n <= x.length
    PROVE  B!Apart(Block(g), m, Block(x), n)
<1>1. PICK j \in 1 .. Len(s) : s[j] = g
  BY UsedElement
<1>2. PICK k \in 1 .. Len(s) : s[k] = x
  BY UsedElement
<1>3. /\ g.at \in Nat /\ g.length \in Nat /\ Block(g) = g.at + Header /\ Stop(g) \in Nat
      /\ ~ Lost(g) => Stop(g) = g.at + Header + g.length
  BY <1>1, TiledElement
<1>4. /\ x.at \in Nat /\ x.length \in Nat /\ Block(x) = x.at + Header /\ Stop(x) \in Nat
      /\ ~ Lost(x) => Stop(x) = x.at + Header + x.length
  BY <1>2, TiledElement
<1>5. ~ Lost(g) /\ ~ Lost(x)
  BY <1>3, <1>4 DEF Lost
<1>6. (j < k => Stop(g) <= x.at) /\ (k < j => Stop(x) <= g.at)
  BY <1>1, <1>2 DEF Tiled
<1>7. j < k \/ k < j
  <2>1. j # k
    BY <1>1, <1>2
  <2>2. Len(s) \in Nat
    BY DEF Tiled
  <2> QED
    BY <2>1, <2>2
<1>8. Block(g) + m <= Stop(g) /\ Block(x) + n <= Stop(x)
  <2>1. Stop(g) = Block(g) + g.length /\ Stop(x) = Block(x) + x.length
    BY <1>3, <1>4, <1>5, HeaderType
  <2>2. Block(g) \in Nat /\ Block(x) \in Nat
    BY <1>3, <1>4, HeaderType, SMTT(30)
  <2>3. m \in Nat /\ n \in Nat /\ m <= g.length /\ n <= x.length
    OBVIOUS
  <2>4. Block(g) + m <= Stop(g)
    BY <1>3, <2>1, <2>2, <2>3
  <2>5. Block(x) + n <= Stop(x)
    BY <1>4, <2>1, <2>2, <2>3
  <2> QED
    BY <2>4, <2>5
<1>9. Block(g) + m <= Block(x) - Header \/ Block(x) + n <= Block(g) - Header
  BY <1>3, <1>4, <1>6, <1>7, <1>8, HeaderType, SMTT(30)
<1> QED
  BY <1>9 DEF B!Apart

\* The segment that free finds in front of a held block.
LEMMA FindBlock ==
    ASSUME NEW s, NEW e, Tiled(s, e), NEW l, Held(s, l), NEW p \in DOMAIN l
    PROVE  LET i == IndexOf(s, p) IN
           /\ i \in 1 .. Len(s) /\ s[i] \in Used(s)
           /\ Block(s[i]) = p /\ ~ s[i].free /\ ~ Lost(s[i])
<1>1. PICK g \in Used(s) : Block(g) = p /\ g.length >= l[p]
  BY DEF Held
<1>2. PICK k \in 1 .. Len(s) : s[k] = g /\ ~ s[k].free
  BY UsedElement
<1>3. ~ Lost(s[k])
  <2>1. l[p] \in Nat \ {0}
    BY DEF Held
  <2>2. g.length \in Nat
    BY <1>2, TiledElement
  <2> QED
    BY <1>1, <1>2, <2>1, <2>2 DEF Lost
<1>4. DOMAIN s = 1 .. Len(s)
  BY DEF Tiled
<1>5. \A j \in 1 .. Len(s) : Block(s[j]) = p => j = k
  BY <1>1, <1>2, BlocksDiffer
<1>6. IndexOf(s, p) = k
  BY <1>1, <1>2, <1>4, <1>5 DEF IndexOf
<1> QED
  BY <1>1, <1>2, <1>3, <1>6

\* The held blocks with one more, of length n at q.
With(l, q, n) == [p \in DOMAIN l \cup {q} |-> IF p = q THEN n ELSE l[p]]

\* A new used segment is a new held block.
LEMMA HeldTaken ==
    ASSUME NEW s, NEW l, Held(s, l), NEW t, NEW x, Used(t) = Used(s) \cup {x},
           NEW n \in Nat \ {0}, x.length >= n, Block(x) \in Nat
    PROVE  Held(t, With(l, Block(x), n))
<1> DEFINE q == Block(x)
           m == With(l, q, n)
<1>1. /\ DOMAIN m = DOMAIN l \cup {q}
      /\ \A p \in DOMAIN m : p # q => p \in DOMAIN l /\ m[p] = l[p]
      /\ q \in DOMAIN m /\ m[q] = n
  BY DEF With
<1> HIDE DEF m, q
<1>2. ASSUME NEW p \in DOMAIN m
      PROVE  p \in Nat /\ m[p] \in Nat \ {0}
  <2>1. CASE p = q
    BY <1>1, <2>1 DEF q
  <2>2. CASE p # q
    BY <1>1, <2>2 DEF Held
  <2> QED
    BY <2>1, <2>2
<1>3. ASSUME NEW p \in DOMAIN m
      PROVE  \E g \in Used(t) : Block(g) = p /\ g.length >= m[p]
  <2>1. CASE p = q
    <3>1. x \in Used(t) /\ Block(x) = q
      BY DEF q
    <3> QED
      BY <1>1, <2>1, <3>1
  <2>2. CASE p # q
    <3>1. PICK g \in Used(s) : Block(g) = p /\ g.length >= l[p]
      BY <1>1, <2>2 DEF Held
    <3>2. g \in Used(t)
      OBVIOUS
    <3> QED
      BY <1>1, <2>2, <3>1, <3>2
  <2> QED
    BY <2>1, <2>2
<1>4. ASSUME NEW g \in Used(t)
      PROVE  Lost(g) \/ Block(g) \in DOMAIN m
  <2>1. CASE g = x
    BY <1>1, <2>1 DEF q
  <2>2. CASE g # x
    <3>1. g \in Used(s)
      BY <2>2
    <3> QED
      BY <1>1, <3>1 DEF Held
  <2> QED
    BY <2>1, <2>2
<1>5. Held(t, m)
  BY <1>2, <1>3, <1>4 DEF Held
<1> QED
  BY <1>5 DEF m, q

\* A used segment that is freed is a held block less.
LEMMA HeldGiven ==
    ASSUME NEW s, NEW e, Tiled(s, e), NEW l, Held(s, l), NEW t, NEW x \in Used(s),
           Used(t) = Used(s) \ {x}
    PROVE  Held(t, Restrict(l, DOMAIN l \ {Block(x)}))
<1> DEFINE q == Block(x)
           m == Restrict(l, DOMAIN l \ {q})
<1>1. /\ DOMAIN m = DOMAIN l \ {q}
      /\ \A p \in DOMAIN m : p # q /\ p \in DOMAIN l /\ m[p] = l[p]
  BY DEF Restrict
<1> HIDE DEF m
<1>2. \A p \in DOMAIN m : p \in Nat /\ m[p] \in Nat \ {0}
  BY <1>1 DEF Held
<1>3. ASSUME NEW p \in DOMAIN m
      PROVE  \E g \in Used(t) : Block(g) = p /\ g.length >= m[p]
  <2>1. PICK g \in Used(s) : Block(g) = p /\ g.length >= l[p]
    BY <1>1 DEF Held
  <2>2. g # x
    BY <1>1, <2>1
  <2> QED
    BY <1>1, <2>1, <2>2
<1>4. ASSUME NEW g \in Used(t)
      PROVE  Lost(g) \/ Block(g) \in DOMAIN m
  <2>1. g \in Used(s) /\ g # x
    OBVIOUS
  <2>2. Block(g) # q
    BY <2>1, UsedOnce
  <2> QED
    BY <1>1, <2>1, <2>2 DEF Held
<1>5. Held(t, m)
  BY <1>2, <1>3, <1>4 DEF Held
<1> QED
  BY <1>5 DEF m

----------------------------------------------------------------------------
(* The inductive invariant *)

\* What malloc has done for its caller: after one expansion the last segment is
\* short of at most a header, after two it fits.
Grown ==
    LET l == heap.segs[Len(heap.segs)] IN
    \/ expansions = 0 /\ heap_end + 2 * RoundUp(want) <= MaxUnits
    \/ /\ expansions = 1 /\ heap_end + RoundUp(want) <= MaxUnits
       /\ l.free /\ l.length >= RoundUp(want) - Header
    \/ expansions = 2 /\ l.free /\ l.length >= want

Calls ==
    /\ pc \in {"boot", "idle", "malloc"} /\ heap_end <= MaxUnits
    /\ pc = "boot" => heap = Whole /\ heap_end = Floor /\ live = << >>
    /\ pc # "malloc" => want = 0 /\ old = NoBlock /\ expansions = 0
    /\ pc = "malloc" => /\ want \in Nat \ {0}
                        /\ old = NoBlock \/ old \in DOMAIN live
                        /\ Grown

IInv ==
    /\ GoodHeap(heap, heap_end) /\ JoinedBut(heap.segs, {})
    /\ Held(heap.segs, live)
    /\ Calls

\* heap_initialize's one segment.
LEMMA WholeProperties ==
    /\ GoodHeap(Whole, Floor) /\ JoinedBut(Whole.segs, {}) /\ Used(Whole.segs) = {}
    /\ Len(Whole.segs) = 1
    /\ Whole.segs[1] = Seg(0, Floor - Header, TRUE) /\ Whole.last = 0
    /\ Floor - Header \in Nat
<1> DEFINE g == Seg(0, Floor - Header, TRUE)
<1>1. Floor \in Nat /\ Floor - Header \in Nat /\ Floor - Header > 0 /\ Header \in Nat
  BY FloorProperties, UnitsAssumption
<1>2. g \in Segment /\ g.at = 0 /\ g.length = Floor - Header /\ g.free
  BY <1>1, SegType
<1>3. Whole = [segs |-> <<g>>, last |-> 0]
  BY DEF Whole, Floor
<1> HIDE DEF g
<1>4. ~ Lost(g) /\ Stop(g) = Floor
  BY <1>1, <1>2 DEF Lost, Stop, SegEnd, Block
<1>5. <<g>> \in Seq(Segment) /\ Len(<<g>>) = 1 /\ <<g>>[1] = g
  BY <1>2
<1>6. Tiled(<<g>>, Floor)
  <2> DEFINE s == <<g>>
  <2> HIDE DEF s
  <2>1. s \in Seq(Segment) /\ Len(s) = 1 /\ s[1] = g /\ \A k \in 1 .. Len(s) : k = 1
    BY <1>5 DEF s
  <2> QED
    BY <1>4, <2>1 DEF Tiled, s
<1>7. JoinedBut(<<g>>, {})
  BY <1>5 DEF JoinedBut
<1>8. Used(<<g>>) = {}
  BY <1>2, <1>5 DEF Used
<1> QED
  BY <1>1, <1>2, <1>3, <1>5, <1>6, <1>7, <1>8 DEF GoodHeap, g

\* The heap as heap_initialize leaves it.
LEMMA InitInv == Init => IInv
<1> SUFFICES ASSUME Init
             PROVE  IInv
  OBVIOUS
<1>1. heap = Whole /\ heap_end = Floor /\ live = << >>
  BY DEF Init, Floor
<1>2. GoodHeap(heap, heap_end) /\ JoinedBut(heap.segs, {}) /\ Used(heap.segs) = {}
  BY <1>1, WholeProperties
<1>3. DOMAIN live = {}
  BY <1>1
<1>4. Held(heap.segs, live)
  BY <1>2, <1>3 DEF Held
<1>5. heap_end <= MaxUnits
  BY <1>1, UnitsAssumption DEF Floor
<1>6. Calls
  BY <1>1, <1>5 DEF Init, Calls
<1> QED
  BY <1>2, <1>4, <1>6 DEF IInv

\* malloc takes the segment that it found.
LEMMA Taking ==
    ASSUME IInv, pc = "malloc", NEW i \in 1 .. Len(heap.segs), Fits(i, want)
    PROVE  /\ GoodHeap(TakeSegment(heap, i, want), heap_end)
           /\ JoinedBut(TakeSegment(heap, i, want).segs, {})
           /\ Held(TakeSegment(heap, i, want).segs, With(live, Block(heap.segs[i]), want))
           /\ Block(heap.segs[i]) \notin DOMAIN live
           /\ \A p \in DOMAIN live : B!Apart(p, live[p], Block(heap.segs[i]), want)
<1> DEFINE s == heap.segs
           t == TakeSegment(heap, i, want)
           q == Block(s[i])
<1>1. /\ GoodHeap(heap, heap_end) /\ Tiled(s, heap_end) /\ JoinedBut(s, {}) /\ Held(s, live)
      /\ want \in Nat \ {0} /\ s[i].free /\ s[i].length >= want
  BY DEF IInv, GoodHeap, Calls, Fits
<1>2. s[i].at \in Nat /\ s[i].length \in Nat /\ q = s[i].at + Header /\ want <= s[i].length
  BY <1>1, TiledElement
<1>3. PICK m \in Nat : /\ GoodHeap(t, heap_end) /\ JoinedBut(t.segs, {})
                       /\ m >= want
                       /\ Used(t.segs) = Used(s) \cup {Seg(s[i].at, m, FALSE)}
  BY <1>1, <1>2, TakeSegmentProperties
<1> DEFINE x == Seg(s[i].at, m, FALSE)
<1>4. x.length = m /\ Block(x) = q /\ q \in Nat /\ x.length >= want
  BY <1>2, <1>3, HeaderType DEF Seg, Block
<1> HIDE DEF x
<1>5. Used(t.segs) = Used(s) \cup {x}
  BY <1>3 DEF x
<1> HIDE DEF t, q
<1>6. Held(t.segs, With(live, q, want))
  <2>1. Held(t.segs, With(live, Block(x), want))
    <3> DEFINE z == t.segs
    <3>1. Used(z) = Used(s) \cup {x}
      BY <1>5
    <3> HIDE DEF z, s
    <3>2. Held(z, With(live, Block(x), want))
      BY <1>1, <1>4, <3>1, HeldTaken
    <3> QED
      BY <3>2 DEF z
  <2> QED
    BY <1>4, <2>1
<1>7. q \notin DOMAIN live
  <2> SUFFICES ASSUME q \in DOMAIN live
               PROVE  FALSE
    OBVIOUS
  <2>1. PICK k \in 1 .. Len(s) : Block(s[k]) = q /\ ~ s[k].free
    BY <1>1, FindBlock
  <2>2. k = i
    BY <1>1, <2>1, BlocksDiffer DEF q
  <2> QED
    BY <1>1, <2>1, <2>2
<1>8. ASSUME NEW p \in DOMAIN live
      PROVE  B!Apart(p, live[p], q, want)
  <2>1. PICK g \in Used(s) : Block(g) = p /\ g.length >= live[p]
    BY <1>1 DEF Held
  <2>2. g \in Used(t.segs) /\ x \in Used(t.segs)
    BY <1>5
  <2>3. Tiled(t.segs, heap_end)
    BY <1>3 DEF GoodHeap
  <2>4. live[p] \in Nat \ {0} /\ p # q
    BY <1>1, <1>7 DEF Held
  <2>5. g.length \in Nat /\ live[p] <= g.length
    <3>1. PICK k \in 1 .. Len(s) : s[k] = g
      BY UsedElement
    <3>2. g.length \in Nat
      BY <1>1, <3>1, TiledElement
    <3> QED
      BY <2>1, <2>4, <3>2
  <2>6. Block(g) # Block(x) /\ want <= x.length
    BY <1>1, <1>3, <1>4, <2>1, <2>4
  <2>7. B!Apart(Block(g), live[p], Block(x), want)
    <3> DEFINE z == t.segs
               n == live[p]
    <3>1. Tiled(z, heap_end) /\ g \in Used(z) /\ x \in Used(z) /\ n \in Nat \ {0} /\ n <= g.length
      BY <2>2, <2>3, <2>4, <2>5
    <3> HIDE DEF z, n
    <3>2. B!Apart(Block(g), n, Block(x), want)
      BY <1>1, <2>6, <3>1, UsedApart
    <3> QED
      BY <3>2 DEF n
  <2> QED
    BY <1>4, <2>1, <2>7
<1> QED
  BY <1>3, <1>6, <1>7, <1>8 DEF t, q

\* free gives a held block up.
LEMMA Giving ==
    ASSUME NEW h, NEW e, GoodHeap(h, e), JoinedBut(h.segs, {}),
           NEW l, Held(h.segs, l), NEW p \in DOMAIN l
    PROVE  /\ GoodHeap(Release(h, IndexOf(h.segs, p)), e)
           /\ JoinedBut(Release(h, IndexOf(h.segs, p)).segs, {})
           /\ Held(Release(h, IndexOf(h.segs, p)).segs, Restrict(l, DOMAIN l \ {p}))
<1> DEFINE s == h.segs
           i == IndexOf(s, p)
           t == Release(h, i)
<1>1. Tiled(s, e)
  BY DEF GoodHeap
<1>2. i \in 1 .. Len(s) /\ s[i] \in Used(s) /\ Block(s[i]) = p /\ ~ s[i].free /\ ~ Lost(s[i])
  BY <1>1, FindBlock
<1> HIDE DEF i
<1>3. GoodHeap(t, e) /\ JoinedBut(t.segs, {}) /\ Used(t.segs) = Used(s) \ {s[i]}
  BY <1>2, ReleaseProperties
<1> DEFINE z == t.segs
           x == s[i]
<1>4. Used(z) = Used(s) \ {x} /\ x \in Used(s) /\ Block(x) = p /\ Held(s, l)
  BY <1>2, <1>3
<1> HIDE DEF z, x, s
<1>5. Held(z, Restrict(l, DOMAIN l \ {p}))
  BY <1>1, <1>4, HeldGiven
<1> QED
  BY <1>3, <1>5 DEF z, i, s

----------------------------------------------------------------------------
(* The steps *)

\* The first pool node: its segment, and the lost one.
LEMMA FirstPoolStep ==
    ASSUME IInv, FirstPool
    PROVE  IInv'
<1> DEFINE s == Whole.segs
           n == NodeUnits
           a == Seg(0, n, FALSE)
           b == Rest(s, 1, n)
           c == Seg(Header + n, 0, FALSE)
           t == TakeSegment(Whole, 1, n)
<1>1. /\ GoodHeap(Whole, Floor) /\ Len(s) = 1 /\ s[1] = Seg(0, Floor - Header, TRUE)
      /\ Whole.last = 0 /\ s \in Seq(Segment)
  BY WholeProperties DEF GoodHeap, Tiled
<1>2. /\ n \in Nat /\ Header \in Nat /\ Floor \in Nat /\ PageUnits \in Nat
      /\ n > 0 /\ Header > 0 /\ n + 2 * Header < PageUnits /\ PageUnits <= Floor
  BY UnitsAssumption, FloorProperties
<1>3. s[1].at = 0 /\ s[1].length = Floor - Header /\ s[1].free = TRUE
  BY <1>1 DEF Seg
<1>4. Splits(s, 1, n) /\ s[1].length > n
  BY <1>2, <1>3 DEF Splits
<1>5. b.at = Header + n /\ a.at = 0 /\ a.length = n /\ ~ a.free
  BY <1>2, <1>3 DEF Rest, Seg, Block
<1>6. /\ Cut(s, 1, n) \in Seq(Segment) /\ Len(Cut(s, 1, n)) = 2
      /\ Cut(s, 1, n)[1] = a /\ Cut(s, 1, n)[2] = b
  <2> DEFINE i == 1
  <2>1. i \in 1 .. Len(s) /\ Len(s) \in Nat /\ i = 1
    BY <1>1
  <2> HIDE DEF i, s
  <2>2. /\ Rest(s, i, n) \in Segment /\ Rest(s, i, n) = b
        /\ Seg(s[i].at, n, FALSE) = a
    <3>1. Rest(s, i, n) = Seg(Header + n, Floor - Header - n - Header, TRUE)
      <4>1. /\ Block(s[i]) + n = Header + n
            /\ s[i].length - n - Header = Floor - Header - n - Header
            /\ s[i].free = TRUE
        BY <1>2, <1>3, <2>1 DEF Block
      <4> HIDE DEF n
      <4> QED
        BY <4>1 DEF Rest
    <3>2. Header + n \in Nat /\ Floor - Header - n - Header \in Nat
      BY <1>2
    <3>3. Rest(s, i, n) \in Segment
      BY <3>1, <3>2, SegType
    <3> QED
      BY <1>3, <2>1, <3>3
  <2>3. /\ Cut(s, i, n) \in Seq(Segment) /\ Len(Cut(s, i, n)) = Len(s) + 1
        /\ \A k \in 1 .. Len(s) + 1 :
              Cut(s, i, n)[k] = IF k < i THEN s[k]
                                ELSE IF k = i THEN Seg(s[i].at, n, FALSE)
                                ELSE IF k = i + 1 THEN Rest(s, i, n) ELSE s[k - 1]
    <3>1. s \in Seq(Segment) /\ n \in Nat /\ Rest(s, i, n) \in Segment
      BY <1>1, <1>2, <2>2
    <3> HIDE DEF n, b
    <3> QED
      BY <2>1, <3>1, CutElements, ZenonT(30)
  <2>4. Cut(s, i, n)[i] = a /\ Cut(s, i, n)[i + 1] = b
    <3>1. i \in 1 .. Len(s) + 1 /\ i + 1 \in 1 .. Len(s) + 1 /\ ~ i < i
      BY <2>1
    <3>2. i + 1 # i /\ ~ i + 1 < i
      BY <2>1
    <3> DEFINE j == i + 1
    <3> HIDE DEF a, b, j, n
    <3>3. Cut(s, i, n)[j] = Rest(s, i, n)
      BY <2>3, <3>1, <3>2 DEF j
    <3> QED
      BY <2>2, <2>3, <3>1, <3>3 DEF j
  <2>5. i + 1 = 2
    BY <2>1
  <2> QED
    BY <1>1, <2>1, <2>3, <2>4, <2>5
<1>7. t = [segs |-> Cut(s, 1, n), last |-> b.at]
  <2> DEFINE u == InsertAt([s EXCEPT ![1].length = n], 1 + 1, b)
             last == b.at
  <2>1. SegSplit(Whole, 1, n) = [segs |-> u, last |-> last]
    BY <1>1, <1>3, <1>4 DEF SegSplit, Rest
  <2>2. t = [SegSplit(Whole, 1, n) EXCEPT !.segs[1].free = FALSE]
    BY <1>4 DEF TakeSegment
  <2>3. Cut(s, 1, n) = [u EXCEPT ![1].free = FALSE]
    BY DEF Cut
  <2> HIDE DEF u, last, t
  <2>4. t = [[segs |-> u, last |-> last] EXCEPT !.segs[1].free = FALSE]
    BY <2>1, <2>2
  <2>5. t = [segs |-> [u EXCEPT ![1].free = FALSE], last |-> last]
    BY <2>4, HeapExcept
  <2> QED
    BY <2>3, <2>5 DEF last
<1>8. t.segs = Cut(s, 1, n) /\ t.last = Header + n /\ t = [segs |-> t.segs, last |-> t.last]
  BY <1>5, <1>7
<1> HIDE DEF t, a, b, s
<1> DEFINE u == t.segs
           from == Header
           to == Header + PageUnits
           hit == {i \in DOMAIN u : from <= u[i].at /\ u[i].at < to}
<1>9. u \in Seq(Segment) /\ Len(u) = 2 /\ u[1] = a /\ u[2] = b
  BY <1>6, <1>8
<1> HIDE DEF u
<1>10. DOMAIN u = {1, 2}
  BY <1>9
<1>11. hit = {2}
  <2>1. ~ from <= u[1].at
    BY <1>2, <1>5, <1>9
  <2>2. from <= u[2].at /\ u[2].at < to
    BY <1>2, <1>5, <1>9
  <2> QED
    BY <1>10, <2>1, <2>2
<1> HIDE DEF hit
<1>12. (CHOOSE k \in hit : \A j \in hit : k <= j) = 2
  BY <1>11
<1>13. /\ c \in Segment /\ Lost(c) /\ Stop(c) = Floor /\ c.at = Header + n /\ ~ c.free
       /\ Block(c) <= Floor
  <2>1. Header + n \in Nat
    BY <1>2
  <2>2. c \in Segment /\ c.at = Header + n /\ c.length = 0 /\ c.free = FALSE
    BY <2>1 DEF Seg, Segment
  <2> HIDE DEF c
  <2> QED
    BY <1>2, <2>2 DEF Lost, Stop, Block
<1> DEFINE v == Append(SubSeq(u, 1, 1), c)
<1>14. Cleared(t, from, to) = [segs |-> v, last |-> Header + n]
  <2>1. Cleared(t, from, to) = [t EXCEPT !.segs = Append(SubSeq(u, 1, 2 - 1), Seg(u[2].at, 0, FALSE))]
    BY <1>11, <1>12 DEF Cleared, hit, u
  <2>2. Seg(u[2].at, 0, FALSE) = c
    BY <1>5, <1>9
  <2>3. v = Append(SubSeq(u, 1, 2 - 1), Seg(u[2].at, 0, FALSE))
    <3>1. SubSeq(u, 1, 2 - 1) = SubSeq(u, 1, 1)
      OBVIOUS
    <3> DEFINE y == SubSeq(u, 1, 1)
    <3> HIDE DEF c, y
    <3> QED
      BY <2>2, <3>1 DEF y
  <2> HIDE DEF c, v
  <2>4. Cleared(t, from, to) = [t EXCEPT !.segs = v]
    BY <2>1, <2>3
  <2> QED
    BY <1>8, <2>4
<1>15. heap' = [segs |-> v, last |-> Header + n] /\ heap_end' = Floor
  BY <1>14 DEF FirstPool, IInv, Calls, t
<1>16. /\ a \in Segment /\ ~ Lost(a) /\ Stop(a) = Header + n /\ Block(a) = Header
       /\ a.at = 0 /\ a.length = n /\ ~ a.free
  <2>1. a \in Segment
    BY <1>2, SegType DEF a
  <2> QED
    BY <1>2, <1>5, <2>1 DEF Lost, Stop, SegEnd, Block
<1> HIDE DEF c
<1>17. /\ v \in Seq(Segment) /\ Len(v) = 2 /\ v[1] = a /\ v[2] = c
       /\ \A k \in 1 .. Len(v) : k = 1 \/ k = 2
  <2> DEFINE y == SubSeq(u, 1, 1)
  <2>1. y \in Seq(Segment) /\ Len(y) = 1 /\ y[1] = a
    BY <1>9, SubSeqProperties
  <2> HIDE DEF y
  <2>2. /\ Append(y, c) \in Seq(Segment) /\ Len(Append(y, c)) = Len(y) + 1
        /\ \A k \in 1 .. Len(y) : Append(y, c)[k] = y[k]
        /\ Append(y, c)[Len(y) + 1] = c
    <3>1. c \in Segment
      BY <1>13
    <3> HIDE DEF v
    <3> QED
      BY <2>1, <3>1, AppendProperties, ZenonT(30)
  <2>3. /\ Len(Append(y, c)) = 2 /\ Append(y, c)[1] = a /\ Append(y, c)[2] = c
    BY <2>1, <2>2
  <2> QED
    BY <2>2, <2>3 DEF y
<1> HIDE DEF v
<1>19. Tiled(v, Floor)
  <2>1. \A k \in 1 .. Len(v) : Lost(v[k]) => ~ v[k].free /\ Block(v[k]) <= Floor
    BY <1>16, <1>13, <1>17
  <2>2. \A k \in 1 .. Len(v) - 1 : v[k + 1].at = Stop(v[k])
    BY <1>16, <1>13, <1>17
  <2>3. \A j, k \in 1 .. Len(v) : j < k => Stop(v[j]) <= v[k].at
    BY <1>2, <1>16, <1>13, <1>17
  <2>4. Stop(v[Len(v)]) = Floor /\ Len(v) \in Nat \ {0}
    BY <1>13, <1>17
  <2> QED
    BY <1>17, <2>1, <2>2, <2>3, <2>4 DEF Tiled
<1>20. JoinedBut(v, {})
  BY <1>16, <1>17 DEF JoinedBut
<1>21. Used(v) = {a, c}
  BY <1>16, <1>13, <1>17 DEF Used
<1>22. Held(v, live')
  <2>1. DOMAIN live' = {Header} /\ live'[Header] = n
    BY DEF FirstPool
  <2> QED
    BY <1>2, <1>16, <1>13, <1>21, <2>1 DEF Held
<1>23. heap'.segs = v /\ heap'.last = c.at /\ heap' = [segs |-> heap'.segs, last |-> heap'.last]
  BY <1>15, <1>13
<1>24. GoodHeap(heap', heap_end')
  BY <1>15, <1>17, <1>19, <1>23 DEF GoodHeap
<1>25. Calls'
  BY UnitsAssumption DEF FirstPool, IInv, Calls
<1> QED
  BY <1>20, <1>22, <1>23, <1>24, <1>25 DEF IInv

\* malloc and realloc begin.
LEMMA BeginStep ==
    ASSUME IInv, NEW n \in Sizes, Malloc(n) \/ \E p \in DOMAIN live : Realloc(p, n)
    PROVE  IInv'
<1>1. /\ pc = "idle" /\ HasRoom(n) /\ pc' = "malloc" /\ want' = n
      /\ old' = old \/ old' \in DOMAIN live
      /\ UNCHANGED <<heap, heap_end, live, expansions>>
  BY DEF Malloc, Realloc
<1>2. n \in Nat \ {0}
  BY UnitsAssumption
<1>3. expansions = 0 /\ old = NoBlock /\ heap_end <= MaxUnits
  BY <1>1 DEF IInv, Calls
<1>4. Grown'
  BY <1>1, <1>3 DEF Grown, HasRoom
<1>5. Calls'
  BY <1>1, <1>2, <1>3, <1>4 DEF Calls
<1> QED
  BY <1>1, <1>5 DEF IInv

\* malloc ends, and realloc gives the old block up.
LEMMA MallocTakeStep ==
    ASSUME IInv, MallocTake
    PROVE  /\ IInv'
           /\ B!Next
<1>1. PICK i \in DOMAIN heap.segs :
        /\ FirstFit(i, want)
        /\ heap' = IF old = NoBlock THEN TakeSegment(heap, i, want)
                   ELSE Release(TakeSegment(heap, i, want),
                                IndexOf(TakeSegment(heap, i, want).segs, old))
        /\ live' = [p \in (DOMAIN live \ {old}) \cup {Block(heap.segs[i])} |->
                        IF p = Block(heap.segs[i]) THEN want ELSE live[p]]
  BY DEF MallocTake
<1> DEFINE t == TakeSegment(heap, i, want)
           q == Block(heap.segs[i])
           l == With(live, q, want)
<1>2. /\ pc = "malloc" /\ pc' = "idle" /\ want' = 0 /\ old' = NoBlock /\ expansions' = 0
      /\ heap_end' = heap_end
  BY DEF MallocTake
<1>3. /\ i \in 1 .. Len(heap.segs) /\ Fits(i, want)
  BY <1>1 DEF FirstFit, IInv, GoodHeap, Tiled
<1>4. /\ GoodHeap(t, heap_end) /\ JoinedBut(t.segs, {}) /\ Held(t.segs, l)
      /\ q \notin DOMAIN live
      /\ \A p \in DOMAIN live : B!Apart(p, live[p], q, want)
  BY <1>2, <1>3, Taking
<1>5. /\ want \in Nat \ {0} /\ (old = NoBlock \/ old \in DOMAIN live)
      /\ heap_end <= MaxUnits
  BY <1>2 DEF IInv, Calls
<1>6. /\ DOMAIN live' = (DOMAIN live \ {old}) \cup {q} /\ live'[q] = want
      /\ live' = [p \in (DOMAIN live \ {old}) \cup {q} |-> IF p = q THEN want ELSE live[p]]
      /\ heap' = IF old = NoBlock THEN t ELSE Release(t, IndexOf(t.segs, old))
  BY <1>1
<1>7. \A p \in DOMAIN live : p \in Nat
  BY DEF IInv, Held
<1>8. NoBlock \notin DOMAIN live
  BY <1>7, UnitsAssumption
<1> HIDE DEF t, q
<1>9. q \in B!Changed
  BY <1>4, <1>6 DEF B!Changed
<1>10. CASE old = NoBlock
  <2>1. DOMAIN live \ {old} = DOMAIN live
    BY <1>8, <1>10
  <2>2. live' = l
    BY <1>6, <2>1 DEF With
  <2>3. heap' = t
    BY <1>6, <1>10
  <2>4. B!Take(q, want)
    BY <1>4, <2>2 DEF B!Take, With
  <2>5. B!Next
    BY <1>6, <1>9, <2>4 DEF B!Next
  <2>6. GoodHeap(heap', heap_end') /\ JoinedBut(heap'.segs, {}) /\ Held(heap'.segs, live')
    BY <1>2, <1>4, <2>2, <2>3
  <2>7. Calls'
    BY <1>2, <1>5 DEF Calls
  <2> QED
    BY <2>5, <2>6, <2>7 DEF IInv
<1>11. CASE old # NoBlock
  <2>1. old \in DOMAIN live /\ old # q
    BY <1>4, <1>5, <1>11
  <2>2. DOMAIN l = DOMAIN live \cup {q} /\ old \in DOMAIN l
    BY <2>1 DEF With
  <2>3. live' = Restrict(l, DOMAIN l \ {old})
    <3>1. DOMAIN l \ {old} = (DOMAIN live \ {old}) \cup {q}
      BY <2>1, <2>2
    <3>2. \A p \in DOMAIN l : l[p] = IF p = q THEN want ELSE live[p]
      BY DEF With
    <3> HIDE DEF l
    <3>3. Restrict(l, DOMAIN l \ {old}) = [p \in DOMAIN l \ {old} |-> l[p]]
      BY DEF Restrict
    <3> QED
      BY <1>6, <3>1, <3>2, <3>3
  <2>4. heap' = Release(t, IndexOf(t.segs, old))
    BY <1>6, <1>11
  <2> HIDE DEF l
  <2>5. GoodHeap(heap', heap_end') /\ JoinedBut(heap'.segs, {}) /\ Held(heap'.segs, live')
    BY <1>2, <1>4, <2>2, <2>3, <2>4, Giving
  <2>6. B!Move(old, q, want)
    BY <1>4, <1>6, <2>1 DEF B!Move
  <2>7. B!Next
    BY <1>6, <1>9, <2>1, <2>6 DEF B!Next
  <2>8. Calls'
    BY <1>2, <1>5 DEF Calls
  <2> QED
    BY <2>5, <2>7, <2>8 DEF IInv
<1> QED
  BY <1>10, <1>11

\* Two expansions are enough.
LEMMA MallocExpandStep ==
    ASSUME IInv, MallocExpand
    PROVE  IInv'
<1> DEFINE s == heap.segs
           o == s[Len(s)]
           r == RoundUp(want)
           x == Expanded(heap, heap_end, want)
           u == x.segs[Len(x.segs)]
<1>1. /\ pc = "malloc" /\ want \in Nat \ {0} /\ (old = NoBlock \/ old \in DOMAIN live)
      /\ Grown
      /\ GoodHeap(heap, heap_end) /\ JoinedBut(s, {}) /\ Held(s, live)
  BY DEF MallocExpand, IInv, Calls
<1>2. /\ heap' = x /\ heap_end' = heap_end + r /\ expansions' = expansions + 1
      /\ UNCHANGED <<live, pc, want, old>>
      /\ \A i \in DOMAIN s : ~ Fits(i, want)
  BY DEF MallocExpand
<1>3. /\ GoodHeap(x, heap_end + r) /\ JoinedBut(x.segs, {}) /\ Used(x.segs) = Used(s)
      /\ u.free
      /\ u.length = IF o.free THEN o.length + r ELSE r - Header
  <2> DEFINE h == heap
             e == heap_end
             n == want
  <2>1. GoodHeap(h, e) /\ JoinedBut(h.segs, {}) /\ n \in Nat \ {0}
    BY <1>1
  <2> HIDE DEF h, e, n
  <2>2. /\ GoodHeap(Expanded(h, e, n), e + RoundUp(n))
        /\ JoinedBut(Expanded(h, e, n).segs, {})
        /\ Used(Expanded(h, e, n).segs) = Used(h.segs)
    BY <2>1, ExpandedProperties
  <2>3. Expanded(h, e, n).segs[Len(Expanded(h, e, n).segs)].free
    BY <2>1, ExpandedProperties
  <2>4. Expanded(h, e, n).segs[Len(Expanded(h, e, n).segs)].length =
            IF h.segs[Len(h.segs)].free THEN h.segs[Len(h.segs)].length + RoundUp(n)
            ELSE RoundUp(n) - Header
    BY <2>1, ExpandedProperties
  <2> QED
    BY <2>2, <2>3, <2>4 DEF h, e, n
<1>4. Tiled(s, heap_end) /\ Len(s) \in 1 .. Len(s) /\ Len(s) \in DOMAIN s
  BY <1>1 DEF GoodHeap, Tiled
<1>5. o.length \in Nat /\ heap_end \in Nat
  <2>1. o.length \in Nat /\ Stop(o) \in Nat
    BY <1>4, TiledElement
  <2> QED
    BY <1>4, <2>1 DEF Tiled
<1>6. ~ (o.free /\ o.length >= want)
  BY <1>2, <1>4 DEF Fits
<1>7. r \in Nat /\ want \in Nat /\ want <= r /\ Header < r /\ Header \in Nat
  <2>1. r \in Nat /\ want <= r /\ PageUnits <= r
    BY <1>1, RoundUpProperties
  <2> HIDE DEF r
  <2> QED
    BY <1>1, <2>1, UnitsAssumption
<1>8. \/ expansions = 0 /\ heap_end + 2 * r <= MaxUnits
      \/ /\ expansions = 1 /\ heap_end + r <= MaxUnits
         /\ o.free /\ o.length >= r - Header
      \/ expansions = 2 /\ o.free /\ o.length >= want
  BY <1>1 DEF Grown
<1> HIDE DEF x, o, r, u
<1>9. /\ heap_end' <= MaxUnits
      /\ \/ expansions' = 1 /\ heap_end' + r <= MaxUnits /\ u.length >= r - Header
         \/ expansions' = 2 /\ u.length >= want
  <2>1. MaxUnits \in Nat
    BY UnitsAssumption
  <2>2. CASE expansions = 0 /\ heap_end + 2 * r <= MaxUnits
    <3>1. u.length >= r - Header
      BY <1>3, <1>5, <1>7
    <3> QED
      BY <1>2, <1>5, <1>7, <2>1, <2>2, <3>1
  <2>3. CASE expansions = 1 /\ heap_end + r <= MaxUnits /\ o.free /\ o.length >= r - Header
    <3>1. u.length >= want
      BY <1>3, <1>5, <1>7, <2>3
    <3> QED
      BY <1>2, <1>5, <1>7, <2>1, <2>3, <3>1
  <2> QED
    BY <1>6, <1>8, <2>2, <2>3
<1>10. Grown'
  <2>1. heap'.segs[Len(heap'.segs)] = u /\ RoundUp(want') = r /\ want' = want
    BY <1>2 DEF u, r
  <2> QED
    BY <1>3, <1>9, <2>1 DEF Grown
<1>11. Calls'
  BY <1>1, <1>2, <1>9, <1>10 DEF Calls
<1>12. Held(x.segs, live)
  <2> DEFINE z == x.segs
  <2> HIDE DEF z, s
  <2>1. Used(z) = Used(s)
    BY <1>3 DEF z
  <2>2. Held(z, live)
    BY <1>1, <2>1 DEF Held
  <2> QED
    BY <2>2 DEF z
<1> QED
  BY <1>2, <1>3, <1>11, <1>12 DEF IInv

\* free gives the block up, and no other.
LEMMA FreeStep ==
    ASSUME IInv, NEW p \in DOMAIN live, Free(p)
    PROVE  /\ IInv'
           /\ B!Next
<1>1. /\ heap' = Release(heap, IndexOf(heap.segs, p))
      /\ live' = Restrict(live, DOMAIN live \ {p})
      /\ pc = "idle" /\ UNCHANGED <<heap_end, pc, want, old, expansions>>
  BY DEF Free
<1>2. GoodHeap(heap, heap_end) /\ JoinedBut(heap.segs, {}) /\ Held(heap.segs, live)
  BY DEF IInv
<1>3. GoodHeap(heap', heap_end') /\ JoinedBut(heap'.segs, {}) /\ Held(heap'.segs, live')
  BY <1>1, <1>2, Giving
<1>4. Calls'
  <2>1. heap_end <= MaxUnits /\ want = 0 /\ old = NoBlock /\ expansions = 0
    BY <1>1 DEF IInv, Calls
  <2> QED
    BY <1>1, <2>1 DEF Calls
<1>5. B!Give(p)
  BY <1>1 DEF B!Give, B!Restrict, Restrict
<1>6. B!Next
  BY <1>5 DEF B!Next
<1> QED
  BY <1>3, <1>4, <1>6 DEF IInv

\* Every step keeps the invariant, and is a step of Blocks or leaves the blocks.
LEMMA StepInv == IInv /\ [Next]_vars => IInv' /\ [B!Next]_live
<1> SUFFICES ASSUME IInv, [Next]_vars
             PROVE  IInv' /\ [B!Next]_live
  OBVIOUS
<1>1. CASE FirstPool
  <2>1. live = << >> /\ live' = [p \in {Header} |-> NodeUnits]
    BY <1>1 DEF FirstPool, IInv, Calls
  <2>2. DOMAIN live = {} /\ DOMAIN live' = {Header} /\ live'[Header] = NodeUnits
    BY <2>1
  <2>3. B!Take(Header, NodeUnits)
    <3>1. DOMAIN live \cup {Header} = {Header}
      BY <2>2
    <3>2. live' = [p \in DOMAIN live \cup {Header} |-> IF p = Header THEN NodeUnits ELSE live[p]]
      BY <2>1, <3>1
    <3> QED
      BY <2>2, <3>2 DEF B!Take
  <2>4. Header \in B!Changed
    BY <2>2 DEF B!Changed
  <2> QED
    BY <1>1, <2>2, <2>3, <2>4, FirstPoolStep DEF B!Next
<1>2. CASE MallocTake
  BY <1>2, MallocTakeStep
<1>3. CASE MallocExpand
  BY <1>3, MallocExpandStep DEF MallocExpand
<1>4. CASE \E n \in Sizes : Malloc(n) \/ \E p \in DOMAIN live : Realloc(p, n)
  BY <1>4, BeginStep DEF Malloc, Realloc
<1>5. CASE \E p \in DOMAIN live : Free(p)
  BY <1>5, FreeStep
<1>6. CASE UNCHANGED vars
  BY <1>6 DEF vars, IInv, Calls, Grown
<1> QED
  BY <1>1, <1>2, <1>3, <1>4, <1>5, <1>6 DEF Next, Step

----------------------------------------------------------------------------
(* What the invariant says *)

\* The segments tile the heap, none in use is unknown to its holder, and malloc has what
\* its turns so far entitle it to, in every reachable state.
THEOREM Inductive == Spec => []IInv
BY InitInv, StepInv, PTL DEF Spec

\* However malloc, realloc and free follow each other, split, join and expand, the
\* segments tile the heap up to heap_end, the last one is the one that last_header
\* points to, and no malloc expands the heap a third time.
THEOREM SegmentsAlwaysTile == Spec => []SegmentsTile
<1>1. IInv => SegmentsTile
  <2> SUFFICES ASSUME IInv
               PROVE  SegmentsTile
    OBVIOUS
  <2> DEFINE s == heap.segs
  <2>1. /\ Tiled(s, heap_end) /\ heap.last = s[Len(s)].at
        /\ heap = [segs |-> s, last |-> heap.last]
        /\ s \in Seq(Segment) /\ Len(s) \in Nat \ {0} /\ Len(s) \in 1 .. Len(s)
        /\ DOMAIN s = 1 .. Len(s) /\ Stop(s[Len(s)]) = heap_end
    BY DEF IInv, GoodHeap, Tiled
  <2>2. s[Len(s)].at \in Nat /\ heap_end \in Nat
    BY <2>1, TiledElement
  <2>3. heap \in [segs : Seq(Segment) \ {<< >>}, last : Nat]
    <3>1. s # << >>
      BY <2>1
    <3> QED
      BY <2>1, <2>2, <3>1
  <2>4. TypeOK
    <3>1. heap_end \in 0 .. MaxUnits
      BY <2>2, UnitsAssumption DEF IInv, Calls
    <3>2. DOMAIN live \subseteq Nat /\ \A p \in DOMAIN live : live[p] \in Nat \ {0}
      BY DEF IInv, Held
    <3>3. want \in Nat /\ old \in Nat \cup {NoBlock} /\ expansions \in 0 .. 2
      BY <3>2 DEF IInv, Calls, Grown
    <3>4. pc \in {"boot", "idle", "malloc"}
      BY DEF IInv, Calls
    <3> QED
      BY <2>3, <3>1, <3>2, <3>3, <3>4 DEF TypeOK
  <2>5. heap.last = Last(s).at
    BY <2>1 DEF Last
  <2>6. ASSUME NEW i \in 1 .. Len(s)
        PROVE  (IF i + 1 > Len(s) THEN heap_end ELSE s[i + 1].at) =
                    IF Lost(s[i]) THEN (IF i = Len(s) THEN heap_end ELSE InitPages * PageUnits)
                    ELSE SegEnd(s[i])
    <3>1. CASE i = Len(s)
      BY <2>1, <3>1 DEF Stop
    <3>2. CASE i # Len(s)
      <4>1. i \in 1 .. Len(s) - 1 /\ ~ i + 1 > Len(s)
        BY <2>1, <3>2
      <4>2. s[i + 1].at = Stop(s[i])
        BY <2>1, <4>1 DEF Tiled
      <4> QED
        BY <3>2, <4>1, <4>2 DEF Stop, Floor
    <3> QED
      BY <3>1, <3>2
  <2> QED
    BY <2>1, <2>4, <2>5, <2>6 DEF SegmentsTile
<1> QED
  BY <1>1, Inductive, PTL

\* No two free segments are neighbours.
THEOREM FreeAlwaysJoined == Spec => []FreeIsJoined
<1>1. IInv => FreeIsJoined
  BY DEF IInv, JoinedBut, FreeIsJoined
<1> QED
  BY <1>1, Inductive, PTL

\* Every segment in use is a held block at least as long as asked for, and every
\* held block has one.
THEOREM UsedAlwaysHeld == Spec => []UsedIsHeld
<1>1. IInv => UsedIsHeld
  <2> SUFFICES ASSUME IInv
               PROVE  UsedIsHeld
    OBVIOUS
  <2> DEFINE s == heap.segs
  <2>1. Held(s, live) /\ DOMAIN s = 1 .. Len(s)
    BY DEF IInv, GoodHeap, Tiled
  <2>2. ASSUME NEW p \in DOMAIN live
        PROVE  \E i \in DOMAIN s : Block(s[i]) = p /\ ~ s[i].free /\ s[i].length >= live[p]
    <3>1. PICK g \in Used(s) : Block(g) = p /\ g.length >= live[p]
      BY <2>1 DEF Held
    <3>2. PICK k \in 1 .. Len(s) : s[k] = g /\ ~ s[k].free
      BY UsedElement
    <3> QED
      BY <2>1, <3>1, <3>2
  <2>3. ASSUME NEW i \in DOMAIN s, ~ s[i].free
        PROVE  Lost(s[i]) \/ Block(s[i]) \in DOMAIN live
    <3>1. s[i] \in Used(s)
      BY <2>1, <2>3 DEF Used
    <3> QED
      BY <2>1, <3>1 DEF Held
  <2> QED
    BY <2>2, <2>3 DEF UsedIsHeld
<1> QED
  BY <1>1, Inductive, PTL

\* The heap implements Blocks: no two held blocks overlap, and none moves or
\* shrinks while it is held, whatever the list of segments does.
THEOREM HeapImplementsBlocks == Spec => ImplementsBlocks
<1>1. Init => B!Init
  BY DEF Init, B!Init
<1> QED
  BY <1>1, Inductive, StepInv, PTL DEF Spec, ImplementsBlocks, B!Spec

=============================================================================
