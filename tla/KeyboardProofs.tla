--------------------------- MODULE KeyboardProofs ---------------------------
(***************************************************************************)
(* That prism sees the keys of the page in order and at most once, and     *)
(* takes shift for what its last code was, for any size of the page, any   *)
(* contents of a fresh page, any shift keys and any number of keys.        *)
(***************************************************************************)
EXTENDS Keyboard, TLAPS

\* Shift, after the codes f[lo] .. f[hi - 1].
After(f, lo, hi, down) ==
    \/ \E i \in lo .. hi - 1 :
        f[i] \in Shifts /\ \A j \in i + 1 .. hi - 1 : f[j] \notin Breaks
    \/ down /\ \A j \in lo .. hi - 1 : f[j] \notin Breaks

\* What prism's shift is when it has handled all that has arrived: a shift key
\* was struck, and none was released since.
Lasting == held # {} /\ ~ crossed

CodeAt == [i \in 0 .. Capacity - 1 |-> arrived[codes[i]]]

\* The page is in order from the moment its size is cleared, but for the time
\* between the memset and the reset.
InOrder ==
    pc \in {"check", "read", "deliver", "failed"} =>
        /\ size <= Capacity
        /\ \A i, j \in 0 .. size - 1 : i < j => codes[i] < codes[j]
        /\ \A i \in 0 .. size - 1 : pc # "deliver" \/ i >= next => codes[i] > seen

Counted == pc = "deliver" => buffered <= size

\* What is on the page leads from prism's shift to what it lasts.
Leads ==
    /\ pc \in Starting => ~ kb_shift /\ held = {}
    /\ ~ missed =>
        /\ pc = "read" => (Lasting <=> After(CodeAt, 0, size, kb_shift))
        /\ pc = "deliver" => /\ buffered = size
                             /\ Lasting <=> After(CodeAt, next, size, kb_shift)
        /\ pc = "reset" => (Lasting <=> kb_shift)

IInv == TypeOK /\ InOrder /\ Counted /\ Leads

----------------------------------------------------------------------------
(* Shift after one more code, and after one less *)

\* A code at the end of the page is the last to press or release shift.
LEMMA AfterLast ==
    ASSUME NEW n \in Nat, NEW f, NEW g, NEW down \in BOOLEAN,
           \A i \in 0 .. n - 1 : g[i] = f[i]
    PROVE  Pressed(After(f, 0, n, down), g[n]) <=> After(g, 0, n + 1, down)
<1>1. \A i \in 0 .. n : i \in 0 .. n - 1 \/ i = n
  OBVIOUS
<1>2. n \in 0 .. n + 1 - 1 /\ \A i \in 0 .. n - 1 : i \in 0 .. n + 1 - 1
  OBVIOUS
<1>3. 0 .. n + 1 - 1 = 0 .. n
  OBVIOUS
<1>4. CASE g[n] \in Shifts
  <2>1. \A j \in n + 1 .. n + 1 - 1 : g[j] \notin Breaks
    OBVIOUS
  <2>2. After(g, 0, n + 1, down)
    BY <1>2, <1>4, <2>1 DEF After
  <2> QED
    BY <1>4, <2>2 DEF Pressed
<1>5. CASE g[n] \in Breaks
  <2>1. ASSUME NEW i \in 0 .. n, g[i] \in Shifts
        PROVE  \E j \in i + 1 .. n + 1 - 1 : g[j] \in Breaks
    <3>1. i # n
      BY <1>5, <2>1, CodesAssumption
    <3> QED
      BY <1>5, <3>1
  <2>2. ~ After(g, 0, n + 1, down)
    BY <1>2, <1>3, <1>5, <2>1 DEF After
  <2> QED
    BY <1>5, <2>2, CodesAssumption DEF Pressed
<1>6. CASE g[n] \notin Shifts /\ g[n] \notin Breaks
  <2>1. ASSUME NEW i \in 0 .. n - 1
        PROVE  (\A j \in i + 1 .. n + 1 - 1 : g[j] \notin Breaks)
                <=> \A j \in i + 1 .. n - 1 : f[j] \notin Breaks
    <3>1. \A j \in i + 1 .. n - 1 : g[j] = f[j] /\ j \in i + 1 .. n + 1 - 1
      OBVIOUS
    <3>2. \A j \in i + 1 .. n + 1 - 1 : j \in i + 1 .. n - 1 \/ j = n
      OBVIOUS
    <3> QED
      BY <1>6, <3>1, <3>2
  <2>2. (\A j \in 0 .. n + 1 - 1 : g[j] \notin Breaks) <=> \A j \in 0 .. n - 1 : f[j] \notin Breaks
    BY <1>1, <1>2, <1>3, <1>6
  <2>3. After(g, 0, n + 1, down) <=> After(f, 0, n, down)
    BY <1>1, <1>2, <1>3, <1>6, <2>1, <2>2 DEF After
  <2> QED
    BY <1>6, <2>3 DEF Pressed
<1> QED
  BY <1>4, <1>5, <1>6

\* A code that is delivered is the first of what is left.
LEMMA AfterFirst ==
    ASSUME NEW lo \in Nat, NEW hi \in Nat, lo < hi, NEW f, NEW down \in BOOLEAN
    PROVE  After(f, lo, hi, down) <=> After(f, lo + 1, hi, Pressed(down, f[lo]))
<1>1. \A i \in lo .. hi - 1 : i = lo \/ i \in lo + 1 .. hi - 1
  OBVIOUS
<1>2. lo \in lo .. hi - 1 /\ \A i \in lo + 1 .. hi - 1 : i \in lo .. hi - 1
  OBVIOUS
<1>3. (\E i \in lo .. hi - 1 : f[i] \in Shifts /\ \A j \in i + 1 .. hi - 1 : f[j] \notin Breaks)
        <=> \/ f[lo] \in Shifts /\ \A j \in lo + 1 .. hi - 1 : f[j] \notin Breaks
            \/ \E i \in lo + 1 .. hi - 1 :
                f[i] \in Shifts /\ \A j \in i + 1 .. hi - 1 : f[j] \notin Breaks
  BY <1>1, <1>2
<1>4. (\A j \in lo .. hi - 1 : f[j] \notin Breaks)
        <=> f[lo] \notin Breaks /\ \A j \in lo + 1 .. hi - 1 : f[j] \notin Breaks
  BY <1>1, <1>2
<1> QED
  BY <1>3, <1>4 DEF After, Pressed

\* Of no codes, shift is what it was.
LEMMA AfterNone ==
    ASSUME NEW lo \in Nat, NEW f, NEW down \in BOOLEAN
    PROVE  After(f, lo, lo, down) <=> down
<1>1. lo .. lo - 1 = {}
  OBVIOUS
<1> QED
  BY <1>1 DEF After

----------------------------------------------------------------------------
(* The invariant *)

\* The invariant holds before the kernel has given prism a page.
LEMMA InitInvariant == Init => IInv
<1> SUFFICES ASSUME Init PROVE IInv
  OBVIOUS
<1> USE DEF Init, Starting
<1>1. TypeOK
  <2>1. arrived \in Seq(Codes) /\ Len(arrived) = 0
    OBVIOUS
  <2>2. codes \in [0 .. Capacity - 1 -> 0 .. Len(arrived)]
    BY <2>1
  <2>3. size \in 0 .. Capacity \cup Dirt
    OBVIOUS
  <2>4. buffered \in 0 .. Capacity /\ next \in 0 .. buffered /\ seen \in 0 .. Len(arrived)
    BY <2>1, SizesAssumption
  <2>5. owed \subseteq 1 .. Len(arrived) /\ Len(arrived) <= MaxKeys
    BY <2>1, SizesAssumption
  <2> QED
    BY <2>1, <2>2, <2>3, <2>4, <2>5 DEF TypeOK
<1>2. InOrder /\ Counted /\ Leads
  BY DEF InOrder, Counted, Leads
<1> QED
  BY <1>1, <1>2 DEF IInv

\* A key that is saved is the greatest of the page, and greater than all seen.
LEMMA KeySaved ==
    ASSUME TypeOK, InOrder, Counted, NEW code \in Codes, KeyArrives(code)
    PROVE  TypeOK' /\ InOrder' /\ Counted'
<1> DEFINE id == Len(arrived) + 1
<1>1. /\ arrived' = Append(arrived, code) /\ arrived' \in Seq(Codes)
      /\ Len(arrived') = id /\ id \in Nat \ {0} /\ id <= MaxKeys
      /\ missed' \in BOOLEAN /\ held' \subseteq Shifts /\ crossed' \in BOOLEAN
      /\ UNCHANGED <<kernel, pc, buffered, next, kb_shift, seen>>
  <2>1. held' \subseteq Shifts /\ crossed' \in BOOLEAN
    BY DEF KeyArrives, TypeOK, Down
  <2> QED
    BY <2>1, SizesAssumption DEF KeyArrives, TypeOK
<1>2. CASE ~ Saved
  <2>1. UNCHANGED <<codes, size, owed>>
    BY <1>2 DEF KeyArrives
  <2>2. TypeOK'
    BY <1>1, <2>1 DEF TypeOK, kernel
  <2>3. InOrder' /\ Counted'
    BY <1>1, <2>1 DEF InOrder, Counted
  <2> QED
    BY <2>2, <2>3
<1>3. CASE Saved
  <2>1. /\ size \in 0 .. Capacity - 1
        /\ codes' = [codes EXCEPT ![size] = id] /\ size' = size + 1
        /\ owed' = IF pc = "read" THEN owed \cup {id} ELSE owed
    BY <1>3, SizesAssumption DEF KeyArrives, Saved, TypeOK
  <2>2. /\ codes' \in [0 .. Capacity - 1 -> 0 .. id] /\ codes'[size] = id
        /\ \A i \in 0 .. size - 1 : codes'[i] = codes[i] /\ codes[i] \in 0 .. id - 1
    <3>1. codes \in [0 .. Capacity - 1 -> 0 .. id - 1]
      BY DEF TypeOK
    <3>2. id \in Nat \ {0}
      BY <1>1
    <3> HIDE DEF id
    <3>3. codes' \in [0 .. Capacity - 1 -> 0 .. id] /\ codes'[size] = id
      BY <2>1, <3>1, <3>2
    <3>4. \A i \in 0 .. size - 1 : i \in 0 .. Capacity - 1 /\ i # size
      BY <2>1, SizesAssumption
    <3>5. ASSUME NEW i \in 0 .. size - 1
          PROVE  codes'[i] = codes[i] /\ codes[i] \in 0 .. id - 1
      BY <2>1, <3>1, <3>4
    <3> QED
      BY <3>3, <3>5
  <2>3. TypeOK'
    <3>1. codes' \in [0 .. Capacity - 1 -> 0 .. Len(arrived')]
      BY <1>1, <2>2
    <3>2. size' \in 0 .. Capacity
      BY <2>1, SizesAssumption
    <3>3. owed' \subseteq 1 .. Len(arrived') /\ seen' \in 0 .. Len(arrived')
      <4>1. owed \subseteq 1 .. id - 1 /\ seen \in 0 .. id - 1
        BY DEF TypeOK
      <4>2. id \in Nat \ {0} /\ Len(arrived') = id /\ seen' = seen
        BY <1>1
      <4> HIDE DEF id
      <4>3. 1 .. id - 1 \subseteq 1 .. id /\ id \in 1 .. id
        BY <4>2
      <4> QED
        BY <2>1, <4>1, <4>2, <4>3
    <3>4. Len(arrived') <= MaxKeys
      BY <1>1
    <3> QED
      BY <1>1, <3>1, <3>2, <3>3, <3>4 DEF TypeOK, kernel
  <2>4. InOrder'
    <3> SUFFICES ASSUME pc \in {"check", "read", "deliver", "failed"}
                 PROVE  /\ size' <= Capacity
                        /\ \A i, j \in 0 .. size' - 1 : i < j => codes'[i] < codes'[j]
                        /\ \A i \in 0 .. size' - 1 :
                            pc # "deliver" \/ i >= next => codes'[i] > seen
      BY <1>1 DEF InOrder
    <3>1. \A i \in 0 .. size' - 1 : i \in 0 .. size - 1 \/ i = size
      BY <2>1
    <3>2. seen < id /\ seen \in Nat
      BY DEF TypeOK
    <3> QED
      BY <2>1, <2>2, <3>1, <3>2, SizesAssumption DEF InOrder, TypeOK
  <2>5. Counted'
    BY <1>1, <2>1 DEF Counted, TypeOK
  <2> QED
    BY <2>3, <2>4, <2>5
<1> QED
  BY <1>2, <1>3

\* prism's steps keep the key page in order and the count of its keys.
LEMMA ProgramOrder ==
    ASSUME TypeOK, InOrder, Counted, Program
    PROVE  TypeOK' /\ InOrder' /\ Counted'
<1> USE SizesAssumption
<1>1. CASE TakeKeyboard \/ AllocBuffer \/ PointAtSize
  <2>1. /\ pc' \in Starting \ {"check"}
        /\ current_pid' \in BOOLEAN /\ current_buffer' \in BOOLEAN
        /\ current_size' \in BOOLEAN
        /\ UNCHANGED <<page, arrived, update, ghosts>>
    BY <1>1 DEF TakeKeyboard, AllocBuffer, PointAtSize, TypeOK, Starting
  <2> QED
    BY <2>1 DEF TypeOK, InOrder, Counted, Starting, page, update, ghosts
<1>2. CASE ZeroSize
  BY <1>2 DEF ZeroSize, TypeOK, InOrder, Counted, Starting, kernel, update, ghosts
<1>3. CASE CheckEmpty
  BY <1>3 DEF CheckEmpty, TypeOK, InOrder, Counted, Starting, kernel, page, update, ghosts
<1>4. CASE ReadSize
  <2>1. size \in 0 .. Capacity
    BY <1>4 DEF ReadSize, TypeOK, InOrder
  <2> QED
    BY <1>4, <2>1 DEF ReadSize, TypeOK, InOrder, Counted, Starting, kernel, page, ghosts
<1>5. CASE DeliverKey
  <2> DEFINE id == codes[next]
  <2>1. /\ pc = "deliver" /\ next \in 0 .. size - 1 /\ next + 1 \in 0 .. buffered
        /\ size <= Capacity /\ size \in Nat
    BY <1>5 DEF DeliverKey, TypeOK, InOrder, Counted
  <2>2. id \in 0 .. Len(arrived) /\ next' = next + 1 /\ seen' = id /\ owed' = owed \ {id}
    BY <1>5, <2>1 DEF DeliverKey, TypeOK
  <2>3. kb_shift' \in BOOLEAN
    BY <1>5 DEF DeliverKey, TypeOK, Pressed
  <2>4. UNCHANGED <<kernel, page, arrived, pc, buffered, held, crossed, missed>>
    BY <1>5 DEF DeliverKey
  <2>5. TypeOK'
    BY <2>1, <2>2, <2>3, <2>4 DEF TypeOK, kernel, page
  <2>6. InOrder' /\ Counted'
    BY <2>1, <2>2, <2>4 DEF TypeOK, InOrder, Counted, page
  <2> QED
    BY <2>5, <2>6
<1>6. CASE ClearKeys
  <2>1. size \in 0 .. Capacity
    BY <1>6 DEF ClearKeys, TypeOK, InOrder
  <2>2. size' \in 0 .. Capacity
    <3>1. size % LowByte \in 0 .. size
      BY <2>1
    <3> QED
      BY <1>6, <2>1, <3>1 DEF ClearKeys
  <2>3. codes' \in [0 .. Capacity - 1 -> 0 .. Len(arrived)]
    BY <1>6 DEF ClearKeys, TypeOK
  <2> QED
    BY <1>6, <2>2, <2>3
    DEF ClearKeys, TypeOK, InOrder, Counted, Starting, kernel, update, ghosts
<1>7. CASE ResetSize
  BY <1>7 DEF ResetSize, TypeOK, InOrder, Counted, Starting, kernel, update, ghosts
<1> QED
  BY <1>1, <1>2, <1>3, <1>4, <1>5, <1>6, <1>7 DEF Program

\* What shift lasts, after one more code.
LEMMA LastingKey ==
    ASSUME TypeOK, NEW code \in Codes, KeyArrives(code), pc \notin Starting
    PROVE  Lasting' <=> Pressed(Lasting, code)
<1>1. /\ held' = Down(held, code)
      /\ crossed' = IF code \in Shifts \cup Breaks
                    THEN code \in Breaks /\ held' # {} ELSE crossed
  BY DEF KeyArrives
<1>2. CASE code \in Shifts
  <2>1. code \notin Breaks
    BY <1>2, CodesAssumption
  <2>2. code \in held'
    BY <1>1, <1>2, <2>1 DEF Down, Breaks
  <2> QED
    BY <1>1, <1>2, <2>1, <2>2 DEF Pressed, Lasting
<1>3. CASE code \in Breaks
  <2>1. code \notin Shifts
    BY <1>3, CodesAssumption
  <2> QED
    BY <1>1, <1>3, <2>1 DEF Pressed, Lasting
<1>4. CASE code \notin Shifts \cup Breaks
  <2>1. held' = held
    BY <1>1, <1>4 DEF Down, Breaks, TypeOK
  <2> QED
    BY <1>1, <1>4, <2>1 DEF Pressed, Lasting
<1> QED
  BY <1>2, <1>3, <1>4

\* Shift as it lasts and prism's: keys that arrive outside an update are put behind
\* what is on the page, an update takes them off the front.
LEMMA KeyLeads ==
    ASSUME IInv, NEW code \in Codes, KeyArrives(code)
    PROVE  Leads'
<1>1. /\ UNCHANGED <<pc, buffered, next, kb_shift>>
      /\ pc \in Starting => UNCHANGED <<held, crossed>>
      /\ pc \notin Starting => (Lasting' <=> Pressed(Lasting, code))
      /\ missed' <=> (missed \/ ~ Saved \/ pc # "read") /\ pc \notin Starting
  BY LastingKey DEF KeyArrives, IInv
<1>2. CASE pc \in Starting
  BY <1>1, <1>2 DEF IInv, Leads, Starting
<1>3. CASE pc \notin Starting /\ missed'
  BY <1>1, <1>3 DEF Leads
<1>4. CASE pc \notin Starting /\ ~ missed'
  <2>1. pc = "read" /\ ~ missed /\ Saved
    BY <1>1, <1>4
  <2>2. /\ size \in Nat /\ size < Capacity /\ Capacity \in Nat
        /\ kb_shift \in BOOLEAN
    BY <2>1, SizesAssumption DEF IInv, TypeOK, Saved
  <2>3. /\ codes' = [codes EXCEPT ![size] = Len(arrived) + 1] /\ size' = size + 1
        /\ arrived' = Append(arrived, code)
    BY <2>1 DEF KeyArrives
  <2>4. arrived'[Len(arrived) + 1] = code
    BY <2>3 DEF IInv, TypeOK
  <2>5. \A n \in 1 .. Len(arrived) : arrived'[n] = arrived[n]
    BY <2>3 DEF IInv, TypeOK
  <2>6. CodeAt'[size] = code
    <3>1. size \in 0 .. Capacity - 1 /\ codes'[size] = Len(arrived) + 1
      BY <2>2, <2>3 DEF IInv, TypeOK
    <3> QED
      BY <2>4, <3>1 DEF CodeAt
  <2>7. ASSUME NEW i \in 0 .. size - 1
        PROVE  CodeAt'[i] = CodeAt[i]
    <3>1. i \in 0 .. Capacity - 1 /\ codes'[i] = codes[i]
      BY <2>2, <2>3 DEF IInv, TypeOK
    <3>2. codes[i] \in 1 .. Len(arrived)
      BY <2>1, <3>1 DEF IInv, TypeOK, InOrder
    <3> QED
      BY <2>5, <3>1, <3>2 DEF CodeAt
  <2>8. Pressed(After(CodeAt, 0, size, kb_shift), CodeAt'[size])
            <=> After(CodeAt', 0, size + 1, kb_shift)
    BY <2>2, <2>7, AfterLast
  <2>9. Lasting <=> After(CodeAt, 0, size, kb_shift)
    BY <2>1 DEF IInv, Leads
  <2>10. Lasting' <=> After(CodeAt', 0, size', kb_shift')
    BY <1>1, <1>4, <2>3, <2>6, <2>8, <2>9 DEF Pressed
  <2> QED
    BY <1>1, <2>1, <2>10 DEF Leads, Starting
<1> QED
  BY <1>2, <1>3, <1>4

\* prism's steps keep its place in the page behind the kernel's.
LEMMA ProgramLeads ==
    ASSUME IInv, Program
    PROVE  Leads'
<1> USE DEF IInv
<1>1. CASE TakeKeyboard \/ AllocBuffer \/ PointAtSize \/ ZeroSize
  <2>1. pc \in Starting /\ pc' \in Starting /\ UNCHANGED <<held, crossed, kb_shift>>
    BY <1>1 DEF TakeKeyboard, AllocBuffer, PointAtSize, ZeroSize, Starting, update, ghosts
  <2> QED
    BY <2>1 DEF Leads, Lasting, Starting
<1>2. CASE CheckEmpty
  <2>1. /\ held = {} /\ ~ kb_shift
        /\ UNCHANGED <<codes, size, arrived, held, crossed, kb_shift>>
        /\ pc' \in {"read", "failed"} /\ (pc' = "read" => size = 0)
    BY <1>2 DEF CheckEmpty, Leads, Starting, page, update, ghosts
  <2>2. ~ After(CodeAt', 0, 0, kb_shift')
    BY <2>1, AfterNone DEF TypeOK
  <2> QED
    BY <2>1, <2>2 DEF Leads, Lasting, Starting
<1>3. CASE ReadSize
  BY <1>3 DEF ReadSize, Leads, Lasting, Starting, CodeAt, page, ghosts
<1>4. CASE DeliverKey
  <2>1. /\ pc = "deliver" /\ pc' = "deliver" /\ next < buffered /\ next' = next + 1
        /\ kb_shift' = IF codes[next] = 0 THEN kb_shift
                       ELSE Pressed(kb_shift, arrived[codes[next]])
        /\ UNCHANGED <<codes, size, arrived, buffered, held, crossed, missed>>
    BY <1>4 DEF DeliverKey, page
  <2>2. next \in Nat /\ next < size /\ size \in Nat /\ size <= Capacity
    BY <2>1, SizesAssumption DEF TypeOK, InOrder, Counted
  <2>3. codes[next] # 0 /\ CodeAt[next] = arrived[codes[next]]
    BY <2>1, <2>2, SizesAssumption DEF TypeOK, InOrder, CodeAt
  <2>4. After(CodeAt, next, size, kb_shift)
            <=> After(CodeAt, next + 1, size, Pressed(kb_shift, CodeAt[next]))
    BY <2>2, AfterFirst DEF TypeOK
  <2>5. CodeAt' = CodeAt
    BY <2>1 DEF CodeAt
  <2> QED
    BY <2>1, <2>3, <2>4, <2>5 DEF Leads, Lasting, Starting
<1>5. CASE ClearKeys
  <2>1. /\ pc = "deliver" /\ next = buffered /\ pc' = "reset"
        /\ UNCHANGED <<held, crossed, missed, kb_shift>>
    BY <1>5 DEF ClearKeys, update, ghosts
  <2>2. After(CodeAt, next, next, kb_shift) <=> kb_shift
    BY AfterNone DEF TypeOK
  <2> QED
    BY <2>1, <2>2 DEF Leads, Lasting, Starting
<1>6. CASE ResetSize
  <2>1. /\ pc = "reset" /\ pc' = "read" /\ size' = 0
        /\ UNCHANGED <<held, crossed, missed, kb_shift>>
    BY <1>6 DEF ResetSize, update, ghosts
  <2>2. After(CodeAt', 0, 0, kb_shift) <=> kb_shift
    BY AfterNone DEF TypeOK
  <2> QED
    BY <2>1, <2>2 DEF Leads, Lasting, Starting
<1> QED
  BY <1>1, <1>2, <1>3, <1>4, <1>5, <1>6 DEF Program

\* Every reachable state satisfies the inductive invariant.
THEOREM Invariance == Spec => []IInv
<1>1. Init => IInv
  BY InitInvariant
<1>2. IInv /\ [Next]_vars => IInv'
  <2> SUFFICES ASSUME IInv, [Next]_vars PROVE IInv'
    OBVIOUS
  <2>1. ASSUME NEW code \in Codes, KeyArrives(code) PROVE IInv'
    BY <2>1, KeySaved, KeyLeads DEF IInv
  <2>2. CASE Program
    BY <2>2, ProgramOrder, ProgramLeads DEF IInv
  <2>3. CASE UNCHANGED vars
    BY <2>3 DEF vars, IInv, TypeOK, InOrder, Counted, Leads, Lasting, CodeAt
  <2> QED
    BY <2>1, <2>2, <2>3 DEF Next
<1> QED
  BY <1>1, <1>2, PTL DEF Spec

----------------------------------------------------------------------------
(* The theorems *)

\* The page holds keys in the order of their arrival and none that was seen
\* before (__kb_man_save_key, kbd_update), whatever arrives when.
THEOREM PageInOrder == Spec => []BufferInOrder
<1>1. IInv => BufferInOrder
  BY DEF IInv, BufferInOrder, InOrder, TypeOK, Starting
<1> QED
  BY <1>1, Invariance, PTL

\* kbd_update gives each key to the listeners at most once, in order.
THEOREM KeysInOrder == Spec => SeenInOrder
<1>1. ASSUME IInv, [Next]_vars PROVE [seen' # seen => seen' > seen]_vars
  <2>1. CASE DeliverKey
    <3>1. seen' = codes[next] /\ next \in 0 .. size - 1 /\ pc = "deliver"
      BY <1>1, <2>1 DEF DeliverKey, IInv, TypeOK, Counted
    <3> QED
      BY <1>1, <3>1 DEF IInv, InOrder, TypeOK
  <2>2. CASE Program /\ ~ DeliverKey
    BY <2>2 DEF Program, TakeKeyboard, AllocBuffer, PointAtSize, ZeroSize, CheckEmpty,
                ReadSize, ClearKeys, ResetSize, ghosts
  <2>3. ASSUME NEW code \in Codes, KeyArrives(code) PROVE seen' = seen
    BY <2>3 DEF KeyArrives
  <2> QED
    BY <1>1, <2>1, <2>2, <2>3 DEF Next
<1> QED
  BY <1>1, Invariance, PTL DEF Spec, SeenInOrder

\* kbd_init fails only for a key struck since kb_man cleared the size.
THEOREM StartsUnlessStruck == Spec => StartsUnlessKeyEarly
<1>1. ASSUME IInv, [Next]_vars
      PROVE  [pc' = "failed" /\ pc = "check" =>
                \E i \in DOMAIN codes : codes[i] # 0 /\ i < size]_vars
  <2> SUFFICES ASSUME Next, pc' = "failed", pc = "check"
               PROVE  \E i \in DOMAIN codes : codes[i] # 0 /\ i < size
    BY <1>1
  <2>1. size # 0
    <3>1. CheckEmpty
      BY DEF Next, Program, TakeKeyboard, AllocBuffer, PointAtSize, ZeroSize, ReadSize,
             DeliverKey, ClearKeys, ResetSize, KeyArrives
    <3> QED
      BY <3>1 DEF CheckEmpty
  <2>2. size \in 1 .. Capacity /\ 0 \in 0 .. size - 1
    BY <1>1, <2>1, SizesAssumption DEF IInv, InOrder, TypeOK
  <2>3. 0 \in DOMAIN codes /\ codes[0] \in Nat /\ seen \in Nat
    BY <1>1, <2>2, SizesAssumption DEF IInv, TypeOK
  <2>4. codes[0] > seen
    BY <1>1, <2>2 DEF IInv, InOrder
  <2>5. codes[0] # 0 /\ 0 < size
    BY <2>2, <2>3, <2>4
  <2> QED
    BY <2>3, <2>5
<1> QED
  BY <1>1, Invariance, PTL DEF Spec, StartsUnlessKeyEarly

\* Once the page is empty prism takes shift to be down exactly if a shift key is,
\* unless a key arrived in an update or found the page full, or one shift key was
\* released over another (kbd_update, __kb_man_save_key).
THEOREM ShiftTracked == Spec => []ShiftIsTracked
<1>1. IInv => ShiftIsTracked
  <2> SUFFICES ASSUME IInv, pc = "read", size = 0, ~ missed PROVE kb_shift = Lasting
    BY DEF ShiftIsTracked, Lasting
  <2>1. Lasting <=> kb_shift
    BY AfterNone DEF IInv, TypeOK, Leads
  <2> QED
    BY <2>1 DEF IInv, TypeOK, Lasting
<1> QED
  BY <1>1, Invariance, PTL
=============================================================================
