---------------------------- MODULE Ps2KbdProofs ----------------------------
(* The keyboard driver decodes each scan code as a whole and is in step at *)
(* its end, proved for any table of keys that CodesAssumption allows.      *)
(*                                                                         *)
(* The buffer always holds bytes of the current code that end where those  *)
(* still to come begin.  It cannot begin anywhere: Partial lists, for each *)
(* kind of code, between which places bytes may be waiting for the next.   *)
EXTENDS Ps2Kbd, SequenceTheorems, TLAPS

\* The handler may hold the bytes of e's code behind place p up to place k.
Partial(e, p, k) ==
    \/ e.group = "plain" /\ e.up /\ p = 0 /\ k = 1
    \/ e.group = "extended" /\ p = 0 /\ k = 1
    \/ e.group = "extended" /\ e.up /\ p \in {0, 1} /\ k = 2
    \/ e.group = "print_screen" /\ p = 0 /\ k \in 1 .. 3
    \/ e.group = "print_screen" /\ ~ e.up /\ p = 2 /\ k = 3
    \/ e.group = "print_screen" /\ e.up /\ p = 1 /\ k = 2
    \/ e.group = "print_screen" /\ e.up /\ p \in {0, 3} /\ k \in 4 .. 5
    \/ e.group = "print_screen" /\ e.up /\ p = 4 /\ k = 5
    \/ e.group = "pause" /\ p = 0 /\ k \in 1 .. 7
    \/ e.group = "pause" /\ p = 3 /\ k \in 4 .. 5
    \/ e.group = "pause" /\ p = 4 /\ k = 5
    \/ e.group = "pause" /\ p = 6 /\ k = 7

\* The bytes of s are those of e's code behind place p.
Bytes(s, e, p) ==
    /\ p + Len(s) <= Len(Code(e))
    /\ \A i \in 1 .. Len(s) : s[i] = Code(e)[p + i]

\* They are those from place p to place k, or from place k to the end.
Holds(s, e, p, k) == p + Len(s) = k /\ Bytes(s, e, p)
Follows(s, e, k) == Holds(s, e, k, Len(Code(e)))

\* Where the code that is under way has come to.
InCode(e, p, k) ==
    /\ \/ p = k
       \/ Partial(e, p, k)
    /\ Follows(sending, e, k)
    /\ Holds(buffer, e, p, k)
    /\ whole => /\ p = 0 \/ (p = k /\ sending = << >>)
                /\ key = IF sending = << >> THEN e ELSE NoKey

Types ==
    /\ pc \in {"masked", "unmasked", "done"}
    /\ buffer \in Seq(0 .. 255) /\ sending \in Seq(0 .. 255)
    /\ struck \in Events \cup {NoKey} /\ key \in Events \cup {NoKey}
    /\ whole \in BOOLEAN

\* The inductive invariant
IInv ==
    /\ Types
    /\ pc = "masked" => buffer = << >>
    /\ struck = NoKey => buffer = << >> /\ sending = << >> /\ ~ whole
    /\ struck # NoKey => \E p, k \in 0 .. 8 : InCode(struck, p, k)

----------------------------------------------------------------------------
(* The codes, byte by byte. *)

\* What is in a set is in any that contains it.
LEMMA OfSubset ==
    ASSUME NEW A, NEW B, A \subseteq B, NEW x \in A
    PROVE  x \in B
  OBVIOUS

\* Code gives the one or two bytes of a key that sends one.
LEMMA PlainCode ==
    ASSUME NEW e \in Events, e.group = "plain"
    PROVE  /\ Code(e) \in Seq(0 .. 255)
           /\ e.code \in 0 .. 255 \ {\hE0, \hE1, \hF0}
           /\ e.up => Len(Code(e)) = 2 /\ Code(e)[1] = \hF0 /\ Code(e)[2] = e.code
           /\ ~ e.up => Len(Code(e)) = 1 /\ Code(e)[1] = e.code
<1>1. e.code \in Plain /\ e.up \in BOOLEAN
  BY DEF Events
<1>2. e.code \in 0 .. 255 \ {\hE0, \hE1, \hF0}
  <2>1. Plain \subseteq 0 .. 255 \ {\hE0, \hE1, \hF0}
    BY CodesAssumption, Zenon
  <2>2. QED BY <1>1, <2>1, OfSubset, Zenon
<1>3. Code(e) = (IF e.up THEN <<\hF0>> ELSE << >>) \o <<e.code>>
  BY DEF Code
<1>4. CASE e.up
  <2>1. Code(e) = <<\hF0>> \o <<e.code>>
    BY <1>3, <1>4
  <2>2. QED BY <1>2, <1>4, <2>1
<1>5. CASE ~ e.up
  <2>1. Code(e) = << >> \o <<e.code>>
    BY <1>3, <1>5
  <2>2. QED BY <1>2, <1>5, <2>1
<1>6. QED BY <1>1, <1>4, <1>5

\* Code gives the two or three bytes of a key that sends 0xE0 and a byte.
LEMMA ExtendedCode ==
    ASSUME NEW e \in Events, e.group = "extended"
    PROVE  /\ Code(e) \in Seq(0 .. 255)
           /\ e.code \in 0 .. 255 \ {\hE0, \hE1, \hF0, \h12, \h77, \h7C}
           /\ e.up => /\ Len(Code(e)) = 3
                      /\ Code(e)[1] = \hE0 /\ Code(e)[2] = \hF0 /\ Code(e)[3] = e.code
           /\ ~ e.up => Len(Code(e)) = 2 /\ Code(e)[1] = \hE0 /\ Code(e)[2] = e.code
<1>1. e.code \in Extended /\ e.up \in BOOLEAN
  BY DEF Events
<1>2. e.code \in 0 .. 255 \ {\hE0, \hE1, \hF0, \h12, \h77, \h7C}
  <2>1. Extended \subseteq 0 .. 255 \ {\hE0, \hE1, \hF0, \h12, \h77, \h7C}
    BY CodesAssumption, Zenon
  <2>2. QED BY <1>1, <2>1, OfSubset, Zenon
<1>3. Code(e) = (IF e.up THEN <<\hE0, \hF0>> ELSE <<\hE0>>) \o <<e.code>>
  BY DEF Code
<1>4. CASE e.up
  <2>1. Code(e) = <<\hE0, \hF0>> \o <<e.code>>
    BY <1>3, <1>4
  <2>2. QED BY <1>2, <1>4, <2>1
<1>5. CASE ~ e.up
  <2>1. Code(e) = <<\hE0>> \o <<e.code>>
    BY <1>3, <1>5
  <2>2. QED BY <1>2, <1>5, <2>1
<1>6. QED BY <1>1, <1>4, <1>5

\* Code gives the six or four bytes of print screen.
LEMMA PrintScreenCode ==
    ASSUME NEW e \in Events, e.group = "print_screen"
    PROVE  /\ Code(e) \in Seq(0 .. 255) /\ e.code = 0
           /\ e.up => /\ Len(Code(e)) = 6
                      /\ Code(e)[1] = \hE0 /\ Code(e)[2] = \hF0 /\ Code(e)[3] = \h7C
                      /\ Code(e)[4] = \hE0 /\ Code(e)[5] = \hF0 /\ Code(e)[6] = \h12
           /\ ~ e.up => /\ Len(Code(e)) = 4
                        /\ Code(e)[1] = \hE0 /\ Code(e)[2] = \h12
                        /\ Code(e)[3] = \hE0 /\ Code(e)[4] = \h7C
<1>1. e.code = 0 /\ e.up \in BOOLEAN
  BY DEF Events
<1>2. Code(e) = IF e.up THEN <<\hE0, \hF0, \h7C, \hE0, \hF0, \h12>>
                ELSE <<\hE0, \h12, \hE0, \h7C>>
  BY DEF Code
<1>3. CASE e.up
  <2>1. Code(e) = <<\hE0, \hF0, \h7C, \hE0, \hF0, \h12>>
    BY <1>2, <1>3
  <2>2. QED BY <1>1, <1>3, <2>1
<1>4. CASE ~ e.up
  <2>1. Code(e) = <<\hE0, \h12, \hE0, \h7C>>
    BY <1>2, <1>4
  <2>2. QED BY <1>1, <1>4, <2>1
<1>5. QED BY <1>1, <1>3, <1>4

\* Code gives the eight bytes of pause, which has no release.
LEMMA PauseCode ==
    ASSUME NEW e \in Events, e.group = "pause"
    PROVE  /\ Code(e) \in Seq(0 .. 255) /\ e.code = 0 /\ ~ e.up
           /\ Len(Code(e)) = 8
           /\ Code(e)[1] = \hE1 /\ Code(e)[2] = \h14 /\ Code(e)[3] = \h77
           /\ Code(e)[4] = \hE1 /\ Code(e)[5] = \hF0 /\ Code(e)[6] = \h14
           /\ Code(e)[7] = \hF0 /\ Code(e)[8] = \h77
<1>1. e.code = 0 /\ ~ e.up
  BY DEF Events
<1>2. Code(e) = <<\hE1, \h14, \h77, \hE1, \hF0, \h14, \hF0, \h77>>
  BY DEF Code
<1>3. QED BY <1>1, <1>2

\* Every event is of one of the four groups of the table of ps2_translate_keycode.
LEMMA Groups ==
    ASSUME NEW e \in Events
    PROVE  /\ e.group \in {"plain", "extended", "print_screen", "pause"}
           /\ e.up \in BOOLEAN
           /\ e = [group |-> e.group, code |-> e.code, up |-> e.up]
BY DEF Events

\* Every code is one to eight bytes.
LEMMA CodeBytes ==
    ASSUME NEW e \in Events
    PROVE  Code(e) \in Seq(0 .. 255) /\ Len(Code(e)) \in 1 .. 8 /\ Len(Code(e)) # 0
<1>1. CASE e.group = "plain"
  BY <1>1, Groups, PlainCode
<1>2. CASE e.group = "extended"
  BY <1>2, Groups, ExtendedCode
<1>3. CASE e.group = "print_screen"
  BY <1>3, Groups, PrintScreenCode
<1>4. CASE e.group = "pause"
  BY <1>4, Groups, PauseCode
<1>5. e.group \in {"plain", "extended", "print_screen", "pause"}
  BY Groups
<1>6. QED BY <1>1, <1>2, <1>3, <1>4, <1>5

\* The first bytes of a code tell its group and whether the key is let go.
LEMMA SameGroup ==
    ASSUME NEW e \in Events, NEW f \in Events, Code(e) = Code(f)
    PROVE  f.group = e.group /\ (e.up <=> f.up)
<1>1. /\ e.group \in {"plain", "extended", "print_screen", "pause"} /\ e.up \in BOOLEAN
      /\ f.group \in {"plain", "extended", "print_screen", "pause"} /\ f.up \in BOOLEAN
  BY Groups
<1>2. ASSUME NEW g \in Events
      PROVE  /\ g.group = "plain" =>
                /\ g.up => Len(Code(g)) = 2 /\ Code(g)[1] = \hF0
                /\ ~ g.up => Len(Code(g)) = 1 /\ Code(g)[1] \notin {\hE0, \hE1, \hF0}
             /\ g.group = "extended" =>
                /\ g.up => Len(Code(g)) = 3 /\ Code(g)[1] = \hE0
                /\ ~ g.up => Len(Code(g)) = 2 /\ Code(g)[1] = \hE0
             /\ g.group = "print_screen" =>
                /\ g.up => Len(Code(g)) = 6
                /\ ~ g.up => Len(Code(g)) = 4
             /\ g.group = "pause" => Len(Code(g)) = 8 /\ ~ g.up
  BY PlainCode, ExtendedCode, PrintScreenCode, PauseCode
<1>3. QED
  <2>1. CASE e.group = "plain"
    BY <1>1, <1>2, <2>1
  <2>2. CASE e.group = "extended"
    BY <1>1, <1>2, <2>2
  <2>3. CASE e.group = "print_screen"
    BY <1>1, <1>2, <2>3
  <2>4. CASE e.group = "pause"
    BY <1>1, <1>2, <2>4
  <2>5. QED BY <1>1, <2>1, <2>2, <2>3, <2>4

\* A list that has a length is not empty.
LEMMA NotEmpty ==
    ASSUME NEW t, Len(t) # 0
    PROVE  t # << >>
<1>1. Len(<< >>) = 0
  OBVIOUS
<1>2. QED BY <1>1

\* A list that has none is empty.
LEMMA NoBytes ==
    ASSUME NEW t \in Seq(0 .. 255), Len(t) = 0
    PROVE  t = << >>
  BY EmptySeq

\* A list of bytes has bytes at its places.
LEMMA BytesInRange ==
    ASSUME NEW t \in Seq(0 .. 255)
    PROVE  \A i \in DOMAIN t : t[i] \in 0 .. 255
<1>1. DOMAIN t = 1 .. Len(t)
  OBVIOUS
<1>2. QED BY <1>1, ElementOfSeq

\* The table of ps2_translate_keycode has each code once.
LEMMA CodesDiffer ==
    ASSUME NEW e \in Events, NEW f \in Events, Code(e) = Code(f)
    PROVE  e = f
<1>1. f.group = e.group /\ (e.up <=> f.up)
  BY SameGroup
<1>2. e.code = f.code
  <2>1. CASE e.group = "plain"
    <3>1. CASE e.up
      <4>1. f.up
        BY <1>1, <3>1
      <4>2. QED BY <1>1, <2>1, <3>1, <4>1, PlainCode
    <3>2. CASE ~ e.up
      <4>1. ~ f.up
        BY <1>1, <3>2
      <4>2. QED BY <1>1, <2>1, <3>2, <4>1, PlainCode
    <3>3. QED BY <3>1, <3>2
  <2>2. CASE e.group = "extended"
    <3>1. CASE e.up
      <4>1. f.up
        BY <1>1, <3>1
      <4>2. QED BY <1>1, <2>2, <3>1, <4>1, ExtendedCode
    <3>2. CASE ~ e.up
      <4>1. ~ f.up
        BY <1>1, <3>2
      <4>2. QED BY <1>1, <2>2, <3>2, <4>1, ExtendedCode
    <3>3. QED BY <3>1, <3>2
  <2>3. CASE e.group = "print_screen"
    BY <1>1, <2>3, PrintScreenCode
  <2>4. CASE e.group = "pause"
    BY <1>1, <2>4, PauseCode
  <2>5. e.group \in {"plain", "extended", "print_screen", "pause"}
    BY Groups
  <2>6. QED BY <2>1, <2>2, <2>3, <2>4, <2>5
<1>3. e.up = f.up
  BY <1>1, Groups
<1>4. QED BY <1>1, <1>2, <1>3, Groups

\* What is counted through the bytes of a code is a number.
LEMMA PartialPlaces ==
    ASSUME NEW e \in Events, NEW p, NEW k, Partial(e, p, k)
    PROVE  /\ p \in 0 .. 6 /\ k \in 1 .. 7 /\ p < k
           /\ k < Len(Code(e))
<1>1. CASE e.group = "plain"
  BY <1>1, Groups, PlainCode DEF Partial
<1>2. CASE e.group = "extended"
  BY <1>2, Groups, ExtendedCode DEF Partial
<1>3. CASE e.group = "print_screen"
  BY <1>3, Groups, PrintScreenCode DEF Partial
<1>4. CASE e.group = "pause"
  BY <1>4, Groups, PauseCode DEF Partial
<1>5. e.group \in {"plain", "extended", "print_screen", "pause"}
  BY Groups
<1>6. QED BY <1>1, <1>2, <1>3, <1>4, <1>5

\* ps2_kbd_needs_next_byte by the number of bytes, the first, and the last.
Waits(n, first, last) ==
    \/ n = 1 /\ last \in {\hE0, \hF0, \hE1}
    \/ n = 2 /\ last = \hF0
    \/ n = 2 /\ first = \hE0 /\ last = \h12
    \/ n = 2 /\ first = \hE1 /\ last = \h14
    \/ n = 3 /\ last \in {\h77, \h7C, \hE0}
    \/ n = 4 /\ last \in {\hE0, \hE1}
    \/ n = 5 /\ last = \hF0
    \/ n = 6 /\ last = \h14
    \/ n = 7 /\ last = \hF0

\* It looks at no other bytes.
LEMMA Needs ==
    ASSUME NEW s, NEW n, NEW last, n = Len(s), last = s[n]
    PROVE  NeedsNextByte(s) <=> Waits(n, s[1], last)
<1>1. NeedsNextByte(s) => Waits(n, s[1], last)
  BY DEF NeedsNextByte, Waits
<1>2. ASSUME Waits(n, s[1], last)
      PROVE  NeedsNextByte(s)
  <2>1. CASE n = 1 /\ last \in {\hE0, \hF0, \hE1}
    BY <2>1 DEF NeedsNextByte
  <2>2. CASE n = 2 /\ last = \hF0
    BY <2>2 DEF NeedsNextByte
  <2>3. CASE n = 2 /\ s[1] = \hE0 /\ last = \h12
    BY <2>3 DEF NeedsNextByte
  <2>4. CASE n = 2 /\ s[1] = \hE1 /\ last = \h14
    BY <2>4 DEF NeedsNextByte
  <2>5. CASE n = 3 /\ last \in {\h77, \h7C, \hE0}
    BY <2>5 DEF NeedsNextByte
  <2>6. CASE n = 4 /\ last \in {\hE0, \hE1}
    BY <2>6 DEF NeedsNextByte
  <2>7. CASE n = 5 /\ last = \hF0
    BY <2>7 DEF NeedsNextByte
  <2>8. CASE n = 6 /\ last = \h14
    BY <2>8 DEF NeedsNextByte
  <2>9. CASE n = 7 /\ last = \hF0
    BY <2>9 DEF NeedsNextByte
  <2>10. QED BY <1>2, <2>1, <2>2, <2>3, <2>4, <2>5, <2>6, <2>7, <2>8, <2>9 DEF Waits
<1>3. QED BY <1>1, <1>2

\* ps2_kbd_needs_next_byte, asked of bytes of a code from a place where the
\* handler may have begun: it waits where Partial says, never behind the last
\* byte, and if it has seen the first byte it does not stop before the last.
LEMMA Gathered ==
    ASSUME NEW e \in Events, NEW p \in 0 .. 8, NEW k \in 0 .. 8, k < Len(Code(e)),
           p = k \/ Partial(e, p, k),
           NEW s \in Seq(0 .. 255), Holds(s, e, p, k + 1)
    PROVE  /\ NeedsNextByte(s) => Partial(e, p, k + 1)
           /\ p = 0 /\ ~ NeedsNextByte(s) => k + 1 = Len(Code(e))
<1> DEFINE c == Code(e)
<1>b. p + Len(s) = k + 1 /\ Bytes(s, e, p)
  BY DEF Holds
<1>1. /\ k + 1 - p \in Nat /\ k + 1 - p = Len(s)
      /\ s[k + 1 - p] = c[k + 1]
      /\ Len(s) = 2 => s[1] = c[k]
  <2>1. Len(s) = k + 1 - p /\ Len(s) \in Nat /\ Len(s) >= 1
    BY <1>b, PartialPlaces
  <2>2. p + Len(s) = k + 1
    BY <1>b
  <2>3. s[Len(s)] = c[p + Len(s)]
    BY <1>b, <2>1 DEF Bytes
  <2>4. ASSUME Len(s) = 2
        PROVE  s[1] = c[k]
    <3>1. p + 1 = k
      BY <2>2, <2>4
    <3>2. s[1] = c[p + 1]
      BY <1>b, <2>4 DEF Bytes
    <3>3. QED BY <3>1, <3>2
  <2>5. QED BY <2>1, <2>2, <2>3, <2>4
<1> DEFINE n == k + 1 - p
           last == c[k + 1]
<1>a. n \in Nat /\ n = Len(s) /\ last = s[n]
  BY <1>1
<1> HIDE DEF n, last
<1>2. NeedsNextByte(s) <=> Waits(n, s[1], last)
  BY <1>a, Needs
<1>3. NeedsNextByte(s) <=>
          \/ k = p /\ last \in {\hE0, \hF0, \hE1}
          \/ k = p + 1 /\ last = \hF0
          \/ k = p + 1 /\ c[k] = \hE0 /\ last = \h12
          \/ k = p + 1 /\ c[k] = \hE1 /\ last = \h14
          \/ k = p + 2 /\ last \in {\h77, \h7C, \hE0}
          \/ k = p + 3 /\ last \in {\hE0, \hE1}
          \/ k = p + 4 /\ last = \hF0
          \/ k = p + 5 /\ last = \h14
          \/ k = p + 6 /\ last = \hF0
  <2>1. /\ n = 1 <=> k = p
        /\ n = 2 <=> k = p + 1
        /\ n = 3 <=> k = p + 2
        /\ n = 4 <=> k = p + 3
        /\ n = 5 <=> k = p + 4
        /\ n = 6 <=> k = p + 5
        /\ n = 7 <=> k = p + 6
    BY DEF n
  <2>2. n = 2 => s[1] = c[k]
    BY <1>1 DEF n
  <2>3. QED BY <1>2, <2>1, <2>2 DEF Waits
<1> USE DEF last
<1>4. p = k \/ Partial(e, p, k)
  OBVIOUS
<1>5. CASE e.group = "plain"
  <2>1. CASE e.up
    <3>1. /\ Partial(e, p, k) <=> p = 0 /\ k = 1
          /\ Partial(e, p, k + 1) <=> p = 0 /\ k + 1 = 1
      BY <1>5, <2>1 DEF Partial
    <3>2. Len(c) = 2 /\ c[1] = \hF0 /\ c[2] \notin {\hE0, \hE1, \hF0}
      BY <1>5, <2>1, PlainCode
    <3>3. k \in {0, 1}
      BY <3>2
    <3>4. QED
      <4>0. CASE k = 0
        BY <1>3, <1>4, <3>1, <3>2, <4>0
      <4>1. CASE k = 1
        BY <1>3, <1>4, <3>1, <3>2, <4>1
      <4>2. QED BY <3>3, <4>0, <4>1
  <2>2. CASE ~ e.up
    <3>1. /\ Partial(e, p, k) <=> FALSE
          /\ Partial(e, p, k + 1) <=> FALSE
      BY <1>5, <2>2 DEF Partial
    <3>2. Len(c) = 1 /\ c[1] \notin {\hE0, \hE1, \hF0}
      BY <1>5, <2>2, PlainCode
    <3>3. k \in {0}
      BY <3>2
    <3>4. QED
      <4>0. CASE k = 0
        BY <1>3, <1>4, <3>1, <3>2, <4>0
      <4>1. QED BY <3>3, <4>0
  <2>3. QED BY <2>1, <2>2
<1>6. CASE e.group = "extended"
  <2>1. CASE e.up
    <3>1. /\ Partial(e, p, k) <=> (p = 0 /\ k \in 1 .. 2) \/ (p = 1 /\ k = 2)
          /\ Partial(e, p, k + 1) <=> (p = 0 /\ k + 1 \in 1 .. 2) \/ (p = 1 /\ k + 1 = 2)
      BY <1>6, <2>1 DEF Partial
    <3>2. /\ Len(c) = 3 /\ c[1] = \hE0 /\ c[2] = \hF0
          /\ c[3] \notin {\hE0, \hE1, \hF0, \h12, \h77, \h7C}
      BY <1>6, <2>1, ExtendedCode
    <3>3. k \in {0, 1, 2}
      BY <3>2
    <3>4. QED
      <4>0. CASE k = 0
        BY <1>3, <1>4, <3>1, <3>2, <4>0
      <4>1. CASE k = 1
        BY <1>3, <1>4, <3>1, <3>2, <4>1
      <4>2. CASE k = 2
        BY <1>3, <1>4, <3>1, <3>2, <4>2
      <4>3. QED BY <3>3, <4>0, <4>1, <4>2
  <2>2. CASE ~ e.up
    <3>1. /\ Partial(e, p, k) <=> p = 0 /\ k = 1
          /\ Partial(e, p, k + 1) <=> p = 0 /\ k + 1 = 1
      BY <1>6, <2>2 DEF Partial
    <3>2. Len(c) = 2 /\ c[1] = \hE0 /\ c[2] \notin {\hE0, \hE1, \hF0, \h12, \h77, \h7C}
      BY <1>6, <2>2, ExtendedCode
    <3>3. k \in {0, 1}
      BY <3>2
    <3>4. QED
      <4>0. CASE k = 0
        BY <1>3, <1>4, <3>1, <3>2, <4>0
      <4>1. CASE k = 1
        BY <1>3, <1>4, <3>1, <3>2, <4>1
      <4>2. QED BY <3>3, <4>0, <4>1
  <2>3. QED BY <2>1, <2>2
<1>7. CASE e.group = "print_screen"
  <2>1. CASE e.up
    <3>1. /\ Partial(e, p, k) <=> (p = 0 /\ k \in 1 .. 5) \/ (p = 1 /\ k = 2) \/ (p = 3 /\ k \in 4 .. 5) \/ (p = 4 /\ k = 5)
          /\ Partial(e, p, k + 1) <=> (p = 0 /\ k + 1 \in 1 .. 5) \/ (p = 1 /\ k + 1 = 2) \/ (p = 3 /\ k + 1 \in 4 .. 5) \/ (p = 4 /\ k + 1 = 5)
      BY <1>7, <2>1 DEF Partial
    <3>2. /\ Len(c) = 6 /\ c[1] = \hE0 /\ c[2] = \hF0 /\ c[3] = \h7C
          /\ c[4] = \hE0 /\ c[5] = \hF0 /\ c[6] = \h12
      BY <1>7, <2>1, PrintScreenCode
    <3>3. k \in {0, 1, 2, 3, 4, 5}
      BY <3>2
    <3>4. QED
      <4>0. CASE k = 0
        BY <1>3, <1>4, <3>1, <3>2, <4>0
      <4>1. CASE k = 1
        BY <1>3, <1>4, <3>1, <3>2, <4>1
      <4>2. CASE k = 2
        BY <1>3, <1>4, <3>1, <3>2, <4>2
      <4>3. CASE k = 3
        BY <1>3, <1>4, <3>1, <3>2, <4>3
      <4>4. CASE k = 4
        BY <1>3, <1>4, <3>1, <3>2, <4>4
      <4>5. CASE k = 5
        BY <1>3, <1>4, <3>1, <3>2, <4>5
      <4>6. QED BY <3>3, <4>0, <4>1, <4>2, <4>3, <4>4, <4>5
  <2>2. CASE ~ e.up
    <3>1. /\ Partial(e, p, k) <=> (p = 0 /\ k \in 1 .. 3) \/ (p = 2 /\ k = 3)
          /\ Partial(e, p, k + 1) <=> (p = 0 /\ k + 1 \in 1 .. 3) \/ (p = 2 /\ k + 1 = 3)
      BY <1>7, <2>2 DEF Partial
    <3>2. Len(c) = 4 /\ c[1] = \hE0 /\ c[2] = \h12 /\ c[3] = \hE0 /\ c[4] = \h7C
      BY <1>7, <2>2, PrintScreenCode
    <3>3. k \in {0, 1, 2, 3}
      BY <3>2
    <3>4. QED
      <4>0. CASE k = 0
        BY <1>3, <1>4, <3>1, <3>2, <4>0
      <4>1. CASE k = 1
        BY <1>3, <1>4, <3>1, <3>2, <4>1
      <4>2. CASE k = 2
        BY <1>3, <1>4, <3>1, <3>2, <4>2
      <4>3. CASE k = 3
        BY <1>3, <1>4, <3>1, <3>2, <4>3
      <4>4. QED BY <3>3, <4>0, <4>1, <4>2, <4>3
  <2>3. QED BY <2>1, <2>2
<1>8. CASE e.group = "pause"
  <2>1. /\ Partial(e, p, k) <=> (p = 0 /\ k \in 1 .. 7) \/ (p = 3 /\ k \in 4 .. 5) \/ (p = 4 /\ k = 5) \/ (p = 6 /\ k = 7)
        /\ Partial(e, p, k + 1) <=> (p = 0 /\ k + 1 \in 1 .. 7) \/ (p = 3 /\ k + 1 \in 4 .. 5) \/ (p = 4 /\ k + 1 = 5) \/ (p = 6 /\ k + 1 = 7)
    BY <1>8 DEF Partial
  <2>2. /\ Len(c) = 8 /\ c[1] = \hE1 /\ c[2] = \h14 /\ c[3] = \h77 /\ c[4] = \hE1
        /\ c[5] = \hF0 /\ c[6] = \h14 /\ c[7] = \hF0 /\ c[8] = \h77
    BY <1>8, PauseCode
  <2>3. k \in {0, 1, 2, 3, 4, 5, 6, 7}
    BY <2>2
  <2>4. QED
    <3>0. CASE k = 0
      BY <1>3, <1>4, <2>1, <2>2, <3>0
    <3>1. CASE k = 1
      BY <1>3, <1>4, <2>1, <2>2, <3>1
    <3>2. CASE k = 2
      BY <1>3, <1>4, <2>1, <2>2, <3>2
    <3>3. CASE k = 3
      BY <1>3, <1>4, <2>1, <2>2, <3>3
    <3>4. CASE k = 4
      BY <1>3, <1>4, <2>1, <2>2, <3>4
    <3>5. CASE k = 5
      BY <1>3, <1>4, <2>1, <2>2, <3>5
    <3>6. CASE k = 6
      BY <1>3, <1>4, <2>1, <2>2, <3>6
    <3>7. CASE k = 7
      BY <1>3, <1>4, <2>1, <2>2, <3>7
    <3>8. QED BY <2>3, <3>0, <3>1, <3>2, <3>3, <3>4, <3>5, <3>6, <3>7
<1>9. e.group \in {"plain", "extended", "print_screen", "pause"}
  BY Groups
<1>10. QED BY <1>5, <1>6, <1>7, <1>8, <1>9

----------------------------------------------------------------------------
(* The invariant. *)

\* A byte taken from the front and a byte added behind, element by element.
LEMMA Bytewise ==
    ASSUME NEW b \in Seq(0 .. 255), NEW t \in Seq(0 .. 255), t # << >>
    PROVE  /\ Tail(t) \in Seq(0 .. 255) /\ Len(Tail(t)) = Len(t) - 1
           /\ \A i \in 1 .. Len(t) - 1 : Tail(t)[i] = t[i + 1]
           /\ Head(t) = t[1] /\ Head(t) \in 0 .. 255 /\ Len(t) \in Nat \ {0}
           /\ Append(b, Head(t)) \in Seq(0 .. 255) /\ Len(Append(b, Head(t))) = Len(b) + 1
           /\ \A i \in 1 .. Len(b) : Append(b, Head(t))[i] = b[i]
           /\ Append(b, Head(t))[Len(b) + 1] = Head(t)
<1>1. Len(t) \in Nat /\ Len(t) # 0 /\ Len(b) \in Nat
  OBVIOUS
<1>2. Head(t) = t[1] /\ t[1] \in 0 .. 255
  <2>1. Head(t) = t[1]
    OBVIOUS
  <2>2. 1 \in 1 .. Len(t)
    BY <1>1
  <2>3. t[1] \in 0 .. 255
    BY <2>2, ElementOfSeq
  <2>4. QED BY <2>1, <2>3
<1>3. Tail(t) \in Seq(0 .. 255) /\ Len(Tail(t)) = Len(t) - 1
  BY <1>1
<1>4. \A i \in 1 .. Len(t) - 1 : Tail(t)[i] = t[i + 1]
  BY <1>1
<1>5. /\ Append(b, t[1]) \in Seq(0 .. 255) /\ Len(Append(b, t[1])) = Len(b) + 1
      /\ \A i \in 1 .. Len(b) : Append(b, t[1])[i] = b[i]
      /\ Append(b, t[1])[Len(b) + 1] = t[1]
  BY <1>1, <1>2
<1>6. QED BY <1>1, <1>2, <1>3, <1>4, <1>5

\* The next byte is the one behind place k, and behind it the rest.
LEMMA NextByte ==
    ASSUME NEW e \in Events, NEW p \in 0 .. 8, NEW k \in 0 .. 8,
           NEW b \in Seq(0 .. 255), NEW t \in Seq(0 .. 255), t # << >>,
           Follows(t, e, k), Holds(b, e, p, k)
    PROVE  /\ k < Len(Code(e)) /\ k + 1 \in 0 .. 8
           /\ Follows(Tail(t), e, k + 1)
           /\ Holds(Append(b, Head(t)), e, p, k + 1)
<1> DEFINE c == Code(e)
<1>1. Len(c) \in 1 .. 8
  BY CodeBytes
<1>a. /\ k + Len(t) = Len(c) /\ Bytes(t, e, k)
      /\ p + Len(b) = k /\ Bytes(b, e, p)
  BY DEF Follows, Holds
<1>2. Len(t) \in Nat \ {0} /\ Len(Tail(t)) = Len(t) - 1
  <2>1. Len(t) \in Nat /\ Len(t) # 0
    OBVIOUS
  <2>2. Len(Tail(t)) = Len(t) - 1
    OBVIOUS
  <2>3. QED BY <2>1, <2>2
<1>3. k < Len(c) /\ k + 1 \in 0 .. 8 /\ k + 1 + Len(Tail(t)) = Len(c)
  <2> DEFINE all == Len(c)
             left == Len(t)
             rest == Len(Tail(t))
  <2>1. k + left = all /\ all \in 1 .. 8 /\ left \in Nat \ {0} /\ rest = left - 1
    BY <1>1, <1>a, <1>2
  <2> HIDE DEF all, left, rest
  <2>2. k < all /\ k + 1 \in 0 .. 8 /\ k + 1 + rest = all
    BY <2>1
  <2>3. QED BY <2>2 DEF all, rest
<1>4. Bytes(Tail(t), e, k + 1)
  <2>1. ASSUME NEW i \in 1 .. Len(Tail(t))
        PROVE  Tail(t)[i] = c[k + 1 + i]
    <3>1. Tail(t)[i] = t[i + 1] /\ i + 1 \in 1 .. Len(t)
      BY <1>2, Bytewise
    <3>2. t[i + 1] = c[k + (i + 1)]
      BY <1>a, <3>1 DEF Bytes
    <3>3. k + (i + 1) = k + 1 + i
      OBVIOUS
    <3>4. QED BY <3>1, <3>2, <3>3
  <2>2. QED BY <1>3, <2>1 DEF Bytes
<1>5. p + Len(Append(b, Head(t))) = k + 1
  BY <1>a, Bytewise
<1>6. Bytes(Append(b, Head(t)), e, p)
  <2> DEFINE s == Append(b, Head(t))
  <2>1. Len(s) = Len(b) + 1 /\ Len(b) \in Nat
    BY Bytewise
  <2>2. ASSUME NEW i \in 1 .. Len(s)
        PROVE  s[i] = c[p + i]
    <3>1. CASE i <= Len(b)
      <4>1. s[i] = b[i]
        BY <2>1, <3>1, Bytewise
      <4>2. QED BY <1>a, <2>1, <3>1, <4>1 DEF Bytes
    <3>2. CASE i = Len(b) + 1
      <4>1. s[i] = t[1]
        BY <3>2, Bytewise
      <4>2. t[1] = c[k + 1]
        BY <1>a, <1>2 DEF Bytes
      <4>3. k + 1 = p + i
        BY <1>a, <3>2, <2>1
      <4>4. QED BY <4>1, <4>2, <4>3
    <3>3. QED BY <2>1, <3>1, <3>2
  <2>3. p + Len(s) <= Len(c)
    BY <1>3, <1>5
  <2>4. QED BY <2>2, <2>3 DEF Bytes
<1>7. QED BY <1>3, <1>4, <1>5, <1>6 DEF Follows, Holds

\* Init: no code is under way.
LEMMA Start == Init => IInv
<1> SUFFICES ASSUME Init
             PROVE  IInv
  OBVIOUS
<1>1. /\ pc = "masked" /\ buffer = << >> /\ sending = << >>
      /\ struck = NoKey /\ key = NoKey /\ whole = FALSE
  BY DEF Init
<1>2. << >> \in Seq(0 .. 255)
  OBVIOUS
<1>3. NoKey \in Events \cup {NoKey}
  OBVIOUS
<1>4. Types
  BY <1>1, <1>2, <1>3, Zenon DEF Types
<1>5. QED BY <1>1, <1>4 DEF IInv

\* A key is struck when the last code is over: the handler has no bytes left.
LEMMA AtEnd ==
    ASSUME IInv, sending = << >>
    PROVE  buffer = << >>
<1>1. CASE struck = NoKey
  BY <1>1 DEF IInv
<1>2. CASE struck # NoKey
  <2>1. struck \in Events
    BY <1>2 DEF IInv, Types
  <2>2. PICK p \in 0 .. 8, k \in 0 .. 8 : InCode(struck, p, k)
    BY <1>2 DEF IInv
  <2>3. k = Len(Code(struck))
    BY <2>2 DEF InCode, Follows, Holds, IInv, Types
  <2>4. ~ Partial(struck, p, k)
    BY <2>1, <2>3, PartialPlaces
  <2>5. p = k /\ p + Len(buffer) = k
    BY <2>2, <2>4 DEF InCode, Holds
  <2>6. Len(buffer) = 0
    BY <2>5 DEF IInv, Types
  <2>7. QED BY <2>6 DEF IInv, Types
<1>3. QED BY <1>1, <1>2

\* Strike: the code begins at its first byte, with an empty buffer.
LEMMA StrikeKeeps ==
    ASSUME IInv, NEW e \in Events, Strike(e)
    PROVE  IInv'
<1>1. buffer = << >> /\ sending = << >>
  BY AtEnd DEF Strike
<1>2. /\ sending' = Code(e) /\ struck' = e /\ key' = NoKey
      /\ pc' = pc /\ buffer' = << >>
      /\ whole' = TRUE
  BY <1>1 DEF Strike
<1>3. Code(e) \in Seq(0 .. 255) /\ Len(Code(e)) \in 1 .. 8 /\ Len(Code(e)) # 0
  BY CodeBytes
<1>4. Types'
  BY <1>2, <1>3 DEF IInv, Types
<1>5. e # NoKey
  BY CodesAssumption
<1>6. InCode(e, 0, 0)'
  <2>1. Code(e) # << >>
    BY <1>3, NotEmpty
  <2>2. Bytes(Code(e), e, 0)
    BY <1>3 DEF Bytes
  <2>3. Bytes(<< >>, e, 0)
    BY <1>3 DEF Bytes
  <2>4. QED BY <1>2, <1>3, <2>1, <2>2, <2>3 DEF InCode, Follows, Holds
<1>7. QED BY <1>2, <1>4, <1>5, <1>6 DEF IInv

\* ByteIgnored: the buffer stays empty, and the code has lost its first byte.
LEMMA IgnoredKeeps ==
    ASSUME IInv, ByteIgnored
    PROVE  IInv'
<1>1. /\ pc = "masked" /\ buffer = << >> /\ sending # << >> /\ sending \in Seq(0 .. 255)
      /\ sending' = Tail(sending) /\ whole' = FALSE
      /\ pc' = pc /\ buffer' = << >> /\ struck' = struck /\ key' = key
  BY DEF ByteIgnored, IInv, Types
<1>2. struck # NoKey /\ struck \in Events
  BY <1>1 DEF IInv, Types
<1>3. PICK p \in 0 .. 8, k \in 0 .. 8 : InCode(struck, p, k)
  BY <1>2 DEF IInv
<1>4. p = k
  BY <1>1, <1>3 DEF InCode, Holds
<1>a. /\ buffer \in Seq(0 .. 255)
      /\ Follows(sending, struck, k) /\ Holds(buffer, struck, p, k)
  BY <1>3 DEF InCode, IInv, Types
<1>5. /\ k + 1 \in 0 .. 8 /\ k < Len(Code(struck))
      /\ Follows(Tail(sending), struck, k + 1)
  BY <1>1, <1>2, <1>a, NextByte
<1>6. Holds(<< >>, struck, k + 1, k + 1)
  <2>1. k + 1 <= Len(Code(struck))
    BY <1>2, <1>5, CodeBytes
  <2>2. QED BY <2>1 DEF Bytes, Holds
<1>7. InCode(struck, k + 1, k + 1)'
  BY <1>1, <1>5, <1>6 DEF InCode
<1>8. Types'
  BY <1>1, Bytewise DEF IInv, Types
<1>9. QED BY <1>1, <1>2, <1>5, <1>7, <1>8 DEF IInv

\* What is still to come is empty at the end of a code and nowhere else.
LEMMA LeftToSend ==
    ASSUME NEW e \in Events, NEW k \in 0 .. 8, NEW t \in Seq(0 .. 255), Follows(t, e, k)
    PROVE  /\ k < Len(Code(e)) => t # << >>
           /\ k = Len(Code(e)) => t = << >>
<1>1. k + Len(t) = Len(Code(e)) /\ Len(Code(e)) \in Nat /\ Len(t) \in Nat
  BY CodeBytes DEF Follows, Holds
<1>2. CASE k < Len(Code(e))
  BY <1>1, <1>2, NotEmpty
<1>3. CASE k = Len(Code(e))
  <2>1. Len(t) = 0
    BY <1>1, <1>3
  <2>2. QED BY <1>3, <2>1, NoBytes
<1>4. QED BY <1>2, <1>3

\* ByteArrives, where the handler waits for the next byte.
LEMMA WaitsKeeps ==
    ASSUME IInv, ByteArrives, NeedsNextByte(Append(buffer, Head(sending)))
    PROVE  IInv'
<1> DEFINE s == Append(buffer, Head(sending))
<1>1. /\ pc # "masked" /\ sending # << >> /\ sending \in Seq(0 .. 255)
      /\ buffer \in Seq(0 .. 255)
      /\ sending' = Tail(sending) /\ buffer' = s
      /\ pc' = pc /\ whole' = whole /\ struck' = struck /\ key' = key
  BY DEF ByteArrives, IInv, Types
<1>2. struck # NoKey /\ struck \in Events
  BY <1>1 DEF IInv, Types
<1>3. PICK p \in 0 .. 8, k \in 0 .. 8 : InCode(struck, p, k)
  BY <1>2 DEF IInv
<1>a. /\ \/ p = k
         \/ Partial(struck, p, k)
      /\ Follows(sending, struck, k) /\ Holds(buffer, struck, p, k)
  BY <1>3 DEF InCode
<1>4. /\ k < Len(Code(struck)) /\ k + 1 \in 0 .. 8
      /\ Follows(Tail(sending), struck, k + 1)
      /\ Holds(s, struck, p, k + 1)
  BY <1>1, <1>2, <1>a, NextByte
<1>5. s \in Seq(0 .. 255) /\ Tail(sending) \in Seq(0 .. 255)
  BY <1>1, Bytewise
<1>6. Partial(struck, p, k + 1)
  BY <1>2, <1>a, <1>4, <1>5, Gathered
<1>7. Tail(sending) # << >>
  <2>1. k + 1 < Len(Code(struck))
    BY <1>2, <1>6, PartialPlaces
  <2>2. QED BY <1>2, <1>4, <1>5, <2>1, LeftToSend, Zenon
<1>8. whole => p = 0 /\ key = NoKey
  <2>1. ~ (p = k /\ sending = << >>)
    BY <1>1
  <2>2. QED BY <1>1, <1>3, <2>1 DEF InCode
<1>9. InCode(struck, p, k + 1)'
  BY <1>1, <1>4, <1>6, <1>7, <1>8 DEF InCode
<1>10. Types'
  BY <1>1, <1>5 DEF IInv, Types
<1>11. QED BY <1>1, <1>2, <1>4, <1>9, <1>10 DEF IInv

\* What Translate makes of the whole code of a key is that key.
LEMMA WholeTranslated ==
    ASSUME NEW e \in Events
    PROVE  Translate(Code(e)) = e
<1>1. \E f \in Events : Code(f) = Code(e)
  OBVIOUS
<1>2. \A f \in Events : Code(f) = Code(e) => f = e
  BY CodesDiffer
<1>3. (CHOOSE f \in Events : Code(f) = Code(e)) = e
  BY <1>1, <1>2
<1>4. QED BY <1>1, <1>3 DEF Translate

\* Bytes that are the code from its first to its last are the code.
LEMMA AllBytes ==
    ASSUME NEW e \in Events, NEW s \in Seq(0 .. 255), Len(s) = Len(Code(e)), Bytes(s, e, 0)
    PROVE  s = Code(e)
<1>1. Code(e) \in Seq(0 .. 255) /\ Len(Code(e)) \in Nat
  BY CodeBytes
<1>2. \A i \in 1 .. Len(s) : s[i] = Code(e)[i]
  BY <1>1 DEF Bytes
<1>3. QED BY <1>1, <1>2, SeqEqual

\* ByteArrives, where the handler takes the code for complete.
LEMMA RegistersKeeps ==
    ASSUME IInv, ByteArrives, ~ NeedsNextByte(Append(buffer, Head(sending)))
    PROVE  IInv'
<1> DEFINE s == Append(buffer, Head(sending))
<1>1. /\ pc # "masked" /\ sending # << >> /\ sending \in Seq(0 .. 255)
      /\ buffer \in Seq(0 .. 255)
      /\ sending' = Tail(sending) /\ buffer' = << >>
      /\ key' = IF Translate(s) = NoKey THEN key ELSE Translate(s)
      /\ pc' = pc /\ whole' = whole /\ struck' = struck
  BY DEF ByteArrives, IInv, Types
<1>2. struck # NoKey /\ struck \in Events
  BY <1>1 DEF IInv, Types
<1>3. PICK p \in 0 .. 8, k \in 0 .. 8 : InCode(struck, p, k)
  BY <1>2 DEF IInv
<1>a. /\ \/ p = k
         \/ Partial(struck, p, k)
      /\ Follows(sending, struck, k) /\ Holds(buffer, struck, p, k)
  BY <1>3 DEF InCode
<1>4. /\ k < Len(Code(struck)) /\ k + 1 \in 0 .. 8
      /\ Follows(Tail(sending), struck, k + 1)
      /\ Holds(s, struck, p, k + 1)
  BY <1>1, <1>2, <1>a, NextByte
<1>5. s \in Seq(0 .. 255) /\ Tail(sending) \in Seq(0 .. 255)
  BY <1>1, Bytewise
<1>6. p = 0 => k + 1 = Len(Code(struck))
  BY <1>2, <1>a, <1>4, <1>5, Gathered
<1>7. Translate(s) \in Events \cup {NoKey}
  BY DEF Translate
<1>8. whole => Tail(sending) = << >> /\ key' = struck
  <2> SUFFICES ASSUME whole
               PROVE  Tail(sending) = << >> /\ key' = struck
    OBVIOUS
  <2>1. p = 0
    BY <1>1, <1>3 DEF InCode
  <2>2. k + 1 = Len(Code(struck)) /\ Len(Code(struck)) \in Nat
    BY <1>2, <1>6, <2>1, CodeBytes
  <2>3. Tail(sending) = << >>
    BY <1>2, <1>4, <1>5, <2>2, LeftToSend, Zenon
  <2>4. s = Code(struck)
    <3>1. Len(s) = Len(Code(struck)) /\ Bytes(s, struck, 0)
      BY <1>4, <1>5, <2>1, <2>2 DEF Holds
    <3>2. QED BY <1>2, <1>5, <3>1, AllBytes
  <2>5. Translate(s) = struck
    BY <1>2, <2>4, WholeTranslated
  <2>6. QED BY <1>1, <1>2, <2>3, <2>5
<1>9. Holds(<< >>, struck, k + 1, k + 1)
  <2>1. k + 1 <= Len(Code(struck))
    BY <1>2, <1>4, CodeBytes
  <2>2. QED BY <2>1 DEF Bytes, Holds
<1>10. InCode(struck, k + 1, k + 1)'
  BY <1>1, <1>4, <1>8, <1>9 DEF InCode
<1>11. Types'
  BY <1>1, <1>5, <1>7 DEF IInv, Types
<1>12. QED BY <1>1, <1>2, <1>4, <1>10, <1>11 DEF IInv

\* Unmask leaves the code under way where it is.
LEMMA UnmaskKeeps ==
    ASSUME IInv, Unmask
    PROVE  IInv'
<1>1. /\ pc' = "unmasked" /\ buffer' = buffer /\ sending' = sending
      /\ struck' = struck /\ whole' = whole /\ key' = key
  BY DEF Unmask
<1>2. Types'
  BY <1>1 DEF IInv, Types
<1>3. \A p, k : InCode(struck, p, k) => InCode(struck, p, k)'
  BY <1>1 DEF InCode
<1>4. QED BY <1>1, <1>2, <1>3 DEF IInv

\* ClearScanBuffer: what is dropped is no longer missed.
LEMMA ClearKeeps ==
    ASSUME IInv, ClearScanBuffer
    PROVE  IInv'
<1>1. /\ pc' = "done" /\ buffer' = << >> /\ sending' = sending
      /\ struck' = struck /\ key' = key
      /\ whole' = (whole /\ buffer = << >>)
  BY DEF ClearScanBuffer
<1>2. Types'
  BY <1>1 DEF IInv, Types
<1>3. CASE struck = NoKey
  BY <1>1, <1>2, <1>3 DEF IInv
<1>4. CASE struck # NoKey
  <2>1. struck \in Events
    BY <1>4 DEF IInv, Types
  <2>2. PICK p \in 0 .. 8, k \in 0 .. 8 : InCode(struck, p, k)
    BY <1>4 DEF IInv
  <2>3. Holds(<< >>, struck, k, k)
    <3>1. k <= Len(Code(struck))
      BY <2>1, <2>2, CodeBytes DEF InCode, Follows, Holds, IInv, Types
    <3>2. QED BY <3>1 DEF Holds, Bytes
  <2>4. buffer = << >> => p = k
    BY <2>2 DEF InCode, Holds
  <2>5. InCode(struck, k, k)'
    BY <1>1, <2>2, <2>3, <2>4 DEF InCode
  <2>6. QED BY <1>1, <1>2, <1>4, <2>5 DEF IInv
<1>5. QED BY <1>3, <1>4

\* Every step of the driver and the keyboard keeps the invariant.
LEMMA Inductive ==
    ASSUME IInv, [Next]_vars
    PROVE  IInv'
<1>1. CASE Unmask
  BY <1>1, UnmaskKeeps
<1>2. CASE ClearScanBuffer
  BY <1>2, ClearKeeps
<1>3. CASE ByteIgnored
  BY <1>3, IgnoredKeeps
<1>4. CASE ByteArrives
  BY <1>4, WaitsKeeps, RegistersKeeps
<1>5. CASE \E e \in Events : Strike(e)
  BY <1>5, StrikeKeeps
<1>6. CASE UNCHANGED vars
  <2>1. /\ pc' = pc /\ buffer' = buffer /\ sending' = sending
        /\ struck' = struck /\ whole' = whole /\ key' = key
    BY <1>6 DEF vars
  <2>2. Types'
    BY <2>1 DEF IInv, Types
  <2>3. \A p, k : InCode(struck, p, k) => InCode(struck, p, k)'
    BY <2>1 DEF InCode
  <2>4. QED BY <2>1, <2>2, <2>3 DEF IInv
<1>7. QED BY <1>1, <1>2, <1>3, <1>4, <1>5, <1>6 DEF Next

\* The invariant gives what the runs check.
LEMMA Consequences ==
    ASSUME IInv
    PROVE  WholeCodesAreKeys /\ InStepAtTheEnd
<1>1. Len(buffer) < 8 /\ \A i \in DOMAIN buffer : buffer[i] \in 0 .. 255
  <2>1. CASE struck = NoKey
    BY <2>1 DEF IInv
  <2>2. CASE struck # NoKey
    <3>1. struck \in Events /\ buffer \in Seq(0 .. 255)
      BY <2>2 DEF IInv, Types
    <3>2. PICK p \in 0 .. 8, k \in 0 .. 8 : InCode(struck, p, k)
      BY <2>2 DEF IInv
    <3>3. p + Len(buffer) = k
      BY <3>2 DEF InCode, Holds
    <3>4. Len(buffer) < 8
      <4>1. CASE p = k
        BY <3>1, <3>3, <4>1
      <4>2. CASE Partial(struck, p, k)
        BY <3>1, <3>3, <4>2, PartialPlaces
      <4>3. QED BY <3>2, <4>1, <4>2 DEF InCode
    <3>5. \A i \in DOMAIN buffer : buffer[i] \in 0 .. 255
      BY <3>1, BytesInRange, Zenon
    <3>6. QED BY <3>4, <3>5
  <2>3. QED BY <2>1, <2>2
<1>2. TypeOK
  BY <1>1 DEF IInv, Types, TypeOK
<1>3. whole => key = IF sending = << >> THEN struck ELSE NoKey
  <2> SUFFICES ASSUME whole
               PROVE  key = IF sending = << >> THEN struck ELSE NoKey
    OBVIOUS
  <2>1. struck # NoKey
    BY DEF IInv
  <2>2. PICK p \in 0 .. 8, k \in 0 .. 8 : InCode(struck, p, k)
    BY <2>1 DEF IInv
  <2>3. QED BY <2>2 DEF InCode
<1>4. InStepAtTheEnd
  BY AtEnd DEF InStepAtTheEnd
<1>5. QED BY <1>2, <1>3, <1>4 DEF WholeCodesAreKeys

----------------------------------------------------------------------------
(* What the keyboard driver promises. *)

\* Every code of which no byte was lost registers its own key, with its last
\* byte and not before, and the handler never writes past its eight bytes
\* (__kbd_ps2_irq_handler).
THEOREM KeysDecoded == Spec => []WholeCodesAreKeys
<1>1. IInv /\ [Next]_vars => IInv'
  BY Inductive
<1>2. IInv => WholeCodesAreKeys
  BY Consequences
<1>3. QED BY Start, <1>1, <1>2, PTL DEF Spec

\* Wherever ps2_kbd_init cuts a code, the handler has nothing left over at the
\* end of it, and reads the next one from its first byte.
THEOREM InStep == Spec => []InStepAtTheEnd
<1>1. IInv /\ [Next]_vars => IInv'
  BY Inductive
<1>2. IInv => InStepAtTheEnd
  BY Consequences
<1>3. QED BY Start, <1>1, <1>2, PTL DEF Spec
=============================================================================
