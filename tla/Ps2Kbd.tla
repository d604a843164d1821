------------------------------- MODULE Ps2Kbd -------------------------------
(***************************************************************************)
(* The PS/2 keyboard driver (src/kernel/src/iodev/hid/ps2/ps2_kbd.c) from  *)
(* the end of ps2_kbd_init on: its interrupt handler gathers the bytes of  *)
(* a scan code and registers the key when the code is complete.            *)
(*                                                                         *)
(* The keyboard is external: it sends the codes of scan code set 2, a byte *)
(* per interrupt, and may be in the middle of one at any time.             *)
(***************************************************************************)
EXTENDS Integers, Sequences

CONSTANTS
    Plain,      \* the keys that send one byte, by that byte
    Extended,   \* the keys that send 0xE0 and a byte, by that byte
    NoKey

VARIABLES
    pc,         \* where ps2_kbd_init is: "masked", "unmasked", "done"
    buffer,     \* __kbd_scancode_buffer, up to __kbd_scancode_buffer_pos
    sending,    \* the bytes of the current code that are still to come
    struck,     \* the event the current code stands for
    whole,      \* ghost: the handler has seen every byte of it so far
    key         \* what has been registered since the current code began

vars == <<pc, buffer, sending, struck, whole, key>>

Events ==
    [group : {"plain"}, code : Plain, up : BOOLEAN]
    \cup [group : {"extended"}, code : Extended, up : BOOLEAN]
    \cup [group : {"print_screen"}, code : {0}, up : BOOLEAN]
    \cup [group : {"pause"}, code : {0}, up : {FALSE}]

\* The keys of the table of ps2_translate_keycode: no key's byte is one that
\* announces another, or one by which the longer codes are known.
ASSUME CodesAssumption ==
    /\ Plain \subseteq 0 .. 255 \ {\hE0, \hE1, \hF0}
    /\ Extended \subseteq 0 .. 255 \ {\hE0, \hE1, \hF0, \h12, \h77, \h7C}
    /\ NoKey \notin Events

\* The code of an event, and the table of ps2_translate_keycode read from right
\* to left.
Code(e) ==
    CASE e.group = "plain" -> (IF e.up THEN <<\hF0>> ELSE << >>) \o <<e.code>>
      [] e.group = "extended" -> (IF e.up THEN <<\hE0, \hF0>> ELSE <<\hE0>>) \o <<e.code>>
      [] e.group = "print_screen" ->
            IF e.up THEN <<\hE0, \hF0, \h7C, \hE0, \hF0, \h12>>
            ELSE <<\hE0, \h12, \hE0, \h7C>>
      [] e.group = "pause" -> <<\hE1, \h14, \h77, \hE1, \hF0, \h14, \hF0, \h77>>

\* ps2_translate_keycode; the default, HID_KEYCODE_NULL, is not registered.
Translate(bytes) ==
    IF \E e \in Events : Code(e) = bytes
    THEN CHOOSE e \in Events : Code(e) = bytes
    ELSE NoKey

\* A slip: the first half of print screen's release ends a code.
NeedsNextByteShort(s) ==
    LET n == Len(s) IN
    \/ s[n] \in {\hE0, \hF0, \hE1} /\ n \in 1 .. 2
    \/ n = 2 /\ <<s[1], s[2]>> \in {<<\hE0, \h12>>, <<\hE1, \h14>>}
    \/ n = 3 /\ s[3] \in {\h77, \hE0}
    \/ n = 4 /\ s[4] \in {\hE0, \hE1}
    \/ n = 5 /\ s[5] = \hF0
    \/ n = 6 /\ s[6] = \h14
    \/ n = 7 /\ s[7] = \hF0

\* A slip: a code that begins with the pause key's byte has its eight bytes.
NeedsNextByteEight(s) ==
    LET n == Len(s) IN
    \/ s[1] = \hE1 /\ n < 8
    \/ n = 1 /\ s[1] \in {\hE0, \hF0}
    \/ n = 2 /\ (s[2] = \hF0 \/ <<s[1], s[2]>> = <<\hE0, \h12>>)
    \/ n = 3 /\ s[3] \in {\h7C, \hE0}
    \/ n = 4 /\ s[4] = \hE0
    \/ n = 5 /\ s[5] = \hF0

\* ps2_kbd_needs_next_byte
NeedsNextByte(s) ==
    LET n == Len(s) IN
    \/ n = 1 /\ s[1] \in {\hE0, \hF0, \hE1}
    \/ n = 2 /\ s[2] = \hF0
    \/ n = 2 /\ s[1] = \hE0 /\ s[2] = \h12
    \/ n = 2 /\ s[1] = \hE1 /\ s[2] = \h14
    \/ n = 3 /\ s[3] \in {\h77, \h7C, \hE0}
    \/ n = 4 /\ s[4] \in {\hE0, \hE1}
    \/ n = 5 /\ s[5] = \hF0
    \/ n = 6 /\ s[6] = \h14
    \/ n = 7 /\ s[7] = \hF0

----------------------------------------------------------------------------
Init ==
    /\ pc = "masked"
    /\ buffer = << >>
    /\ sending = << >>
    /\ struck = NoKey
    /\ whole = FALSE
    /\ key = NoKey

Strike(e) ==
    /\ sending = << >>
    /\ sending' = Code(e)
    /\ struck' = e
    /\ whole' = (buffer = << >>)
    /\ key' = NoKey
    /\ UNCHANGED <<pc, buffer>>

\* A byte that comes while ps2_kbd_init still polls is read there, as an answer
\* to a command, or overwritten.
ByteIgnored ==
    /\ pc = "masked" /\ sending # << >>
    /\ sending' = Tail(sending)
    /\ whole' = FALSE
    /\ UNCHANGED <<pc, buffer, struck, key>>

\* __kbd_ps2_irq_handler; that the set is not the supported one, that the line
\* is masked or that a command is being sent is never so after the unmasking.
ByteArrives ==
    LET s == Append(buffer, Head(sending)) IN
    /\ pc # "masked" /\ sending # << >>
    /\ sending' = Tail(sending)
    /\ IF NeedsNextByte(s)
       THEN buffer' = s /\ UNCHANGED key
       ELSE /\ buffer' = << >>
            /\ key' = IF Translate(s) = NoKey THEN key ELSE Translate(s)
    /\ UNCHANGED <<pc, struck, whole>>

\* The last calls of ps2_kbd_init
Unmask ==
    /\ pc = "masked"
    /\ pc' = "unmasked"
    /\ UNCHANGED <<buffer, sending, struck, whole, key>>

\* What the handler has gathered since then is dropped.
ClearScanBuffer ==
    /\ pc = "unmasked"
    /\ pc' = "done"
    /\ buffer' = << >>
    /\ whole' = (whole /\ buffer = << >>)
    /\ UNCHANGED <<sending, struck, key>>

Next ==
    \/ Unmask \/ ClearScanBuffer
    \/ ByteIgnored \/ ByteArrives
    \/ \E e \in Events : Strike(e)

Spec == Init /\ [][Next]_vars

----------------------------------------------------------------------------
(* Correctness *)

\* The handler never writes past the eight bytes of its buffer.
TypeOK ==
    /\ pc \in {"masked", "unmasked", "done"}
    /\ Len(buffer) < 8
    /\ \A i \in DOMAIN buffer : buffer[i] \in 0 .. 255
    /\ struck \in Events \cup {NoKey} /\ key \in Events \cup {NoKey}
    /\ whole \in BOOLEAN

\* A code of which no byte was lost registers its own key, with its last byte
\* and not before, for every key of the table.
WholeCodesAreKeys ==
    TypeOK /\ (whole => key = IF sending = << >> THEN struck ELSE NoKey)

\* Wherever the start of the driver cuts a code, the decoder is in step again
\* at the end of that code: the next one is not misread.
InStepAtTheEnd == sending = << >> => buffer = << >>
=============================================================================
