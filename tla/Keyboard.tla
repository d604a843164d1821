------------------------------ MODULE Keyboard ------------------------------
(***************************************************************************)
(* Key codes on their way from the keyboard interrupt to the application:  *)
(* hid.c and kb_man.c of the kernel, kbd.c of prism, the one program the   *)
(* kernel starts.  Kernel and program share a page: key codes, and behind  *)
(* them the number of codes.  System calls run with interrupts enabled, so *)
(* a key may arrive between any two steps of kb_man and of kbd_update.     *)
(***************************************************************************)
EXTENDS Integers, Sequences

CONSTANTS
    Shifts,             \* the make codes of the shift keys: the left and the right one
    BreakOf,            \* and the break code of each
    Others,             \* key codes that change no modifier
    Capacity,           \* key codes the page holds: PAGING_PAGE_SIZE - 2
    LowByte,            \* 2^8: the size field's low byte follows the last code
    Dirt,               \* values the size field of a fresh page may have
    MaxKeys             \* bound: keys that arrive

Breaks == {BreakOf[key] : key \in Shifts}

ASSUME SizesAssumption ==
    /\ Capacity \in Nat \ {0} /\ LowByte \in Nat \ {0} /\ MaxKeys \in Nat
    /\ Dirt \subseteq Nat
ASSUME CodesAssumption ==
    Shifts \cap (Breaks \cup Others) = {} /\ Breaks \cap Others = {}

Codes == Shifts \cup Breaks \cup Others

Starting == {"take", "alloc", "point", "zero", "check"}

\* prism's one flag for both shift keys, after a code: each sets it when it goes
\* down and clears it when it comes up, whether or not the other is down.
Pressed(shift, code) == code \in Shifts \/ (shift /\ code \notin Breaks)

\* The shift keys that are down, after a code.
Down(keys, code) ==
    (keys \cup (Shifts \cap {code})) \ {key \in Shifts : BreakOf[key] = code}

VARIABLES
    current_pid,        \* the program holds the keyboard (it is not -1)
    current_buffer,     \* kb_man's pointer to the page is not NULL
    current_size,       \* its pointer to the size field is not NULL
    codes,              \* the page: which arrival each place holds, 0 for none
    size,               \* the page: the size field
    arrived,            \* the codes that have arrived, first to last
    pc,                 \* where prism is, kb_man's steps included
    buffered,           \* kbd_update's buffered_keys
    next,               \* kbd_update's i
    kb_shift,           \* _kb_shift
    held,               \* ghost: the shift keys that are down, struck since prism started
    crossed,            \* ghost: the last shift code was of a release that left
                        \* another shift key down
    seen,               \* ghost: the arrival the listeners saw last
    owed,               \* ghost: arrivals saved while no update was running
    missed              \* ghost: one has arrived when it was not, since prism started

kernel == <<current_pid, current_buffer, current_size>>
page == <<codes, size>>
update == <<buffered, next, kb_shift>>
ghosts == <<held, crossed, seen, owed, missed>>
vars == <<current_pid, current_buffer, current_size, codes, size, arrived, pc,
          buffered, next, kb_shift, held, crossed, seen, owed, missed>>

Init ==
    /\ current_pid = FALSE /\ current_buffer = FALSE /\ current_size = FALSE
    /\ codes = [i \in 0 .. Capacity - 1 |-> 0]
    /\ size \in Dirt
    /\ arrived = << >>
    /\ pc = "take"
    /\ buffered = 0 /\ next = 0
    /\ kb_shift = FALSE /\ held = {} /\ crossed = FALSE
    /\ seen = 0 /\ owed = {} /\ missed = FALSE

----------------------------------------------------------------------------
(* The keyboard interrupt: hid_register_keystroke, __kb_man_save_key *)

Saved == current_pid /\ current_buffer /\ current_size /\ size < Capacity

KeyArrives(code) ==
    LET id == Len(arrived) + 1 IN
    /\ Len(arrived) < MaxKeys
    /\ arrived' = Append(arrived, code)
    /\ IF pc \in Starting
       THEN UNCHANGED <<held, crossed>>
       ELSE /\ held' = Down(held, code)
            /\ crossed' = IF code \in Shifts \cup Breaks
                          THEN code \in Breaks /\ held' # {}
                          ELSE crossed
    /\ IF Saved
       THEN /\ codes' = [codes EXCEPT ![size] = id]
            /\ size' = size + 1
            /\ owed' = IF pc = "read" THEN owed \cup {id} ELSE owed
       ELSE UNCHANGED <<codes, size, owed>>
    /\ missed' = (missed \/ ~ Saved \/ pc # "read") /\ pc \notin Starting
    /\ UNCHANGED <<kernel, pc, buffered, next, kb_shift, seen>>

(* kb_man(true), the system call in which prism's kbd_init begins *)

\* No program holds the keyboard: only this one runs, and it asks once.
TakeKeyboard ==
    /\ pc = "take"
    /\ current_pid' = TRUE
    /\ pc' = "alloc"
    /\ UNCHANGED <<current_buffer, current_size, page, arrived, update, ghosts>>

AllocBuffer ==
    /\ pc = "alloc"
    /\ current_buffer' = TRUE
    /\ pc' = "point"
    /\ UNCHANGED <<current_pid, current_size, page, arrived, update, ghosts>>

PointAtSize ==
    /\ pc = "point"
    /\ current_size' = TRUE
    /\ pc' = "zero"
    /\ UNCHANGED <<current_pid, current_buffer, page, arrived, update, ghosts>>

\* A slip: the fresh page's size field is left as it is.
ZeroNothing ==
    /\ pc = "zero"
    /\ pc' = "check"
    /\ UNCHANGED <<kernel, page, arrived, update, ghosts>>

ZeroSize ==
    /\ pc = "zero"
    /\ size' = 0
    /\ pc' = "check"
    /\ UNCHANGED <<kernel, codes, arrived, update, ghosts>>

(* The rest of kbd_init, and tui_start *)

\* kbd_init returns false if there are keys; then main returns.
CheckEmpty ==
    /\ pc = "check"
    /\ pc' = IF size = 0 THEN "read" ELSE "failed"
    /\ UNCHANGED <<kernel, page, arrived, update, ghosts>>

(* kbd_update, which tui_update calls in a loop *)

\* A slip: an update stops one key short.
ReadSizeShort ==
    /\ pc = "read" /\ size # 0
    /\ buffered' = size - 1 /\ next' = 0
    /\ pc' = "deliver"
    /\ UNCHANGED <<kernel, page, arrived, kb_shift, ghosts>>

\* A slip: an update waits for a second key.
ReadSizeOfTwo ==
    /\ pc = "read" /\ size > 1
    /\ buffered' = size /\ next' = 0
    /\ pc' = "deliver"
    /\ UNCHANGED <<kernel, page, arrived, kb_shift, ghosts>>

ReadSize ==
    /\ pc = "read" /\ size # 0
    /\ buffered' = size /\ next' = 0
    /\ pc' = "deliver"
    /\ UNCHANGED <<kernel, page, arrived, kb_shift, ghosts>>

\* A slip: the keys are taken from the last to the first.
DeliverLast ==
    /\ pc = "deliver" /\ next < buffered
    /\ LET id == codes[buffered - 1 - next] IN
        /\ seen' = id
        /\ owed' = owed \ {id}
        /\ kb_shift' = IF id = 0 THEN kb_shift ELSE Pressed(kb_shift, arrived[id])
    /\ next' = next + 1
    /\ UNCHANGED <<kernel, page, arrived, pc, buffered, held, crossed, missed>>

\* A key is taken from the page, tracked, and given to the listeners.
DeliverKey ==
    /\ pc = "deliver" /\ next < buffered
    /\ LET id == codes[next] IN
        /\ seen' = id
        /\ owed' = owed \ {id}
        /\ kb_shift' = IF id = 0 THEN kb_shift ELSE Pressed(kb_shift, arrived[id])
    /\ next' = next + 1
    /\ UNCHANGED <<kernel, page, arrived, pc, buffered, held, crossed, missed>>

\* memset of one byte more than there were keys: behind a full buffer that
\* byte is the low one of the size field.
ClearKeys ==
    /\ pc = "deliver" /\ next = buffered
    /\ codes' = [i \in DOMAIN codes |-> IF i <= buffered THEN 0 ELSE codes[i]]
    /\ size' = IF buffered = Capacity THEN size - (size % LowByte) ELSE size
    /\ pc' = "reset"
    /\ UNCHANGED <<kernel, arrived, update, ghosts>>

\* A slip: the size field is not reset.
ResetNothing ==
    /\ pc = "reset"
    /\ pc' = "read"
    /\ UNCHANGED <<kernel, page, arrived, update, ghosts>>

ResetSize ==
    /\ pc = "reset"
    /\ size' = 0
    /\ pc' = "read"
    /\ UNCHANGED <<kernel, codes, arrived, update, ghosts>>

Program ==
    \/ TakeKeyboard \/ AllocBuffer \/ PointAtSize \/ ZeroSize
    \/ CheckEmpty
    \/ ReadSize \/ DeliverKey \/ ClearKeys \/ ResetSize

Next == Program \/ \E code \in Codes : KeyArrives(code)

Spec == Init /\ [][Next]_vars
FairSpec == Spec /\ WF_vars(Program)

----------------------------------------------------------------------------
(* Correctness *)

TypeOK ==
    /\ current_pid \in BOOLEAN /\ current_buffer \in BOOLEAN /\ current_size \in BOOLEAN
    /\ codes \in [0 .. Capacity - 1 -> 0 .. Len(arrived)]
    /\ size \in 0 .. Capacity \cup Dirt
    /\ arrived \in Seq(Codes) /\ Len(arrived) <= MaxKeys
    /\ pc \in Starting \cup {"failed", "read", "deliver", "reset"}
    /\ buffered \in 0 .. Capacity /\ next \in 0 .. buffered
    /\ kb_shift \in BOOLEAN /\ held \subseteq Shifts /\ crossed \in BOOLEAN
    /\ seen \in 0 .. Len(arrived) /\ owed \subseteq 1 .. Len(arrived)
    /\ missed \in BOOLEAN

\* What the page counts as keys are keys, in the order of their arrival, and
\* none of them was seen in an earlier update: neither the fresh page's
\* contents nor a key that an update has handled is ever taken for a new one.
\* (Between the memset and the reset of the size nothing reads the page.)
BufferInOrder ==
    /\ TypeOK
    /\ pc \notin Starting \cup {"reset"} =>
        /\ size <= Capacity
        /\ \A i, j \in 0 .. size - 1 : i < j => codes[i] < codes[j]
        /\ \A i \in 0 .. size - 1 : pc # "deliver" \/ i >= next => codes[i] > seen

\* The listeners see each key at most once, in the order of arrival.
SeenInOrder == [][seen' # seen => seen' > seen]_vars

\* prism gives up only if a key was struck between kb_man's clearing of the
\* size field and kbd_init's look at it.
StartsUnlessKeyEarly ==
    [][pc' = "failed" /\ pc = "check" => \E i \in DOMAIN codes : codes[i] # 0 /\ i < size]_vars

\* A key saved while no update runs is seen, however many keys arrive while
\* updates run.
OwedKeysAreSeen == \A id \in 1 .. MaxKeys : id \in owed ~> seen >= id

\* When prism has handled every key on the page, it takes shift to be down exactly
\* if a shift key is down, with two exceptions.  A key that arrived during an
\* update or found the page full is lost, with the shift it may have been.  And
\* of two shift keys that were down together, the release of one ends shift
\* until one is struck again, though the other is still down.
ShiftIsTracked == pc = "read" /\ size = 0 /\ ~ missed => kb_shift = (held # {} /\ ~ crossed)
=============================================================================
