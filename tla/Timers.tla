------------------------------- MODULE Timers -------------------------------
(***************************************************************************)
(* The start of the I/O APIC from the ACPI tables (initialize.c), and the  *)
(* calibration of the local APIC's timer with the programmable interval    *)
(* timer (local_timer.c, pit.c), with interrupts enabled throughout.       *)
(*                                                                         *)
(* External: the records of the MADT; the PIT, which has ticked since the  *)
(* firmware; the way of an interrupt, which may take time from the line to *)
(* the processor.  The first round of the local timer, 2^32 counts, is     *)
(* taken to be longer than the millisecond that is waited for.             *)
(***************************************************************************)
EXTENDS Irq, Sequences, FiniteSetsExt

CONSTANTS
    Delay,          \* bound: PIT_FREQUENCY / 1000, in ticks of the divisor
    Pit             \* PIT_IRQ_LINE

\* The controller's inputs are numbered from 0, and of the vectors behind the
\* exceptions there are two, one for each clock.
ASSUME TimersAssumption ==
    /\ Delay \in Nat \ {0} /\ {0, Pit} \subseteq Lines
    /\ Exceptions < LastVector
    /\ NoHandler \notin {"local", "pit"}

\* The records of the MADT that the loops look at, and one of the others.
Records ==
    [type : {"local"}] \cup [type : {"ioapic"}, id : Nat]
    \cup [type : {"override"}, source : Nat, gsi : Lines]

NoStray == 0        \* the vector of no interrupt
NoGsi == 255        \* what gsi holds before the first pit_enable

VARIABLES
    clock,          \* where the boot code is in starting the clocks
    madt,           \* the records of the MADT
    beyond,         \* what is taken for the record behind the last
    ioapic,         \* a controller 0 is in the list ioapics, which is in order
    gsi_map,        \* the line of an ISA interrupt
    vector,         \* of local_timer.c
    pit_vector, gsi,
    ticks, watching,
    stray           \* the vector of the interrupt that found no gate

clocks == <<clock, madt, beyond, ioapic, gsi_map, vector, pit_vector, gsi, ticks, watching, stray>>
firmware == <<madt, beyond>>
pit == <<pit_vector, gsi>>
stopwatch == <<ticks, watching>>

TimersInit(records, object) ==
    /\ IrqInit
    /\ clock = "off"
    /\ madt = records /\ beyond = object
    /\ ioapic = FALSE
    /\ gsi_map = [i \in Lines |-> 0]
    /\ vector = 0 /\ pit_vector = 0 /\ gsi = NoGsi
    /\ ticks = 0 /\ watching = FALSE
    /\ stray = NoStray

\* The line that a sequence of records gives an interrupt: the last override.
LineOf(irq, records) ==
    LET overrides == { i \in DOMAIN records :
                        records[i].type = "override" /\ records[i].source = irq } IN
    IF overrides = {} THEN irq ELSE records[Max(overrides)].gsi

Controllers(records) == { i \in DOMAIN records : records[i].type = "ioapic" }
Reached(records) == \E i \in Controllers(records) : records[i].id = 0
Overridden(records) ==
    { records[i].gsi : i \in {j \in DOMAIN records : records[j].type = "override"} }

\* Each of the loops goes on to the next record before it looks at one.
Walked == Append(Tail(madt), beyond)

----------------------------------------------------------------------------
Here(here, there) ==
    /\ clock = here /\ stray = NoStray
    /\ clock' = there
    /\ UNCHANGED <<firmware, stray>>

\* apic_initialize: the controllers, then the lines, each masked.  The list is in
\* order if no link is followed but those that have been set, or what was in the
\* memory of the others happens to be NULL.
InitializeApic ==
    /\ Here("off", "ready")
    /\ ioapic' = Reached(Walked)
    /\ ioapic' \/ Overridden(Walked) = {}
    /\ gsi_map' = [i \in Lines |-> LineOf(i, Walked)]
    /\ redirects' =
        [l \in Lines |->
            IF l \in Overridden(Walked) THEN [vector |-> 0, masked |-> TRUE] ELSE redirects[l]]
    /\ UNCHANGED <<vectors, handlers, pending, vector, pit, stopwatch>>

\* Only the first controller's link to the next is set before it is read: a third
\* controller is put behind whatever the second one's memory held.
RegisterAstray ==
    /\ Here("off", "lost")
    /\ Cardinality(Controllers(Walked)) > 2
    /\ UNCHANGED <<irqs, ioapic, gsi_map, vector, pit, stopwatch>>

\* Without a controller 0 the registers that are written are those at NULL, or
\* where an unset link leads: the kernel has not mapped that page.
OverrideNowhere ==
    /\ Here("off", "lost")
    /\ ~ Reached(Walked) /\ Overridden(Walked) # {}
    /\ gsi_map' = [i \in Lines |-> i]
    /\ UNCHANGED <<irqs, ioapic, vector, pit, stopwatch>>

\* local_timer_calibrate: the vector, in the timer's register, and the count
ArmLocal ==
    /\ Here("ready", "armed")
    /\ vector' = FreeVector
    /\ vectors' = vectors \cup {FreeVector}
    /\ UNCHANGED <<handlers, redirects, pending, ioapic, gsi_map, pit, stopwatch>>

SetHandler ==
    /\ Here("armed", "pit")
    /\ handlers' = Installed(vector, "local")
    /\ UNCHANGED <<vectors, redirects, pending, ioapic, gsi_map, vector, pit, stopwatch>>

(* pit_enable; it is called once, with gsi at 0xFF *)

\* A slip: the line is unmasked at once.
RedirectOpen ==
    /\ Here("pit", "install")
    /\ pit_vector' = FreeVector /\ gsi' = gsi_map[Pit]
    /\ vectors' = vectors \cup {FreeVector}
    /\ redirects' = [redirects EXCEPT ![gsi'] = [vector |-> pit_vector', masked |-> FALSE]]
    /\ UNCHANGED <<handlers, pending, ioapic, gsi_map, vector, stopwatch>>

Redirect ==
    /\ ioapic /\ Here("pit", "install")
    /\ pit_vector' = FreeVector /\ gsi' = gsi_map[Pit]
    /\ vectors' = vectors \cup {FreeVector}
    /\ redirects' = Redirected(gsi', pit_vector')
    /\ UNCHANGED <<handlers, pending, ioapic, gsi_map, vector, stopwatch>>

\* Without a controller 0 the first look at the line's entry is one at NULL.
RedirectNowhere ==
    /\ ~ ioapic /\ Here("pit", "lost")
    /\ pit_vector' = FreeVector /\ gsi' = gsi_map[Pit]
    /\ vectors' = vectors \cup {FreeVector}
    /\ UNCHANGED <<handlers, redirects, pending, ioapic, gsi_map, vector, stopwatch>>

Install ==
    /\ Here("install", "unmask")
    /\ handlers' = Installed(pit_vector, "pit")
    /\ UNCHANGED <<vectors, redirects, pending, ioapic, gsi_map, vector, pit, stopwatch>>

Unmask ==
    /\ Here("unmask", "start")
    /\ redirects' = Unmasked(gsi)
    /\ UNCHANGED <<vectors, handlers, pending, ioapic, gsi_map, vector, pit, stopwatch>>

(* pit_deadline_wait *)

StartWatch ==
    /\ Here("start", "look")
    /\ ticks' = 0 /\ watching' = TRUE
    /\ UNCHANGED <<irqs, ioapic, gsi_map, vector, pit>>

\* The tick that is looked for may come before the halt: the next one ends it.
Look ==
    /\ Here("look", IF ticks < Delay THEN "halt" ELSE "mask")
    /\ watching' = (ticks < Delay)
    /\ UNCHANGED <<irqs, ioapic, gsi_map, vector, pit, ticks>>

(* pit_disable *)

Mask ==
    /\ Here("mask", "free")
    /\ gsi' = gsi_map[Pit]
    /\ redirects' = Redirected(gsi', 0)
    /\ UNCHANGED <<vectors, handlers, pending, ioapic, gsi_map, vector, pit_vector, stopwatch>>

FreePit ==
    /\ Here("free", "frequency")
    /\ FreeOf(pit_vector)
    /\ pit_vector' = 0
    /\ UNCHANGED <<redirects, pending, ioapic, gsi_map, vector, gsi, stopwatch>>

\* local_timer_set_frequency: the timer starts on its rounds of 20 ms.
SetFrequency ==
    /\ Here("frequency", "running")
    /\ UNCHANGED <<irqs, ioapic, gsi_map, vector, pit, stopwatch>>

ClockStep ==
    \/ InitializeApic \/ RegisterAstray \/ OverrideNowhere
    \/ ArmLocal \/ SetHandler \/ Redirect \/ RedirectNowhere \/ Install \/ Unmask
    \/ StartWatch \/ Look \/ Mask \/ FreePit \/ SetFrequency

----------------------------------------------------------------------------
(* Interrupts *)

Request(v) ==
    /\ stray = NoStray
    /\ requested' = requested \cup {v}
    /\ UNCHANGED <<routing, serviced, clocks>>

\* The PIT's line is the one that all of the records give it.
PitTicks ==
    LET entry == redirects[LineOf(Pit, madt)] IN
    ~ entry.masked /\ Request(entry.vector)

LocalExpires == clock = "running" /\ Request(vector)

\* A slip: the handler does not end the interrupt.
NotEnded(v) == {v}

\* apic_local_send_eoi
Ended(v) == {}

\* The processor takes an interrupt; it leaves a halt.
Interrupt(v) ==
    /\ stray = NoStray
    /\ Deliverable(v)
    /\ requested' = requested \ {v}
    /\ clock' = IF clock = "halt" THEN "look" ELSE clock
    /\ UNCHANGED <<routing, firmware, ioapic, gsi_map, vector, pit, watching>>

\* __pit_builtin_handler; ticks is not counted past what is waited for.
PitHandler(v) ==
    /\ handlers[v] = "pit"
    /\ Interrupt(v)
    /\ ticks' = IF watching /\ ticks < Delay THEN ticks + 1 ELSE ticks
    /\ serviced' = Ended(v)
    /\ UNCHANGED stray

\* __local_timer_builtin_handler: no task is selected before the first one runs.
LocalHandler(v) ==
    /\ handlers[v] = "local"
    /\ Interrupt(v)
    /\ serviced' = Ended(v)
    /\ UNCHANGED <<ticks, stray>>

\* The gate of a freed vector is not present: the processor stops in an exception.
NoGate(v) ==
    /\ handlers[v] = NoHandler
    /\ Interrupt(v)
    /\ stray' = v /\ serviced' = {v}
    /\ UNCHANGED ticks

----------------------------------------------------------------------------
(* Correctness *)

ClocksTypeOK ==
    /\ IrqTypeOK
    /\ clock \in {"off", "lost", "ready", "armed", "pit", "install", "unmask", "start", "look",
                   "halt", "mask", "free", "frequency", "running"}
    /\ gsi_map \in [Lines -> Lines] /\ gsi \in Lines \cup {NoGsi}
    /\ vector \in vectors /\ pit_vector \in vectors
    /\ ticks \in 0 .. Delay /\ watching \in BOOLEAN
    /\ stray \in Vectors

\* What the loops over the MADT leave out or read behind it does not matter for the
\* PIT's line: it is the one that all of the records give.
TablesRead == LineOf(Pit, Walked) = LineOf(Pit, madt)

\* No interrupt finds its gate absent but one of the PIT that was on its way
\* when pit_disable masked the line and freed its vector.
StrayWasOnItsWay ==
    /\ ClocksTypeOK
    /\ stray # NoStray =>
        /\ clock \in {"frequency", "running"}
        /\ stray \notin vectors /\ stray # vector
        /\ \A l \in Lines : redirects[l].masked

\* Once the PIT is watched the calibration comes to an end, unless the loops
\* over the MADT have missed its line; a stray interrupt ends everything.
CalibrationEnds ==
    TablesRead => (clock = "start" ~> clock = "running" \/ stray # NoStray)
=============================================================================
