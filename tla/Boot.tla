-------------------------------- MODULE Boot --------------------------------
(***************************************************************************)
(* The boot code (limine.s), in the order of its calls: the memory map,    *)
(* the clocks, the first program; the rest of it has modules of its own or *)
(* is left out.  Interrupts come between its steps.                        *)
(***************************************************************************)
EXTENDS MemoryMap, Timers, Loader

CONSTANT
    Machines        \* what the firmware, the boot loader and the file may be

ASSUME MachinesAssumption ==
    \A m \in Machines :
        /\ m.entries \in Seq(Entries) /\ Sorted(m.entries)
        /\ m.madt \in Seq(Records) \ {<< >>} /\ m.beyond \in Records
        /\ m.file \in [magic : Int, native : BOOLEAN, headers : Seq(Headers)]
        /\ \E room \in 0 .. Top : Fits(m.file, room)

vars == <<memoryMap, irqs, clocks, loader>>

Init ==
    \E m \in Machines :
        MapInit(m.entries, m.behind) /\ TimersInit(m.madt, m.beyond) /\ LoaderInit(m.file)

ReadMap == MapStep /\ UNCHANGED <<irqs, clocks, loader>>

StartClocks ==
    /\ mapping = "done"
    /\ ClockStep
    /\ UNCHANGED <<memoryMap, loader>>

LoadProgram ==
    /\ clock = "running" /\ stray = NoStray
    /\ LoaderStep
    /\ UNCHANGED <<memoryMap, irqs, clocks>>

BootStep == ReadMap \/ StartClocks \/ LoadProgram

Tick == (PitTicks \/ LocalExpires) /\ UNCHANGED <<memoryMap, loader>>

Handle ==
    /\ \E v \in requested : PitHandler(v) \/ LocalHandler(v) \/ NoGate(v)
    /\ UNCHANGED <<memoryMap, loader>>

Next == BootStep \/ Tick \/ Handle

\* The boot processor runs, the PIT ticks, and what is requested is delivered.
Spec ==
    /\ Init /\ [][Next]_vars
    /\ WF_vars(BootStep)
    /\ WF_vars(PitTicks /\ UNCHANGED <<memoryMap, loader>>)
    /\ WF_vars(Handle)

----------------------------------------------------------------------------
(* Correctness *)

=============================================================================
