-------------------------------- MODULE Ahci --------------------------------
(***************************************************************************)
(* The AHCI driver, ahci.c, and the controller it drives.                  *)
(*                                                                         *)
(* The driver is only called by two commands of the serial shell, so all   *)
(* of it runs inside the handler of the serial interrupt, with interrupts  *)
(* disabled: beside it there are the controller and its drives, and the    *)
(* code that the interrupt cut off.                                        *)
(*                                                                         *)
(* A page of memory is what was last written over its first bytes: a       *)
(* command list (that names the table of its first slot), a command table  *)
(* (that names a buffer), a sector, or something else.  pmm_alloc_page     *)
(* gives the first page of the first free section, `fresh`; it reads it    *)
(* and then moves the section's start, which an interrupt may come         *)
(* between.  pmm_alloc_pool of no pages gives that page without taking it. *)
(***************************************************************************)
EXTENDS Integers, FiniteSets

CONSTANTS
    PortCount,      \* AHCI_CONTROLLER_PORT_COUNT: 32
    MappedPorts,    \* the ports with their registers in the controller's first
                    \* page, which is all that is mapped of it: 30
    Machines,       \* what the machine is: see MachineAssumption
    LastPage,       \* bound: pages that are numbered
    MaxGiven        \* bound: pages that other code takes

ASSUME MachineAssumption ==
    /\ PortCount \in Nat \ {0} /\ MappedPorts \in Nat
    /\ LastPage \in Nat \ {0} /\ MaxGiven \in Nat
    /\ \A m \in Machines :
        /\ m.controller \in {"none", "no_bar", "ahci"}
        /\ m.implemented \subseteq 0 .. PortCount - 1
        /\ m.kind \in [0 .. PortCount - 1 -> {"none", "SATA", "SATAPI"}]
        /\ m.running \in BOOLEAN    \* the firmware left the engines running
        /\ m.busy \subseteq 0 .. PortCount - 1  \* the drives still spinning up

Ports == 0 .. PortCount - 1
Pages == 1 .. LastPage
NoPage == 0

Content(kind, of) == [kind |-> kind, of |-> of]
Clear == Content("clear", 0)

VARIABLES
    machine,        \* the machine this is
    found,          \* the controller's entry in pci_function_cache has its base
    checked,        \* _ahci_controller_checked
    loaded,         \* _ahci_driver_loaded
    drives,         \* drive_ports: the ports with a drive handle
    hba,            \* the controller's registers, for each port
    mem,            \* the pages; 0 stands for the firmware's
    fresh,          \* the start of the first free section
    base,           \* what the code an interrupt cut off has read of it, or NoPage
    at,             \* where the driver is
    command,        \* the command that called it
    port,           \* the port its loop has come to
    buffer,         \* ahci_debug_print_port's buffer
    good,           \* what the last read returned
    fault,          \* the processor stopped in isr_exception_handler
    taken,          \* ghost: the pages pmm_alloc_page gave the driver
    given,          \* ghost: the pages it gave other code
    torn            \* ghost: the driver took pages between the two steps of the
                    \* code it cut off; the model follows it no further

driver == <<checked, loaded, drives>>
call == <<command, port, buffer, good>>
pages == <<fresh, taken, torn>>     \* what the driver's taking of pages changes
others == <<base, given>>
ahci == <<machine, found, driver, hba, mem, pages, others, at, call, fault>>

AhciInit ==
    /\ machine \in Machines
    /\ found = FALSE /\ checked = FALSE /\ loaded = FALSE
    /\ drives = {}
    /\ hba = [p \in Ports |->
                [st |-> machine.running, fre |-> machine.running,
                 cr |-> machine.running, fr |-> machine.running,
                 list |-> NoPage, busy |-> p \in machine.busy,
                 ci |-> FALSE, tfes |-> FALSE, failed |-> FALSE]]
    /\ mem = [n \in {NoPage} \cup Pages |-> Clear]
    /\ fresh = 1 /\ base = NoPage
    /\ at = "idle"
    /\ command = "lsdisks" /\ port = 0 /\ buffer = NoPage /\ good = FALSE
    /\ fault = FALSE
    /\ taken = {} /\ given = {} /\ torn = FALSE

----------------------------------------------------------------------------
(* Loading the driver *)

Step(here, there) ==
    /\ at = here /\ ~ fault /\ ~ torn
    /\ at' = there
    /\ UNCHANGED <<machine, found, others>>

\* A slip: the section's start moves once for both pages.
TakeOne(n) ==
    /\ fresh' = fresh + 1
    /\ taken' = taken \cup fresh .. fresh + n - 1
    /\ torn' = (base # NoPage)

\* n calls of pmm_alloc_page.
Take(n) ==
    /\ fresh' = fresh + n
    /\ taken' = taken \cup fresh .. fresh + n - 1
    /\ torn' = (base # NoPage)

\* The next port from p on that has a drive, or PortCount.
NextDrive(from, set) ==
    LET rest == {p \in set : p >= from} IN
    IF rest = {} THEN PortCount ELSE CHOOSE p \in rest : \A q \in rest : p <= q

\* A slip: the loop over the ports starts as that over the COM ports does.
FromOne(set) == NextDrive(1, set)

FirstDrive(set) == NextDrive(0, set)

\* Where a command goes on when the driver is loaded, or found not to be.
Body == IF command = "disktest" /\ loaded THEN "dump" ELSE "done"

\* ahci_driver_available, when _ahci_driver_load_pci has run before.
Available ==
    /\ Step("load", Body)
    /\ checked
    /\ port' = 0
    /\ UNCHANGED <<driver, hba, mem, pages, command, buffer, good, fault>>

\* find_device(...)->base: there is no check that a device was found, and an entry
\* that is counted has no base yet.
LoadNothing ==
    /\ Step("load", "lost")
    /\ ~ checked /\ ~ found
    /\ fault' = TRUE
    /\ UNCHANGED <<driver, hba, mem, pages, call>>

LoadNoBar ==
    /\ Step("load", Body)
    /\ ~ checked /\ found /\ machine.controller = "no_bar"
    /\ checked' = TRUE
    /\ UNCHANGED <<loaded, drives, hba, mem, pages, call, fault>>

(* ... up to the end of ahci_controller_probe_ports, which registers each port *)
(* implemented where ahci_controller_classify_port finds a SATA or SATAPI      *)
(* device.                                                                     *)

Beyond == {p \in machine.implemented : p >= MappedPorts}

LoadPorts(there) ==
    /\ Step("load", there)
    /\ ~ checked /\ found /\ machine.controller = "ahci"
    /\ Take(1)
    /\ mem' = [mem EXCEPT ![fresh] = Content("handles", 0)]
    /\ checked' = TRUE /\ loaded' = TRUE
    /\ drives' = {p \in machine.implemented \ Beyond : machine.kind[p] # "none"}
    /\ UNCHANGED <<hba, command, buffer, good>>

LoadDriver ==
    /\ LoadPorts("configure")
    /\ Beyond = {}
    /\ port' = FirstDrive(drives')
    /\ UNCHANGED fault

\* The registers of a port behind the page that is mapped.
LoadBeyond ==
    /\ LoadPorts("lost")
    /\ Beyond # {}
    /\ fault' = TRUE
    /\ UNCHANGED port

(* ahci_controller_configure_port, for each port with a drive *)

CommandStop ==
    /\ Step("configure", "halt")
    /\ port < PortCount
    /\ hba' = [hba EXCEPT ![port].st = FALSE, ![port].fre = FALSE]
    /\ UNCHANGED <<driver, mem, pages, call, fault>>

\* hlt, with interrupts disabled: only a system management interrupt ends it and
\* lets the driver go on, and nothing says that one comes.  (A non-maskable one ends
\* in isr_exception_handler, and is left out.)
Wake ==
    /\ Step("halt", "poll")
    /\ UNCHANGED <<driver, hba, mem, pages, call, fault>>

\* A slip: only the command engine is looked at.
CommandsStopped(p) == ~ hba[p].cr

Stopped(p) == ~ hba[p].fr /\ ~ hba[p].cr

StillRunning ==
    /\ Step("poll", "halt")
    /\ ~ Stopped(port)
    /\ UNCHANGED <<driver, hba, mem, pages, call, fault>>

\* The pages of a new command list and of received FISes, and 32 command tables
\* of 256 bytes: cmd_table_size / PAGING_PAGE_SIZE, the pages asked for, is 0.
Lists == [list |-> fresh, fis |-> fresh + 1, tables |-> fresh + 2]

Rebase ==
    /\ Step("poll", "start")
    /\ Stopped(port)
    /\ hba' = [hba EXCEPT ![port].list = Lists.list]
    /\ mem' = [mem EXCEPT ![Lists.fis] = Clear, ![Lists.tables] = Clear,
                           ![Lists.tables + 1] = Clear,
                           ![Lists.list] = Content("list", Lists.tables)]
    /\ Take(2)
    /\ UNCHANGED <<driver, call, fault>>

\* ahci_drive_command_start: it waits until the engine has stopped.
CommandStart ==
    /\ Step("start", "configure")
    /\ ~ hba[port].cr
    /\ hba' = [hba EXCEPT ![port].st = TRUE, ![port].fre = TRUE]
    /\ port' = NextDrive(port + 1, drives)
    /\ UNCHANGED <<driver, mem, pages, command, buffer, good, fault>>

Configured ==
    /\ Step("configure", Body)
    /\ port = PortCount
    /\ port' = 0
    /\ UNCHANGED <<driver, hba, mem, pages, command, buffer, good, fault>>

----------------------------------------------------------------------------
(* __uartsh_disk_dump, and ahci_drive_command_read_wait for each SATA drive *)

Turn == NextDrive(port, drives)

\* A drive that is not SATA is only told of.
SkipDrive ==
    /\ Step("dump", "dump")
    /\ Turn < PortCount /\ machine.kind[Turn] # "SATA"
    /\ port' = Turn + 1
    /\ UNCHANGED <<driver, hba, mem, pages, command, buffer, good, fault>>

DumpDone ==
    /\ Step("dump", "done")
    /\ Turn = PortCount
    /\ UNCHANGED <<driver, hba, mem, pages, call, fault>>

AllocBuffer ==
    /\ Step("dump", "build")
    /\ Turn < PortCount /\ machine.kind[Turn] = "SATA"
    /\ port' = Turn
    /\ buffer' = fresh
    /\ mem' = [mem EXCEPT ![fresh] = Content("buffer", 0)]
    /\ Take(1)
    /\ UNCHANGED <<driver, hba, command, good, fault>>

\* The first header of the list names the table; the table names the buffer.
Table(p) == mem[hba[p].list].of

\* A list that another port's table has been written over: its header 0 is now
\* a command FIS, which names a table at 16 GiB.
BuildWild ==
    /\ Step("build", "lost")
    /\ mem[hba[port].list].kind # "list"
    /\ fault' = TRUE
    /\ UNCHANGED <<driver, hba, mem, pages, call>>

BuildCommand ==
    /\ Step("build", "ready")
    /\ mem[hba[port].list].kind = "list"
    /\ hba' = [hba EXCEPT ![port].tfes = FALSE]
    /\ mem' = [mem EXCEPT ![Table(port)] = Content("table", buffer)]
    /\ UNCHANGED <<driver, pages, call, fault>>

\* The drive stays busy until the watchdog has counted to its end.
WatchdogEnds ==
    /\ Step("ready", "print")
    /\ hba[port].busy
    /\ good' = FALSE
    /\ UNCHANGED <<driver, hba, mem, pages, command, port, buffer, fault>>

\* A slip: the command is issued without a look at the drive.
IssueBusy ==
    /\ Step("ready", "wait")
    /\ hba' = [hba EXCEPT ![port].ci = TRUE]
    /\ UNCHANGED <<driver, mem, pages, call, fault>>

Issue ==
    /\ Step("ready", "wait")
    /\ ~ hba[port].busy
    /\ hba' = [hba EXCEPT ![port].ci = TRUE]
    /\ UNCHANGED <<driver, mem, pages, call, fault>>

\* A slip: a command that failed is taken for one that is done.
FailedIsDone(p) == TRUE

ReadResult(p) == ~ hba[p].tfes

\* The wait has no watchdog.
ReadEnds ==
    /\ Step("wait", "print")
    /\ hba[port].tfes \/ ~ hba[port].ci
    /\ good' = ReadResult(port)
    /\ UNCHANGED <<driver, hba, mem, pages, command, port, buffer, fault>>

\* The buffer is printed whatever the read returned.
PrintSector ==
    /\ Step("print", "dump")
    /\ port' = port + 1
    /\ UNCHANGED <<driver, hba, mem, pages, command, buffer, good, fault>>

DriverStep ==
    \/ Available \/ LoadNothing \/ LoadNoBar \/ LoadDriver \/ LoadBeyond
    \/ CommandStop \/ StillRunning \/ Rebase \/ CommandStart \/ Configured
    \/ SkipDrive \/ DumpDone \/ AllocBuffer \/ BuildWild \/ BuildCommand
    \/ WatchdogEnds \/ Issue \/ ReadEnds \/ PrintSector

----------------------------------------------------------------------------
(* The controller and the drives *)

Register(p, values) ==
    /\ hba' = [hba EXCEPT ![p] = values]
    /\ UNCHANGED <<machine, found, driver, pages, others, at, call, fault>>

\* The engines follow the bits that start and stop them, in their own time.
EngineFollows(p) ==
    /\ hba[p].cr # hba[p].st
    /\ Register(p, [hba[p] EXCEPT !.cr = hba[p].st, !.failed = FALSE])
    /\ UNCHANGED mem

FisEngineFollows(p) ==
    /\ hba[p].fr # hba[p].fre
    /\ Register(p, [hba[p] EXCEPT !.fr = hba[p].fre])
    /\ UNCHANGED mem

SpinsUp(p) ==
    /\ hba[p].busy
    /\ Register(p, [hba[p] EXCEPT !.busy = FALSE])
    /\ UNCHANGED mem

Outstanding(p) == hba[p].cr /\ hba[p].ci /\ ~ hba[p].busy /\ ~ hba[p].failed

\* The drive's sector 0 goes to the buffer the table names.
Completes(p) ==
    /\ Outstanding(p)
    /\ Register(p, [hba[p] EXCEPT !.ci = FALSE])
    /\ mem' = [mem EXCEPT ![mem[Table(p)].of] = Content("sector", p)]

\* An error: the command stays outstanding, and the engine does nothing more
\* until it is stopped and started again.
Fails(p) ==
    /\ Outstanding(p)
    /\ Register(p, [hba[p] EXCEPT !.tfes = TRUE, !.failed = TRUE])
    /\ UNCHANGED mem

Answers(p) == Completes(p) \/ Fails(p)

ControllerStep ==
    \E p \in Ports :
        EngineFollows(p) \/ FisEngineFollows(p) \/ SpinsUp(p) \/ Answers(p)

----------------------------------------------------------------------------
(* The code the driver cuts off: it takes pages too, in two steps *)

ReadSection ==
    /\ base = NoPage /\ Cardinality(given) < MaxGiven
    /\ base' = fresh
    /\ UNCHANGED <<machine, found, driver, hba, mem, pages, given, at, call, fault>>

MoveSection ==
    /\ base # NoPage
    /\ base' = NoPage
    /\ fresh' = fresh + 1
    /\ given' = given \cup {base}
    /\ UNCHANGED <<machine, found, driver, hba, mem, taken, torn, at, call, fault>>

\* pci_conf_load_cache sets the base of an entry: the controller's or another's.
SetEntry ==
    /\ found' \in {found, machine.controller # "none"}
    /\ UNCHANGED <<machine, driver, hba, mem, pages, others, at, call, fault>>

----------------------------------------------------------------------------

AhciTypeOK ==
    /\ machine \in Machines
    /\ {found, checked, loaded, good, fault, torn} \subseteq BOOLEAN
    /\ drives \subseteq Ports
    /\ {fresh, base, buffer} \subseteq 0 .. LastPage
    /\ port \in 0 .. PortCount
    /\ \A p \in Ports : hba[p].list \in 0 .. LastPage

\* What disktest prints of a read that returned true is sector 0 of the drive:
\* the buffer has it, though the page behind it or before it may be the command
\* table that the read went through (ahci_drive_command_read_wait).
TrueMeansRead ==
    at = "print" /\ good => mem[buffer] = Content("sector", port)

\* A port's lists are replaced only while both of its engines stand still
\* (ahci_controller_configure_port, between its stop and its start).
EnginesStandStill ==
    [][\A p \in Ports : hba'[p].list # hba[p].list =>
            ~ hba[p].cr /\ ~ hba[p].fr /\ ~ hba[p].st]_ahci

\* The driver brings the processor down only before its controller is among the PCI
\* functions known (or on a machine that has none), on a controller with ports
\* behind the page that is mapped, or with a second drive, whose lists are where the
\* first one's command tables are.
DriverFaultExplained ==
    at = "lost" => \/ ~ found
                   \/ Beyond # {}
                   \/ \E p, q \in drives : p # q /\ Table(p) = hba[q].list

\* The pages of a configured port's command tables.
TablePages(p) == {hba[p].list + 2, hba[p].list + 3}

\* Other code is given no page that pmm_alloc_page gave the driver, and no page of a
\* drive's command tables, which the driver uses without having taken it, but the
\* tables of the drive that was configured last (ahci_controller_configure_port) -
\* unless a disk command cut pmm_alloc_page off between its reading the first free
\* section and its moving the start of it.
PagesApart ==
    torn \/ /\ taken \cap given = {}
            /\ \A p, q \in Ports :
                NoPage < hba[p].list /\ hba[p].list < hba[q].list =>
                    TablePages(p) \cap given = {}

\* A read ends, well or in an error, but on a drive that failed before: nothing
\* restarts its engine, and the wait for the answer has no watchdog.
ReadsEnd ==
    (at = "wait" /\ ~ hba[port].failed) ~> at # "wait"
==============================================================================
