---------------------------- MODULE SerialProofs ----------------------------
(***************************************************************************)
(* Of the serial console and the disk driver behind it: that pages have    *)
(* one owner, that a port's lists are replaced only under engines at rest, *)
(* that an unmasked line leads to a handler, that a character that is held *)
(* is going to be read, that the command line is what was typed, that a    *)
(* read that returned true has read, and why the processor stops in a      *)
(* fault; for any number of ports, vectors, lines, pages and characters.   *)
(***************************************************************************)
EXTENDS Serial, SequencesExt, SequenceTheorems, FiniteSetTheorems, WellFoundedInduction, TLAPS

Less == {pair \in Nat \X Nat : pair[1] < pair[2]}

\* A set of natural numbers has a least element.
LEMMA LeastNatural ==
    ASSUME NEW T, T \subseteq Nat, T # {}
    PROVE  \E x \in T : \A y \in T : x <= y
<1>1. IsWellFoundedOn(Less, Nat)
  BY NatLessThanWellFounded DEF OpToRel, Less
<1>2. PICK x \in T : \A y \in T : ~ (<<y, x>> \in Less)
  BY <1>1, WFMin
<1>3. ASSUME NEW y \in T
      PROVE  x <= y
  <2>1. <<y, x>> \in Nat \X Nat /\ <<y, x>>[1] = y /\ <<y, x>>[2] = x
    OBVIOUS
  <2>2. ~ (y < x)
    BY <1>2, <2>1 DEF Less
  <2> QED
    BY <2>2
<1> QED
  BY <1>3

(* The invariant *)

\* What is given out lies below the first free section; the driver and the kernel
\* share nothing; the kernel has read the start of the section that is still first.
PagesInv ==
    /\ fresh \in Nat \ {0}
    /\ base # NoPage => pc \in Allocating
    /\ \/ torn
       \/ /\ base \in {NoPage, fresh}
          /\ taken \cap given = {}
          /\ \A n \in taken \cup given : n \in Nat /\ n < fresh

Registers == [st : BOOLEAN, fre : BOOLEAN, cr : BOOLEAN, fr : BOOLEAN, list : Nat,
              busy : BOOLEAN, ci : BOOLEAN, tfes : BOOLEAN, failed : BOOLEAN]

\* A port whose engines are waited for has been told to stop them.
EnginesInv ==
    /\ hba \in [Ports -> Registers]
    /\ at \in {"halt", "poll"} /\ port \in Ports => ~ hba[port].st

\* The selected line, once there is one, leads to the serial handler; no other
\* line is unmasked.
RoutingInv ==
    /\ machine \in Machines
    /\ ~ RoutingHit =>
        /\ DOMAIN handlers = Vectors
        /\ redirects \in [Lines -> [vector : Vectors, masked : BOOLEAN]]
        /\ uart \in [masked : BOOLEAN, gsi : {0, 3, 4}, vector : Vectors]
        /\ pc \in {"probe", "select"} =>
            /\ vectors = 0 .. Exceptions - 1
            /\ uart.gsi = 0 /\ uart.vector = 0
        /\ uart.gsi # 0 =>
            /\ uart.vector \in vectors \ (0 .. Exceptions - 1)
            /\ handlers[uart.vector] = "uart"
            /\ redirects[uart.gsi].vector = uart.vector
        /\ \A l \in Lines : redirects[l].masked \/ (uart.gsi # 0 /\ l = uart.gsi)

HasInput == machine.present \cap {1, 2} # {}

\* As long as no character comes early an interrupt is requested for the one that
\* is held, and none is left in service.
HeardInv ==
    ~ RoutingHit /\ ~ early =>
        /\ pc \in Starting => held = NoChar /\ requested = {} /\ handler = "out"
        /\ pc = "select" => available = machine.present \ {Coms}
        /\ pc \notin {"probe", "select"} /\ HasInput => uart.gsi # 0
        /\ pc \notin {"probe", "select", "enable"} /\ HasInput => enabled
        /\ pc \notin Starting =>
            ~ uart.masked /\ (HasInput => ~ redirects[uart.gsi].masked)
        /\ requested \subseteq {uart.vector}
        /\ handler = "out" => serviced = {}
        /\ pc \notin Starting /\ handler = "out" /\ held # NoChar =>
            uart.vector \in requested

\* The command buffer, while it is being set up too.
LineInv ==
    /\ index \in Places
    /\ text \in [Places -> Printed \cup {Nul}]
    /\ typed \in Seq(Printed)
    /\ pc \in Starting \cup {"start"} => ~ opened
    /\ ~ opened => index = 0 /\ typed = << >> /\ ~ damaged /\ pc \in Starting \cup {"start"}
    /\ pc \in {"index", "memset"} /\ ~ damaged => index = 0 /\ typed = << >>
    /\ LineIsTyped

----------------------------------------------------------------------------
(* What the steps of the driver and of the controller leave alone *)

\* What the steps of the disk driver leave alone.
LEMMA DriverFrame ==
    DriverStep \/ Wake => UNCHANGED <<machine, command, base, given>>
BY DEF DriverStep, Wake, Step, others, call, Available, LoadNothing, LoadNoBar,
       LoadDriver, LoadBeyond, LoadPorts, CommandStop, StillRunning, Rebase, CommandStart,
       Configured,
       SkipDrive, DumpDone, AllocBuffer, BuildWild, BuildCommand, WatchdogEnds,
       Issue, ReadEnds, PrintSector

\* What the steps of the controller leave alone.
LEMMA ControllerFrame ==
    ControllerStep => UNCHANGED <<machine, found, driver, pages, others, at, call, fault>>
BY DEF ControllerStep, Register, EngineFollows, FisEngineFollows, SpinsUp, Answers,
       Completes, Fails

\* Steps of the driver and the controller leave the console alone, and the machine
\* and the command that called the driver.
LEMMA DiskFrame ==
    ASSUME DiskStep \/ Wakes \/ DevicesStep
    PROVE  UNCHANGED <<irqs, serial, machine, command, base, given>>
BY DriverFrame, ControllerFrame DEF DiskStep, Wakes, DevicesStep, others, call

\* The boot code's making of the lists that the shell prints.
ListsGrow == PciCounts \/ PciSets \/ PciLoaded \/ TaskLinks \/ TaskLinked

\* Steps of the boot code and of the handler that are not the driver's.
KernelStep ==
    \/ Probe \/ NoInput \/ SelectInput \/ EnableInterrupt \/ UnmaskInput
    \/ ResetIndex \/ ClearText \/ ListsGrow
    \/ \E v \in Vectors : Interrupt(v)
    \/ ReadBell \/ ReadPrinted \/ ReadNowhere \/ ReadEmptyLine \/ ReadOtherLine \/ ReadUnderWay
    \/ \E name \in DiskCommands : ReadDiskCommand(name)
    \/ DiskCommandEnds \/ HandlerEnds
    \/ \E c \in Printed \cup {Return, Bell} : Receive(c)

\* The steps, by who makes them.
LEMMA NextCases ==
    Next <=> \/ KernelStep \/ AllocCommandBuffer \/ KernelReads \/ KernelTakes
             \/ DiskStep \/ Wakes \/ DevicesStep
BY DEF Next, BootStep, HandlerStep, KernelStep, ListsGrow

\* What the kernel's steps outside the driver leave alone.
LEMMA KernelFrame ==
    ASSUME KernelStep
    PROVE  UNCHANGED <<machine, hba, mem, fresh, base, taken, given, torn, port>>
BY DEF KernelStep, Probe, NoInput, SelectInput, EnableInterrupt, UnmaskInput, ResetIndex,
       ClearText, ListsGrow, PciCounts, PciSets, PciLoaded, TaskLinks, TaskLinked, SetEntry,
       Interrupt, ReadBell, ReadPrinted, ReadNowhere,
       ReadEmptyLine, ReadOtherLine, ReadUnderWay, ReadDiskCommand, DiskCommandEnds,
       HandlerEnds,
       Receive, ahci, pages, others, call

----------------------------------------------------------------------------
(* Pages *)

\* pmm_alloc_page in the driver, when it has not cut another one off, gives pages
\* nobody has.
LEMMA TakeApart ==
    ASSUME PagesInv, ~ torn, NEW n \in Nat, Take(n), UNCHANGED <<base, given, pc>>
    PROVE  PagesInv'
<1>1. fresh' \in Nat \ {0} /\ (base' # NoPage => pc' \in Allocating)
  BY DEF PagesInv, Take
<1>2. CASE base # NoPage
  BY <1>1, <1>2 DEF PagesInv, Take
<1>3. CASE base = NoPage
  <2>1. \A m \in fresh .. fresh + n - 1 : m \in Nat /\ m >= fresh /\ m < fresh + n
    BY DEF PagesInv
  <2>2. taken' \cap given' = {}
    BY <2>1 DEF PagesInv, Take
  <2>3. \A m \in taken' \cup given' : m \in Nat /\ m < fresh'
    BY <2>1 DEF PagesInv, Take
  <2> QED
    BY <1>1, <1>3, <2>2, <2>3 DEF PagesInv
<1> QED
  BY <1>2, <1>3

\* The driver takes one page or two at a time, or none.
LEMMA DriverTakes ==
    ASSUME DriverStep \/ Wake
    PROVE  \/ UNCHANGED pages
           \/ ~ torn /\ \E n \in Nat : Take(n)
<1>1. CASE LoadDriver \/ LoadBeyond
  BY <1>1 DEF LoadDriver, LoadBeyond, LoadPorts, Step
<1>2. CASE Rebase
  BY <1>2 DEF Rebase, Step
<1>3. CASE AllocBuffer
  BY <1>3 DEF AllocBuffer, Step
<1>4. CASE ~ (LoadDriver \/ LoadBeyond \/ Rebase \/ AllocBuffer)
  BY <1>4 DEF DriverStep, Wake, Available, LoadNothing, LoadNoBar, CommandStop,
              StillRunning, CommandStart, Configured, SkipDrive, DumpDone, BuildWild,
              BuildCommand, WatchdogEnds, Issue, ReadEnds, PrintSector
<1> QED
  BY <1>1, <1>2, <1>3, <1>4

\* The kernel's boot code does not go on between the two steps of taking a page.
LEMMA KernelPlace ==
    ASSUME KernelStep, base # NoPage => pc \in Allocating
    PROVE  base # NoPage => pc' \in Allocating
BY DEF KernelStep, Boot, Probe, NoInput, SelectInput, EnableInterrupt, UnmaskInput,
       ResetIndex, ClearText, ListsGrow, PciCounts, PciSets, PciLoaded, TaskLinks,
       TaskLinked, Interrupt, Read, ReadBell, ReadPrinted, ReadNowhere, ReadEmptyLine,
       ReadOtherLine, ReadUnderWay, ReadDiskCommand, DiskCommandEnds, HandlerEnds,
       Receive, Allocating

\* Every step keeps the owners of the pages.
LEMMA PagesStep ==
    ASSUME PagesInv, [Next]_vars
    PROVE  PagesInv'
<1>1. CASE UNCHANGED vars
  BY <1>1 DEF PagesInv, vars, serial, ahci, pages, others
<1>2. CASE KernelStep
  BY <1>2, KernelFrame, KernelPlace DEF PagesInv
<1>3. CASE AllocCommandBuffer
  <2>1. /\ pc = "start" /\ pc' = "index"
        /\ fresh' = fresh + 1 /\ given' = given \cup {fresh}
        /\ UNCHANGED <<base, taken, torn>>
    BY <1>3 DEF AllocCommandBuffer, Boot
  <2> QED
    BY <2>1 DEF PagesInv, Allocating
<1>4. CASE KernelReads
  <2>1. /\ pc \in Allocating /\ pc' = pc
        /\ base' = fresh
        /\ UNCHANGED <<fresh, given, taken, torn>>
    BY <1>4 DEF KernelReads, Boot, ReadSection, pages
  <2> QED
    BY <2>1 DEF PagesInv, NoPage
<1>5. CASE KernelTakes
  <2>1. /\ base # NoPage /\ base' = NoPage
        /\ fresh' = fresh + 1 /\ given' = given \cup {base}
        /\ UNCHANGED <<taken, torn>>
    BY <1>5 DEF KernelTakes, Boot, MoveSection
  <2> QED
    BY <2>1 DEF PagesInv
<1>6. CASE DiskStep \/ Wakes
  <2>1. UNCHANGED <<pc, base, given>>
    BY <1>6, DiskFrame DEF serial
  <2>2. UNCHANGED pages \/ (~ torn /\ \E n \in Nat : Take(n))
    BY <1>6, DriverTakes DEF DiskStep, Wakes
  <2>3. CASE UNCHANGED pages
    BY <2>1, <2>3 DEF PagesInv, pages
  <2>4. ASSUME ~ torn, NEW n \in Nat, Take(n)
        PROVE  PagesInv'
    BY <2>1, <2>4, TakeApart
  <2> QED
    BY <2>2, <2>3, <2>4
<1>7. CASE DevicesStep
  BY <1>7, DiskFrame, ControllerFrame DEF DevicesStep, PagesInv, serial, pages, others
<1> QED
  BY <1>1, <1>2, <1>3, <1>4, <1>5, <1>6, <1>7, NextCases

----------------------------------------------------------------------------
(* The engines *)

\* No engine runs at first.
LEMMA EnginesInit == Init => EnginesInv
<1> SUFFICES ASSUME Init PROVE EnginesInv
  OBVIOUS
<1>1. machine.running \in BOOLEAN
  BY MachineAssumption DEF Init, AhciInit
<1>2. NoPage \in Nat
  BY DEF NoPage
<1>3. hba \in [Ports -> Registers]
  BY <1>1, <1>2 DEF Init, AhciInit, Registers
<1> QED
  BY <1>3 DEF Init, AhciInit, EnginesInv

\* Steps of the driver that write the controller's registers.
LEMMA DriverWrites ==
    ASSUME EnginesInv, PagesInv, DriverStep \/ Wake
    PROVE  /\ EnginesInv'
           /\ \A p \in Ports : hba'[p].list # hba[p].list =>
                  ~ hba[p].cr /\ ~ hba[p].fr /\ ~ hba[p].st
<1>1. CASE CommandStop
  <2>1. /\ hba \in [Ports -> Registers]
        /\ at' = "halt" /\ port' = port
        /\ hba' = [hba EXCEPT ![port].st = FALSE, ![port].fre = FALSE]
    BY <1>1 DEF CommandStop, Step, EnginesInv, call
  <2>2. \A p \in Ports : /\ hba'[p].list = hba[p].list
                         /\ p = port => hba'[p].st = FALSE
    BY <2>1 DEF Registers
  <2> DEFINE half == [hba EXCEPT ![port].st = FALSE]
  <2>3. hba' = [half EXCEPT ![port].fre = FALSE]
    BY <2>1
  <2>4. half \in [Ports -> Registers]
    BY <2>1 DEF Registers
  <2>5. hba' \in [Ports -> Registers]
    <3> HIDE DEF half
    <3> QED
      BY <2>3, <2>4 DEF Registers
  <2> QED
    BY <2>1, <2>2, <2>5 DEF EnginesInv
<1>2. CASE Rebase
  <2>1. fresh \in Nat
    BY DEF PagesInv
  <2>2. /\ at = "poll" /\ at' = "start" /\ Stopped(port)
        /\ hba' = [hba EXCEPT ![port].list = fresh]
    BY <1>2 DEF Rebase, Step, Lists
  <2> QED
    BY <2>1, <2>2 DEF EnginesInv, Registers, Stopped
<1>3. CASE CommandStart
  BY <1>3 DEF CommandStart, Step, EnginesInv, Registers
<1>4. CASE BuildCommand
  BY <1>4 DEF BuildCommand, Step, EnginesInv, Registers
<1>5. CASE Issue
  BY <1>5 DEF Issue, Step, EnginesInv, Registers
<1>6. CASE StillRunning \/ Wake
  BY <1>6 DEF StillRunning, Wake, Step, EnginesInv, call
<1>7. CASE \/ Available \/ LoadNothing \/ LoadNoBar \/ LoadDriver \/ LoadBeyond \/ Configured
           \/ SkipDrive \/ DumpDone \/ AllocBuffer \/ BuildWild \/ WatchdogEnds
           \/ ReadEnds \/ PrintSector
  <2>1. UNCHANGED hba /\ at' \notin {"halt", "poll"}
    BY <1>7 DEF Step, Body, Available, LoadNothing, LoadNoBar, LoadDriver, LoadBeyond,
        LoadPorts, Configured,
                SkipDrive, DumpDone, AllocBuffer, BuildWild, WatchdogEnds, ReadEnds,
                PrintSector
  <2> QED
    BY <2>1 DEF EnginesInv
<1> QED
  BY <1>1, <1>2, <1>3, <1>4, <1>5, <1>6, <1>7 DEF DriverStep
\* The controller's steps keep the engines' part, and no list of a port changes in them.
LEMMA ControllerWrites ==
    ASSUME EnginesInv, ControllerStep
    PROVE  /\ EnginesInv'
           /\ \A p \in Ports : hba'[p].list = hba[p].list
<1>1. at' = at /\ port' = port
  BY ControllerFrame DEF call
<1>2. PICK p \in Ports :
        EngineFollows(p) \/ FisEngineFollows(p) \/ SpinsUp(p) \/ Answers(p)
  BY DEF ControllerStep
<1>3. /\ hba' \in [Ports -> Registers]
      /\ \A q \in Ports : hba'[q].list = hba[q].list /\ hba'[q].st = hba[q].st
  <2>1. CASE EngineFollows(p)
    BY <2>1 DEF EngineFollows, Register, EnginesInv, Registers
  <2>2. CASE FisEngineFollows(p)
    BY <2>2 DEF FisEngineFollows, Register, EnginesInv, Registers
  <2>3. CASE SpinsUp(p)
    BY <2>3 DEF SpinsUp, Register, EnginesInv, Registers
  <2>4. CASE Completes(p)
    BY <2>4 DEF Completes, Register, EnginesInv, Registers
  <2>5. CASE Fails(p)
    BY <2>5 DEF Fails, Register, EnginesInv, Registers
  <2> QED
    BY <1>2, <2>1, <2>2, <2>3, <2>4, <2>5 DEF Answers
<1> QED
  BY <1>1, <1>3 DEF EnginesInv

\* The boot code and the shell are not in the driver's wait for the engines.
LEMMA KernelWaits ==
    ASSUME KernelStep \/ AllocCommandBuffer \/ KernelReads \/ KernelTakes
    PROVE  /\ UNCHANGED <<hba, port>>
           /\ at' \in {"halt", "poll"} => at' = at
<1>1. CASE AllocCommandBuffer \/ KernelReads \/ KernelTakes
  BY <1>1 DEF AllocCommandBuffer, KernelReads, KernelTakes, ReadSection, MoveSection, call
<1>2. CASE KernelStep
  BY <1>2, KernelFrame
     DEF KernelStep, Probe, NoInput, SelectInput, EnableInterrupt, UnmaskInput,
         ResetIndex, ClearText, ListsGrow, PciCounts, PciSets, PciLoaded, TaskLinks,
         TaskLinked, SetEntry, Interrupt, ReadBell, ReadPrinted,
         ReadNowhere, ReadEmptyLine, ReadOtherLine, ReadUnderWay, ReadDiskCommand,
         DiskCommandEnds,
         HandlerEnds, Receive, ahci
<1> QED
  BY <1>1, <1>2

\* Every step keeps the engines' part, and changes lists only under engines at rest.
LEMMA EnginesStep ==
    ASSUME EnginesInv, PagesInv, [Next]_vars
    PROVE  /\ EnginesInv'
           /\ \A p \in Ports : hba'[p].list # hba[p].list =>
                  ~ hba[p].cr /\ ~ hba[p].fr /\ ~ hba[p].st
<1>1. CASE UNCHANGED vars
  BY <1>1 DEF EnginesInv, vars, ahci, call
<1>2. CASE KernelStep \/ AllocCommandBuffer \/ KernelReads \/ KernelTakes
  BY <1>2, KernelWaits DEF EnginesInv
<1>3. CASE DiskStep \/ Wakes
  BY <1>3, DriverWrites DEF DiskStep, Wakes
<1>4. CASE DevicesStep
  BY <1>4, ControllerWrites DEF DevicesStep
<1> QED
  BY <1>1, <1>2, <1>3, <1>4, NextCases

\* The lists of a port are replaced only when both of its engines have stopped and
\* nothing has started them again (ahci_controller_configure_port).
THEOREM ListsAtRest == Spec => EnginesStandStill
<1>1. Init => PagesInv /\ EnginesInv
  BY EnginesInit DEF Init, AhciInit, PagesInv, NoPage
<1>2. PagesInv /\ EnginesInv /\ [Next]_vars => (PagesInv /\ EnginesInv)'
  BY PagesStep, EnginesStep
<1>3. ASSUME PagesInv /\ EnginesInv, [Next]_vars
      PROVE  [\A p \in Ports : hba'[p].list # hba[p].list =>
                  ~ hba[p].cr /\ ~ hba[p].fr /\ ~ hba[p].st]_ahci
  BY <1>3, EnginesStep
<1> QED
  BY <1>1, <1>2, <1>3, PTL DEF Spec, EnginesStandStill

----------------------------------------------------------------------------
(* Routing *)

\* idt_get_vector finds a vector that nobody has.
LEMMA FreeVectorIsFree ==
    ASSUME vectors = 0 .. Exceptions - 1
    PROVE  /\ FreeVector \in Vectors \ vectors
           /\ FreeVector # 0
<1>1. Exceptions \in Vectors \ vectors
  BY VectorsAssumption DEF Vectors
<1>2. \A w \in Vectors \ vectors : Exceptions <= w
  BY VectorsAssumption DEF Vectors
<1>3. vectors # Vectors
  BY <1>1
<1>4. FreeVector = CHOOSE v \in Vectors \ vectors :
                      \A w \in Vectors \ vectors : v <= w
  BY <1>3 DEF FreeVector
<1>5. FreeVector \in Vectors \ vectors
  BY <1>1, <1>2, <1>4
<1>6. 0 \in vectors
  BY VectorsAssumption
<1> QED
  BY <1>5, <1>6
\* The routing changes only when the ports are probed and the serial line is
\* selected or unmasked; only the first two of these start in these places.
LEMMA RoutingFrame ==
    ASSUME [Next]_vars, ~ Probe, ~ SelectInput, ~ UnmaskInput
    PROVE  /\ UNCHANGED <<machine, routing, uart>>
           /\ pc' \in {"probe", "select"} => pc' = pc
<1>1. CASE UNCHANGED vars
  BY <1>1 DEF vars, irqs, routing, serial, console, ahci
<1>2. CASE NoInput \/ EnableInterrupt \/ ResetIndex \/ ClearText \/ ListsGrow
  BY <1>2 DEF NoInput, EnableInterrupt, ResetIndex, ClearText, ListsGrow, PciCounts,
      PciSets, PciLoaded, TaskLinks, TaskLinked, Boot, SetEntry,
              irqs, console, ahci
<1>3. CASE AllocCommandBuffer \/ KernelReads \/ KernelTakes
  BY <1>3 DEF AllocCommandBuffer, KernelReads, KernelTakes, Boot, ReadSection,
              MoveSection, irqs, console
<1>4. CASE \/ \E v \in Vectors : Interrupt(v)
           \/ \E name \in DiskCommands : ReadDiskCommand(name)
           \/ \E c \in Printed \cup {Return, Bell} : Receive(c)
  BY <1>4 DEF Interrupt, ReadDiskCommand, Receive, Read, irqs, console, ahci
<1>5. CASE ReadBell \/ ReadPrinted \/ ReadNowhere \/ ReadEmptyLine \/ ReadOtherLine \/ ReadUnderWay
           \/ DiskCommandEnds \/ HandlerEnds
  BY <1>5 DEF ReadBell, ReadPrinted, ReadNowhere, ReadEmptyLine, ReadOtherLine,
      ReadUnderWay,
              DiskCommandEnds, HandlerEnds, Read, irqs, console, ahci
<1>6. CASE DiskStep \/ Wakes \/ DevicesStep
  BY <1>6, DiskFrame DEF irqs, serial, console
<1> QED
  BY <1>1, <1>2, <1>3, <1>4, <1>5, <1>6, NextCases DEF KernelStep

\* All lines are masked at first.
LEMMA RoutingInit == Init => RoutingInv
<1> SUFFICES ASSUME Init PROVE RoutingInv
  OBVIOUS
<1>1. 0 \in Vectors
  BY VectorsAssumption DEF Vectors
<1>2. redirects \in [Lines -> [vector : Vectors, masked : BOOLEAN]]
  BY <1>1 DEF Init, IrqInit
<1> QED
  BY <1>1, <1>2 DEF Init, IrqInit, AhciInit, RoutingInv

\* Every step keeps the routing.
LEMMA RoutingStep ==
    ASSUME RoutingInv, [Next]_vars
    PROVE  RoutingInv'
<1>1. CASE Probe
  <2>1. /\ UNCHANGED <<machine, vectors, handlers, redirects>>
        /\ ~ RoutingHit => uart' = [masked |-> TRUE, gsi |-> 0, vector |-> 0]
        /\ pc = "probe"
    BY <1>1 DEF Probe, Boot, irqs, routing, ahci, RoutingHit
  <2>2. 0 \in Vectors
    BY VectorsAssumption DEF Vectors
  <2>3. CASE RoutingHit
    BY <2>1, <2>3 DEF RoutingInv, RoutingHit
  <2>4. CASE ~ RoutingHit
    <3>1. \A l \in Lines : redirects[l].masked
      BY <2>1, <2>4 DEF RoutingInv
    <3>2. uart' \in [masked : BOOLEAN, gsi : {0, 3, 4}, vector : Vectors]
      <4>1. uart' = [masked |-> TRUE, gsi |-> 0, vector |-> 0]
        BY <2>1, <2>4
      <4>2. 0 \in {0, 3, 4}
        OBVIOUS
      <4> QED
        BY <4>1, <4>2, <2>2
    <3>3. uart'.gsi = 0 /\ uart'.vector = 0
      BY <2>1, <2>4
    <3> QED
      BY <2>1, <2>4, <3>1, <3>2, <3>3 DEF RoutingInv
  <2> QED
    BY <2>3, <2>4
<1>2. CASE SelectInput
  <2>1. machine' = machine /\ pc = "select" /\ pc' = "enable"
    BY <1>2 DEF SelectInput, Boot, ahci
  <2>2. CASE RoutingHit
    BY <2>1, <2>2 DEF RoutingInv, RoutingHit
  <2>3. CASE ~ RoutingHit
    <3> DEFINE v == FreeVector
    <3>1. uart.vector = 0 /\ vectors = 0 .. Exceptions - 1
      BY <2>1, <2>3 DEF RoutingInv
    <3>2. v \in Vectors \ (0 .. Exceptions - 1)
      BY <3>1, FreeVectorIsFree
    <3>3. PICK line \in {3, 4} :
            /\ uart' = [uart EXCEPT !.gsi = line, !.vector = v]
            /\ vectors' = vectors \cup {v}
            /\ handlers' = [handlers EXCEPT ![v] = "uart"]
            /\ redirects' = [redirects EXCEPT ![line] = [vector |-> v, masked |-> TRUE]]
      <4>1. Gsi(IF 1 \in available THEN 1 ELSE 2) \in {3, 4}
        BY DEF Gsi
      <4> QED
        BY <1>2, <3>1, <4>1 DEF SelectInput, HandlerAt, Installed, Redirected
    <3>4. line \in Lines /\ line # 0
      BY HandlersAssumption
    <3>5. /\ DOMAIN handlers' = Vectors /\ handlers'[v] = "uart"
          /\ redirects' \in [Lines -> [vector : Vectors, masked : BOOLEAN]]
          /\ redirects'[line].vector = v
          /\ \A l \in Lines : redirects'[l].masked \/ l = line
      BY <2>1, <2>3, <3>2, <3>3, <3>4 DEF RoutingInv
    <3>6. /\ uart' \in [masked : BOOLEAN, gsi : {0, 3, 4}, vector : Vectors]
          /\ uart'.gsi = line /\ uart'.vector = v
      BY <2>3, <3>2, <3>3 DEF RoutingInv
    <3> QED
      BY <2>1, <3>1, <3>2, <3>3, <3>4, <3>5, <3>6 DEF RoutingInv
  <2> QED
    BY <2>2, <2>3
<1>3. CASE UnmaskInput
  <2>1. /\ machine' = machine /\ pc' = "start"
        /\ uart' = [uart EXCEPT !.masked = FALSE]
        /\ redirects' = IF uart.gsi # 0
                        THEN [redirects EXCEPT ![uart.gsi].masked = FALSE] ELSE redirects
        /\ UNCHANGED <<vectors, handlers>>
    BY <1>3 DEF UnmaskInput, Boot, ahci, Unmasked
  <2>2. CASE RoutingHit
    BY <2>1, <2>2 DEF RoutingInv, RoutingHit
  <2>3. CASE ~ RoutingHit
    <3>1. /\ uart' \in [masked : BOOLEAN, gsi : {0, 3, 4}, vector : Vectors]
          /\ uart'.gsi = uart.gsi /\ uart'.vector = uart.vector
      BY <2>1, <2>3 DEF RoutingInv
    <3>2. /\ redirects' \in [Lines -> [vector : Vectors, masked : BOOLEAN]]
          /\ \A l \in Lines : redirects'[l].vector = redirects[l].vector
          /\ \A l \in Lines : redirects'[l].masked \/ (uart.gsi # 0 /\ l = uart.gsi)
      BY <2>1, <2>3 DEF RoutingInv
    <3>3. uart.gsi # 0 => uart.gsi \in Lines
      BY <2>3, HandlersAssumption DEF RoutingInv
    <3> QED
      BY <2>1, <2>3, <3>1, <3>2, <3>3 DEF RoutingInv
  <2> QED
    BY <2>2, <2>3
<1>4. CASE ~ Probe /\ ~ SelectInput /\ ~ UnmaskInput
  BY <1>4, RoutingFrame DEF RoutingInv, RoutingHit, routing
<1> QED
  BY <1>1, <1>2, <1>3, <1>4

\* No line of the I/O APIC is unmasked that leads nowhere, unless the ninth byte of
\* available_com_ports hits the routing (serial_console_enable).
THEOREM LinesLead == Spec => []UnmaskedHasHandler
<1>1. Init => RoutingInv
  BY RoutingInit
<1>2. RoutingInv /\ [Next]_vars => RoutingInv'
  BY RoutingStep
<1>3. RoutingInv => UnmaskedHasHandler
  BY HandlersAssumption DEF RoutingInv, UnmaskedHasHandler, LeadsToHandler
<1> QED
  BY <1>1, <1>2, <1>3, PTL DEF Spec

----------------------------------------------------------------------------
(* Characters *)

\* The boot code behind the unmasking: it leaves the console and the line alone.
Afterwards ==
    \/ AllocCommandBuffer \/ ResetIndex \/ ClearText
    \/ ListsGrow \/ KernelReads \/ KernelTakes

\* The shell's reading of a character, and the end of a disk command.
Reads ==
    \/ ReadBell \/ ReadPrinted \/ ReadNowhere \/ ReadEmptyLine \/ ReadOtherLine \/ ReadUnderWay
    \/ \E name \in DiskCommands : ReadDiskCommand(name)
    \/ DiskCommandEnds

\* What the steps behind the start of the console leave alone.
LEMMA AfterwardsFrame ==
    ASSUME Afterwards
    PROVE  /\ UNCHANGED <<irqs, console, machine, held, handler, heard, early>>
           /\ pc \notin Starting /\ pc' \notin Starting
           /\ handler = "out"
BY DEF Afterwards, AllocCommandBuffer, ResetIndex, ClearText, ListsGrow, PciCounts, PciSets,
    PciLoaded, TaskLinks, TaskLinked, KernelReads,
       KernelTakes, SetEntry, ReadSection, MoveSection, Boot, Starting, Allocating, ahci

\* What the reading of a character leaves alone.
LEMMA ReadsFrame ==
    ASSUME Reads
    PROVE  /\ UNCHANGED <<irqs, console, machine, early, pc>>
           /\ handler \in {"loop", "disk"} /\ handler' \in {"loop", "disk", "stopped"}
           /\ held' \in {held, NoChar}
BY DEF Reads, ReadBell, ReadPrinted, ReadNowhere, ReadEmptyLine, ReadOtherLine,
    ReadUnderWay,
       ReadDiskCommand, DiskCommandEnds, Read, Handling, ahci

\* Nothing is heard before the interrupt is enabled.
LEMMA HeardSelect ==
    ASSUME RoutingInv, HeardInv, Probe \/ NoInput \/ SelectInput
    PROVE  HeardInv'
<1> SUFFICES ASSUME ~ RoutingHit', ~ early'
             PROVE  HeardInv'
  BY DEF HeardInv
<1>1. /\ machine' = machine /\ early' = early /\ held' = held /\ handler' = handler
      /\ UNCHANGED <<requested, serviced, enabled>>
      /\ pc \in {"probe", "select"} /\ pc' \in {"select", "enable", "unmask"}
  BY DEF Probe, NoInput, SelectInput, Boot, ahci, irqs, pending, console
<1>2. ~ RoutingHit /\ ~ early
  BY <1>1 DEF RoutingHit
<1>3. held = NoChar /\ requested = {} /\ handler = "out" /\ serviced = {}
  BY <1>1, <1>2 DEF HeardInv, Starting
<1>4. pc' = "select" => available' = machine'.present \ {Coms}
  BY <1>1 DEF Probe, NoInput, SelectInput, Boot
<1>5. pc' \notin {"probe", "select"} /\ HasInput' => uart'.gsi # 0
  <2>1. CASE Probe
    BY <2>1 DEF Probe, Boot
  <2>2. CASE NoInput
    <3>1. available = machine.present \ {Coms} /\ available \cap {1, 2} = {}
      BY <1>2, <2>2 DEF NoInput, Boot, HeardInv
    <3>2. 1 # Coms /\ 2 # Coms
      BY PortsAssumption
    <3>3. ~ HasInput
      BY <3>1, <3>2 DEF HasInput
    <3> QED
      BY <1>1, <3>3 DEF HasInput
  <2>3. CASE SelectInput
    <3>1. uart'.gsi = Gsi(IF 1 \in available THEN 1 ELSE 2)
      BY <1>1, <1>2, <2>3 DEF SelectInput, RoutingInv
    <3> QED
      BY <3>1 DEF Gsi
  <2> QED
    BY <2>1, <2>2, <2>3
<1>6. pc' \notin {"probe", "select", "enable"} => pc' = "unmask" /\ NoInput
  BY <1>1 DEF Probe, NoInput, SelectInput, Boot
<1>7. NoInput => uart'.gsi = 0
  BY <1>1, <1>2 DEF NoInput, Boot, RoutingInv, console
<1> QED
  BY <1>1, <1>3, <1>4, <1>5, <1>6, <1>7 DEF HeardInv, Starting

\* Enabling and unmasking: a character in between is early.
LEMMA HeardBoot ==
    ASSUME RoutingInv, HeardInv, EnableInterrupt \/ UnmaskInput
    PROVE  HeardInv'
<1> SUFFICES ASSUME ~ RoutingHit', ~ early'
             PROVE  HeardInv'
  BY DEF HeardInv
<1>1. /\ machine' = machine /\ early' = early /\ held' = held /\ handler' = handler
      /\ pc \in {"enable", "unmask"} /\ pc' \in {"unmask", "start"}
      /\ serviced' = serviced
  BY DEF EnableInterrupt, UnmaskInput, Boot, ahci, pending
<1>2. ~ RoutingHit /\ ~ early
  BY <1>1 DEF RoutingHit
<1>3. /\ held = NoChar /\ requested = {} /\ handler = "out" /\ serviced = {}
      /\ HasInput => uart.gsi # 0
      /\ uart'.gsi = uart.gsi /\ uart'.vector = uart.vector
  <2>1. uart \in [masked : BOOLEAN, gsi : {0, 3, 4}, vector : Vectors]
    BY <1>2 DEF RoutingInv
  <2>2. uart'.gsi = uart.gsi /\ uart'.vector = uart.vector
    BY <2>1 DEF EnableInterrupt, UnmaskInput
  <2> QED
    BY <1>1, <1>2, <2>2 DEF HeardInv, Starting
<1>4. requested' = {}
  BY <1>3 DEF EnableInterrupt, UnmaskInput, pending
<1>5. HasInput' = HasInput
  BY <1>1 DEF HasInput
<1>6. CASE EnableInterrupt
  BY <1>1, <1>3, <1>4, <1>5, <1>6 DEF EnableInterrupt, Boot, HeardInv, Starting
<1>7. CASE UnmaskInput
  <2>1. /\ uart' = [uart EXCEPT !.masked = FALSE]
        /\ redirects' = IF uart.gsi # 0
                        THEN [redirects EXCEPT ![uart.gsi].masked = FALSE] ELSE redirects
        /\ pc = "unmask" /\ pc' = "start" /\ enabled' = enabled
    BY <1>7 DEF UnmaskInput, Boot, Unmasked
  <2>2. ~ uart'.masked
    BY <1>2, <2>1 DEF RoutingInv
  <2>3. uart.gsi # 0 => ~ redirects'[uart'.gsi].masked
    BY <1>1, <1>2, <2>1, HandlersAssumption DEF RoutingInv
  <2>4. HasInput => enabled
    BY <1>2, <2>1 DEF HeardInv
  <2> QED
    BY <1>1, <1>3, <1>4, <1>5, <2>1, <2>2, <2>3, <2>4 DEF HeardInv, Starting
<1> QED
  BY <1>6, <1>7

\* A character that arrives requests the interrupt, or is early.
LEMMA HeardReceive ==
    ASSUME RoutingInv, HeardInv, NEW c, Receive(c)
    PROVE  HeardInv'
<1> SUFFICES ASSUME ~ RoutingHit', ~ early'
             PROVE  HeardInv'
  BY DEF HeardInv
<1>1. /\ UNCHANGED <<machine, redirects, serviced, available, uart, enabled, pc, handler>>
      /\ ~ early /\ pc \notin Starting /\ HasInput
      /\ requested' = IF held = NoChar /\ enabled THEN Edge(uart.gsi) ELSE requested
  BY DEF Receive, HasInput, console, routing, ahci
<1>2. ~ RoutingHit
  BY <1>1 DEF RoutingHit
<1>3. /\ uart.gsi # 0 /\ enabled /\ ~ redirects[uart.gsi].masked
      /\ redirects[uart.gsi].vector = uart.vector
  BY <1>1, <1>2 DEF HeardInv, RoutingInv, Starting
<1>4. requested' = IF held = NoChar THEN requested \cup {uart.vector} ELSE requested
  BY <1>1, <1>3 DEF Edge
<1> QED
  BY <1>1, <1>2, <1>4 DEF HeardInv, HasInput

\* Every step keeps what is heard.
LEMMA HeardStep ==
    ASSUME RoutingInv, HeardInv, [Next]_vars
    PROVE  HeardInv'
<1>1. CASE UNCHANGED vars
  BY <1>1 DEF HeardInv, HasInput, RoutingHit, vars, irqs, routing, pending, serial,
              console, ahci
<1>2. CASE Probe \/ NoInput \/ SelectInput
  BY <1>2, HeardSelect
<1>3. CASE EnableInterrupt \/ UnmaskInput
  BY <1>3, HeardBoot
<1>4. CASE Afterwards
  <2>1. UNCHANGED <<requested, serviced, redirects, available, uart, enabled, machine,
                    held, handler, early>>
    BY <1>4, AfterwardsFrame DEF irqs, routing, pending, console
  <2> QED
    BY <1>4, <2>1, AfterwardsFrame DEF HeardInv, HasInput, RoutingHit, Starting
<1>5. CASE Reads
  <2>1. UNCHANGED <<requested, serviced, redirects, available, uart, enabled, machine,
                    early, pc>>
    BY <1>5, ReadsFrame DEF irqs, routing, pending, console
  <2> QED
    BY <1>5, <2>1, ReadsFrame DEF HeardInv, HasInput, RoutingHit
<1>6. ASSUME NEW v \in Vectors, Interrupt(v)
      PROVE  HeardInv'
  <2>1. /\ UNCHANGED <<redirects, available, uart, enabled, machine, held, early, pc>>
        /\ handler' = IF uart.masked THEN "out" ELSE "loop"
        /\ v \in requested /\ requested' = requested \ {v}
    BY <1>6 DEF Interrupt, Handling, Deliverable, Deliver, routing, console, ahci
  <2> QED
    BY <2>1 DEF HeardInv, HasInput, RoutingHit
<1>7. CASE HandlerEnds
  <2>1. /\ UNCHANGED <<requested, redirects, available, uart, enabled, machine, held,
                       early, pc>>
        /\ handler = "loop" /\ held = NoChar /\ serviced' = {}
    BY <1>7 DEF HandlerEnds, Handling, routing, console, ahci
  <2> QED
    BY <2>1 DEF HeardInv, HasInput, RoutingHit
<1>8. ASSUME NEW c, Receive(c)
      PROVE  HeardInv'
  BY <1>8, HeardReceive
<1>9. CASE DiskStep \/ Wakes \/ DevicesStep
  BY <1>9, DiskFrame DEF HeardInv, HasInput, RoutingHit, irqs, routing, pending, serial,
                         console
<1> QED
  BY <1>1, <1>2, <1>3, <1>4, <1>5, <1>6, <1>7, <1>8, <1>9, NextCases
     DEF KernelStep, Afterwards, Reads

\* A character that is held behind the set-up of the console is going to be read,
\* unless one came before its line was unmasked, or the routing was hit
\* (serial_console_enable, __uart_input_irq_handler).
THEOREM CharactersHeard == Spec => []HeardUnlessEarly
<1>1. Init => RoutingInv /\ HeardInv
  BY RoutingInit DEF Init, IrqInit, HeardInv, Starting
<1>2. RoutingInv /\ HeardInv /\ [Next]_vars => (RoutingInv /\ HeardInv)'
  BY RoutingStep, HeardStep
<1>3. HeardInv => HeardUnlessEarly
  BY DEF HeardInv, HeardUnlessEarly
<1> QED
  BY <1>1, <1>2, <1>3, PTL DEF Spec

----------------------------------------------------------------------------
(* The command line *)

\* Steps that leave the command buffer alone keep the line.
LEMMA LineFrame ==
    ASSUME LineInv, UNCHANGED <<opened, text, index, typed, damaged>>,
           /\ pc' = pc \/ (~ opened /\ pc' \in Starting \cup {"start"})
           /\ handler' = "disk" => handler = "disk" /\ command' = command
    PROVE  LineInv'
BY DEF LineInv, LineIsTyped

\* uart_shell_start.
LEMMA LineStart ==
    ASSUME LineInv, Afterwards
    PROVE  LineInv'
<1>1. typed' = typed /\ damaged' = damaged /\ handler' = "out"
  BY AfterwardsFrame DEF heard
<1>2. CASE AllocCommandBuffer
  <2>1. /\ pc = "start" /\ pc' = "index" /\ opened' = TRUE
        /\ UNCHANGED <<text, index>>
    BY <1>2 DEF AllocCommandBuffer, Boot
  <2> QED
    BY <1>1, <2>1 DEF LineInv, LineIsTyped, Starting
<1>3. CASE ResetIndex
  <2>1. /\ pc = "index" /\ pc' = "memset" /\ index' = 0
        /\ UNCHANGED <<opened, text>>
    BY <1>3 DEF ResetIndex, Boot
  <2>2. 0 \in Places
    BY PortsAssumption DEF Places
  <2> QED
    BY <1>1, <2>1, <2>2 DEF LineInv, LineIsTyped, Starting
<1>4. CASE ClearText
  <2>1. /\ pc = "memset" /\ pc' = "pci" /\ text' = [i \in Places |-> Nul]
        /\ UNCHANGED <<opened, index>>
    BY <1>4 DEF ClearText, Boot
  <2>2. text' \in [Places -> Printed \cup {Nul}]
    BY <2>1
  <2>3. LineIsTyped'
    <3>1. ~ damaged => index' = 0 /\ typed' = << >>
      BY <1>1, <2>1 DEF LineInv
    <3> QED
      BY <1>1, <3>1 DEF LineIsTyped
  <2> QED
    BY <1>1, <2>1, <2>2, <2>3 DEF LineInv, Starting
<1>5. CASE ListsGrow \/ KernelReads \/ KernelTakes
  <2>1. /\ {pc, pc'} \subseteq Allocating \cup {"linking"}
        /\ UNCHANGED <<opened, text, index>>
    BY <1>5 DEF ListsGrow, PciCounts, PciSets, PciLoaded, TaskLinks, TaskLinked,
        KernelReads, KernelTakes, Boot, shell, Allocating
  <2> QED
    BY <1>1, <2>1 DEF LineInv, LineIsTyped, Starting, Allocating
<1> QED
  BY <1>2, <1>3, <1>4, <1>5 DEF Afterwards

\* A printed character is one more of the line.
LEMMA LinePrinted ==
    ASSUME LineInv, ReadPrinted
    PROVE  LineInv'
<1>1. /\ held \in Printed /\ opened /\ opened' = opened /\ pc' = pc /\ handler' = "loop"
      /\ text' = IF HasRoom THEN [text EXCEPT ![index] = held] ELSE text
      /\ index' = IF HasRoom THEN index + 1 ELSE index
      /\ typed' = IF Len(typed) <= BufferMax THEN Append(typed, held) ELSE typed
      /\ damaged' = (damaged \/ pc \in {"index", "memset"})
  BY DEF ReadPrinted, Read, Handling
<1>2. index \in Places /\ index' \in Places
  BY <1>1, PortsAssumption DEF LineInv, Places, HasRoom
<1>3. text' \in [Places -> Printed \cup {Nul}]
  BY <1>1, <1>2 DEF LineInv
<1>4. typed \in Seq(Printed) /\ typed' \in Seq(Printed)
  BY <1>1 DEF LineInv
<1>5. LineIsTyped'
  <2> SUFFICES ASSUME ~ damaged, pc \notin {"index", "memset"}
               PROVE  LineIsTyped'
    BY <1>1 DEF LineIsTyped
  <2>1. /\ index = Len(typed)
        /\ \A i \in 1 .. Len(typed) : text[i - 1] = typed[i]
    BY <1>1 DEF LineInv, LineIsTyped
  <2>2. CASE ~ HasRoom
    <3>1. UNCHANGED <<text, index, typed>>
      BY <1>1, <2>1, <2>2 DEF HasRoom
    <3> QED
      BY <1>1, <2>1, <3>1 DEF LineIsTyped
  <2>3. CASE HasRoom
    <3>1. /\ text' = [text EXCEPT ![index] = held] /\ index' = index + 1
          /\ typed' = Append(typed, held)
      BY <1>1, <2>1, <2>3 DEF HasRoom
    <3>2. /\ Len(typed) \in Nat /\ Len(typed') = Len(typed) + 1
          /\ typed'[Len(typed) + 1] = held
          /\ \A i \in 1 .. Len(typed) : typed'[i] = typed[i]
      BY <1>1, <1>4, <3>1
    <3>3. text'[index] = held
      BY <1>2, <3>1 DEF LineInv
    <3>4. \A i \in 1 .. Len(typed) : text'[i - 1] = text[i - 1]
      <4>1. ASSUME NEW i \in 1 .. Len(typed)
            PROVE  i - 1 \in Places /\ i - 1 # index
        BY <1>2, <2>1, <3>2, PortsAssumption DEF Places
      <4> QED
        BY <3>1, <4>1 DEF LineInv
    <3>5. ASSUME NEW i \in 1 .. Len(typed')
          PROVE  text'[i - 1] = typed'[i]
      <4>1. i \in 1 .. Len(typed) \/ (i = Len(typed) + 1 /\ i - 1 = index)
        BY <2>1, <3>2
      <4> QED
        BY <2>1, <3>2, <3>3, <3>4, <4>1
    <3> QED
      BY <1>1, <2>1, <3>1, <3>2, <3>5 DEF LineIsTyped
  <2> QED
    BY <2>2, <2>3
<1> QED
  BY <1>1, <1>2, <1>3, <1>4, <1>5 DEF LineInv

\* A line that matches a name is that name.
LEMMA MatchIsName ==
    ASSUME NEW s \in Seq(Printed), NEW n \in Seq(Printed), NEW t,
           \A i \in 1 .. Len(s) : t[i - 1] = s[i],
           \A i \in 1 .. Len(n) : t[i - 1] = n[i],
           t[Len(s)] = Nul, t[Len(n)] = Nul
    PROVE  s = n
<1>1. Nul \notin Printed
  BY CommandsAssumption
<1>2. Len(s) \in Nat /\ Len(n) \in Nat
  OBVIOUS
<1>3. ~ Len(s) < Len(n)
  <2> SUFFICES ASSUME Len(s) < Len(n) PROVE FALSE
    OBVIOUS
  <2>1. Len(s) + 1 \in 1 .. Len(n) /\ Len(s) + 1 - 1 = Len(s)
    BY <1>2
  <2>2. n[Len(s) + 1] \in Printed
    BY <2>1
  <2> QED
    BY <1>1, <2>1, <2>2
<1>4. ~ Len(n) < Len(s)
  <2> SUFFICES ASSUME Len(n) < Len(s) PROVE FALSE
    OBVIOUS
  <2>1. Len(n) + 1 \in 1 .. Len(s) /\ Len(n) + 1 - 1 = Len(n)
    BY <1>2
  <2>2. s[Len(n) + 1] \in Printed
    BY <2>1
  <2> QED
    BY <1>1, <2>1, <2>2
<1>5. Len(s) = Len(n)
  BY <1>2, <1>3, <1>4
<1> QED
  BY <1>5

\* A disk command is matched by the line, and begins a new one.
LEMMA LineCommand ==
    ASSUME LineInv, NEW name \in DiskCommands, ReadDiskCommand(name)
    PROVE  LineInv'
<1>1. /\ index # 0 /\ Matches(name) /\ command' = name
      /\ text' = [text EXCEPT ![index] = Nul]
      /\ UNCHANGED <<opened, index, typed, damaged, pc>>
  BY DEF ReadDiskCommand, Read, heard
<1>2. text' \in [Places -> Printed \cup {Nul}] /\ index \in Places
  BY <1>1 DEF LineInv
<1>3. LineIsTyped'
  <2> SUFFICES ASSUME opened, ~ damaged, pc \notin {"index", "memset"}
               PROVE  LineIsTyped'
    BY <1>1 DEF LineIsTyped
  <2>1. /\ index = Len(typed)
        /\ \A i \in 1 .. Len(typed) : text[i - 1] = typed[i]
    BY DEF LineInv, LineIsTyped
  <2>2. typed \in Seq(Printed) /\ Len(typed) \in Nat
    BY DEF LineInv
  <2>3. ASSUME NEW i \in 1 .. Len(typed)
        PROVE  text'[i - 1] = typed[i]
    <3>1. i - 1 \in Places /\ i - 1 # index
      BY <1>2, <2>1, <2>2, PortsAssumption DEF Places
    <3>2. text'[i - 1] = text[i - 1]
      BY <1>1, <3>1 DEF LineInv
    <3> QED
      BY <2>1, <3>2
  <2>4. text'[Len(typed)] = Nul
    BY <1>1, <1>2, <2>1 DEF LineInv
  <2>5. /\ \A i \in 1 .. Len(Commands[name]) : text'[i - 1] = Commands[name][i]
        /\ text'[Len(Commands[name])] = Nul
    BY <1>1 DEF Matches
  <2>6. Commands[name] \in Seq(Printed)
    BY CommandsAssumption
  <2>7. typed = Commands[name]
    BY <2>2, <2>3, <2>4, <2>5, <2>6, MatchIsName
  <2> QED
    BY <1>1, <2>1, <2>3, <2>7 DEF LineIsTyped
<1> QED
  BY <1>1, <1>2, <1>3 DEF LineInv

\* Every way to read a character keeps the line.
LEMMA LineReads ==
    ASSUME LineInv, Reads
    PROVE  LineInv'
<1>1. pc' = pc
  BY ReadsFrame
<1>2. CASE ReadBell \/ ReadNowhere
  <2>1. UNCHANGED <<opened, text, index, typed, damaged>> /\ handler' # "disk"
    BY <1>2 DEF ReadBell, ReadNowhere, Read, Handling, shell, heard
  <2> QED
    BY <1>1, <2>1, LineFrame
<1>3. CASE ReadPrinted
  BY <1>3, LinePrinted
<1>4. ASSUME NEW name \in DiskCommands, ReadDiskCommand(name)
      PROVE  LineInv'
  BY <1>4, LineCommand
<1>6. CASE ReadUnderWay
  <2>1. /\ text' = [text EXCEPT ![index] = Nul] /\ handler' = "stopped"
        /\ UNCHANGED <<opened, index, typed, damaged>>
    BY <1>6 DEF ReadUnderWay, Read, Handling, heard
  <2>2. text' \in [Places -> Printed \cup {Nul}] /\ index \in Places
    BY <2>1 DEF LineInv
  <2>3. LineIsTyped'
    <3> SUFFICES ASSUME opened, ~ damaged, pc \notin {"index", "memset"}
                 PROVE  LineIsTyped'
      BY <1>1, <2>1 DEF LineIsTyped
    <3>1. /\ index = Len(typed)
          /\ \A i \in 1 .. Len(typed) : text[i - 1] = typed[i]
      BY DEF LineInv, LineIsTyped
    <3>2. typed \in Seq(Printed) /\ Len(typed) \in Nat
      BY DEF LineInv
    <3>3. ASSUME NEW i \in 1 .. Len(typed)
          PROVE  text'[i - 1] = typed[i]
      <4>1. i - 1 \in Places /\ i - 1 # index
        BY <2>2, <3>1, <3>2, PortsAssumption DEF Places
      <4>2. text'[i - 1] = text[i - 1]
        BY <2>1, <4>1 DEF LineInv
      <4> QED
        BY <3>1, <4>2
    <3> QED
      BY <1>1, <2>1, <3>1, <3>3 DEF LineIsTyped
  <2> QED
    BY <1>1, <2>1, <2>2, <2>3 DEF LineInv
<1>5. CASE ReadEmptyLine \/ ReadOtherLine \/ DiskCommandEnds
  <2>1. /\ index' = 0 /\ typed' = << >> /\ damaged' = (pc \in {"index", "memset"})
        /\ text' \in {text, [i \in Places |-> Nul]}
        /\ opened' = opened /\ handler' = "loop"
    BY <1>5 DEF ReadEmptyLine, ReadOtherLine, DiskCommandEnds, Read, Handling, LineEnds,
                ClearBuffer, shell
  <2>2. index' \in Places /\ text' \in [Places -> Printed \cup {Nul}]
    BY <2>1, PortsAssumption DEF LineInv, Places
  <2>3. LineIsTyped'
    BY <2>1 DEF LineIsTyped
  <2> QED
    BY <1>1, <2>1, <2>2, <2>3 DEF LineInv, Starting
<1> QED
  BY <1>2, <1>3, <1>4, <1>5, <1>6 DEF Reads

\* Every step keeps the line.
LEMMA LineStep ==
    ASSUME LineInv, [Next]_vars
    PROVE  LineInv'
<1>1. CASE UNCHANGED vars
  BY <1>1, LineFrame DEF vars, serial, shell, heard, ahci, call
<1>2. CASE Probe \/ NoInput \/ SelectInput \/ EnableInterrupt \/ UnmaskInput
  <2>1. /\ UNCHANGED <<opened, text, index, typed, damaged, handler>>
        /\ pc \in Starting /\ pc' \in Starting \cup {"start"} /\ handler = "out"
    BY <1>2 DEF Probe, NoInput, SelectInput, EnableInterrupt, UnmaskInput, Boot, shell,
                heard, Starting
  <2> QED
    BY <2>1, LineFrame DEF LineInv
<1>3. CASE Afterwards
  BY <1>3, LineStart
<1>4. CASE Reads
  BY <1>4, LineReads
<1>5. CASE HandlerEnds \/ (\E v \in Vectors : Interrupt(v))
           \/ (\E c \in Printed \cup {Return, Bell} : Receive(c))
  <2>1. /\ UNCHANGED <<opened, text, index, typed, damaged, pc, command>>
        /\ handler' = "disk" => handler = "disk"
    BY <1>5 DEF HandlerEnds, Interrupt, Receive, Handling, shell, heard, ahci, call
  <2> QED
    BY <2>1, LineFrame
<1>6. CASE DiskStep \/ Wakes \/ DevicesStep
  <2>1. UNCHANGED <<opened, text, index, typed, damaged, pc, handler, command>>
    BY <1>6, DiskFrame DEF serial, shell, heard
  <2> QED
    BY <2>1, LineFrame
<1> QED
  BY <1>1, <1>2, <1>3, <1>4, <1>5, <1>6, NextCases DEF KernelStep, Afterwards, Reads

\* The command buffer is empty at first.
LEMMA LineInit == Init => LineInv
<1> SUFFICES ASSUME Init PROVE LineInv
  OBVIOUS
<1>1. 0 \in Places /\ text \in [Places -> Printed \cup {Nul}]
  BY PortsAssumption DEF Init, Places
<1> QED
  BY <1>1 DEF Init, LineInv, LineIsTyped, Starting

\* The command buffer holds what was typed, and a disk command runs only on a line
\* that is its name (uart_command_buffer_append, __uart_command_match), however the
\* set-up of the buffer is interrupted, unless a character was read during it.
THEOREM LineKept == Spec => []LineIsTyped
<1>1. Init => LineInv
  BY LineInit
<1>2. LineInv /\ [Next]_vars => LineInv'
  BY LineStep
<1>3. LineInv => LineIsTyped
  BY DEF LineInv
<1> QED
  BY <1>1, <1>2, <1>3, PTL DEF Spec

----------------------------------------------------------------------------
(* The disk commands *)

Configuring == {"configure", "halt", "poll", "start"}
Reading == {"build", "ready", "wait", "print"}

\* Where the driver and the handler can be.
PlacesInv ==
    /\ machine \in Machines
    /\ handler \in {"out", "loop", "disk", "stopped"}
    /\ handler # "disk" => at = "idle"
    /\ found \in BOOLEAN /\ checked \in BOOLEAN /\ loaded \in BOOLEAN
    /\ good \in BOOLEAN /\ fault \in BOOLEAN /\ torn \in BOOLEAN
    /\ loaded => checked
    /\ drives \subseteq Ports /\ (~ loaded => drives = {})
    /\ at \in Configuring => loaded
    /\ port \in 0 .. PortCount
    /\ at \in {"halt", "poll", "start"} \cup Reading => port \in drives
    /\ at = "configure" => port \in drives \cup {PortCount}
    /\ at \in Reading => machine.kind[port] = "SATA"

(* The number of pages *)

Unread == IF held = NoChar THEN 0 ELSE 1

\* The ports whose lists the driver has made, and those it has read from at most in
\* the command that runs.
Made ==
    CASE at \in {"configure", "halt", "poll"} -> port
      [] at = "start"                         -> port + 1
      [] OTHER                                -> PortCount
Turned ==
    CASE at \in {"load"} \cup Configuring -> 0
      [] at = "dump"                      -> port
      [] at \in Reading                   -> port + 1
      [] OTHER                            -> PortCount

ForDriver == IF loaded THEN 1 + 2 * Made ELSE 0
ForReads ==
    IF handler = "disk" THEN (arrived - Unread - 1) * PortCount + Turned
    ELSE (arrived - Unread) * PortCount

\* No more pages are taken than other code may take, the driver's lists need, and the
\* commands that were typed read into.
BudgetInv ==
    /\ fresh \in Nat \ {0}
    /\ IsFiniteSet(given) /\ Cardinality(given) <= MaxGiven + 1
    /\ \A n \in given : n \in Nat /\ n < fresh
    /\ base # NoPage => base \in Nat /\ base <= fresh /\ base \notin given
    /\ pc \in Starting \cup {"start"} => given = {}
    /\ base # NoPage => pc \in Allocating /\ Cardinality(given) < MaxGiven
    /\ arrived \in Nat /\ arrived <= MaxTyped
    /\ held # NoChar => arrived >= 1
    /\ handler = "disk" => arrived >= 1 + Unread
    /\ fresh <= 1 + Cardinality(given) + ForDriver + ForReads

(* Their contents *)

\* The ports whose lists have been made.
Listed ==
    CASE at \in {"configure", "halt", "poll"} -> {p \in drives : p < port}
      [] at = "start"                         -> {p \in drives : p <= port}
      [] OTHER                                -> drives

\* A list names the table two pages behind it; the lists lie in the order of their
\* ports, below the buffer that is read into.
ListsInv ==
    /\ DOMAIN mem = 0 .. LastPage
    /\ \A n \in DOMAIN mem : mem[n].kind = "list" => mem[n].of = n + 2 /\ n + 2 <= LastPage
    /\ \A p \in Ports : hba[p].list < fresh
    /\ at # "lost" => \A p \in Listed : hba[p].list # 0 /\ hba[p].list + 2 <= fresh
    /\ at # "lost" => \A p, q \in Listed : p < q => hba[p].list + 2 <= hba[q].list
    /\ buffer \in Nat /\ buffer < fresh
    /\ at \in Reading => \A p \in drives : hba[p].list < buffer

\* A command that is issued is the one that is waited for, or its engine is at rest
\* for good: the drive failed, or nothing has started the engine.
CommandInv ==
    /\ ~ loaded \/ at \in Configuring =>
        \A p \in Ports : ~ hba[p].ci /\ ~ hba[p].tfes /\ ~ hba[p].failed
    /\ \A p \in Ports :
        /\ hba[p].failed => hba[p].cr
        /\ hba[p].ci \/ hba[p].tfes =>
            \/ at = "wait" /\ port = p /\ ~ hba[p].tfes
            \/ hba[p].failed
            \/ ~ hba[p].cr /\ ~ hba[p].st
    /\ at = "ready" \/ (at = "wait" /\ hba[port].ci) =>
        /\ mem[hba[port].list].kind = "list"
        /\ mem[Table(port)] = Content("table", buffer)
    /\ (at = "wait" /\ ~ hba[port].ci) \/ (at = "print" /\ good) =>
        mem[buffer] = Content("sector", port)

\* The drive that the dump comes to next.
Ahead(p) ==
    \/ at = "dump" /\ Turn = p
    \/ at = "build" /\ port = p
    \/ at \in {"ready", "wait", "print"} /\ NextDrive(port + 1, drives) = p

\* A list that has been written over is where the table of an earlier drive is, whose
\* own list is as it was, or which is the next to be read.
OverwrittenInv ==
    /\ at \in Configuring => \A q \in Listed : mem[hba[q].list].kind = "list"
    /\ at # "lost" => \A q \in Listed : mem[hba[q].list].kind # "list" =>
        \E p \in drives :
            /\ p < q /\ hba[p].list + 2 = hba[q].list /\ machine.kind[p] = "SATA"
            /\ mem[hba[p].list].kind = "list" \/ Ahead(p)

\* The processor stops where the driver is lost, with no buffer for a character, or in
\* a list that is being made.
FaultInv ==
    /\ fault => at = "lost" \/ ~ opened \/ ListUnderWay
    /\ at = "lost" => fault /\ handler = "disk"
    /\ DriverFaultExplained

\* A character's interrupt is raised only on a line that there is, whatever the ninth
\* byte of available_com_ports has hit.
RoutingTypesInv ==
    /\ IrqTypeOK
    /\ uart \in [masked : BOOLEAN, gsi : Lines \cup {0}, vector : Vectors]
    /\ pc \in {"probe", "select"} => vectors = 0 .. Exceptions - 1 /\ ~ enabled
    /\ enabled \/ pc = "enable" => uart.gsi \in Lines

\* The loop over the ports goes on to the first with a drive.
LEMMA NextDriveProperties ==
    ASSUME NEW set, set \subseteq Ports, NEW n \in Nat
    PROVE  /\ NextDrive(n, set) \in set \cup {PortCount}
           /\ NextDrive(n, set) # PortCount => NextDrive(n, set) >= n
           /\ \A p \in set : p >= n => NextDrive(n, set) <= p
           /\ NextDrive(n, set) = PortCount => \A p \in set : p < n
<1> DEFINE rest == {p \in set : p >= n}
           least == CHOOSE p \in rest : \A q \in rest : p <= q
<1>a. PortCount \in Nat \ {0}
  BY MachineAssumption
<1>1. /\ \A p \in set : p \in Nat /\ p < PortCount
      /\ PortCount \in Nat
  BY <1>a DEF Ports
<1>2. CASE rest = {}
  <2>1. NextDrive(n, set) = PortCount
    BY <1>2 DEF NextDrive
  <2> QED
    BY <1>1, <1>2, <2>1
<1>3. CASE rest # {}
  <2>1. NextDrive(n, set) = least
    BY <1>3 DEF NextDrive
  <2>2. rest \subseteq Nat
    BY <1>1
  <2>3. \E p \in rest : \A q \in rest : p <= q
    BY <1>3, <2>2, LeastNatural
  <2>4. least \in rest /\ \A q \in rest : least <= q
    BY <2>3
  <2> HIDE DEF least
  <2>5. least \in set /\ least >= n /\ least # PortCount
    BY <1>1, <2>4
  <2> QED
    BY <2>1, <2>4, <2>5
<1> QED
  BY <1>2, <1>3

(* Places *)

\* What the boot code, the other kernel code and the shell leave of the driver.
LEMMA KernelLeaves ==
    ASSUME KernelStep \/ AllocCommandBuffer \/ KernelReads \/ KernelTakes
    PROVE  /\ UNCHANGED <<machine, checked, loaded, drives, hba, mem, port, buffer, good,
                          taken, torn>>
           /\ found' \in BOOLEAN \cup {found} /\ fault' \in {fault, TRUE}
           /\ ~ fault
           /\ \/ at' = at /\ (handler' = "disk" <=> handler = "disk")
              \/ handler # "disk" /\ handler' = "disk" /\ at' = "load"
              \/ at = "done" /\ at' = "idle" /\ handler' = "loop"
           /\ handler' = handler \/ handler' \in {"out", "loop", "disk", "stopped"}
<1>1. CASE \/ Probe \/ NoInput \/ SelectInput \/ EnableInterrupt \/ UnmaskInput
           \/ ResetIndex \/ ClearText \/ ListsGrow
           \/ AllocCommandBuffer \/ KernelReads \/ KernelTakes
  BY <1>1
     DEF Probe, NoInput, SelectInput, EnableInterrupt, UnmaskInput, ResetIndex, ClearText,
         ListsGrow, PciCounts, PciSets, PciLoaded, TaskLinks, TaskLinked, SetEntry,
         AllocCommandBuffer, KernelReads, KernelTakes, ReadSection,
         MoveSection, Boot, ahci, driver, call, pages
<1>2. CASE (\E v \in Vectors : Interrupt(v)) \/ HandlerEnds
  BY <1>2 DEF Interrupt, HandlerEnds, Handling, ahci, driver, call, pages
<1>3. CASE ReadBell \/ ReadPrinted \/ ReadNowhere \/ ReadEmptyLine \/ ReadOtherLine \/ ReadUnderWay
  BY <1>3
     DEF ReadBell, ReadPrinted, ReadNowhere, ReadEmptyLine, ReadOtherLine, ReadUnderWay, Read, Handling,
         ahci, driver, call, pages
<1>4. CASE \E name \in DiskCommands : ReadDiskCommand(name)
  BY <1>4 DEF ReadDiskCommand, Read, Handling, driver, pages
<1>5. CASE DiskCommandEnds
  BY <1>5 DEF DiskCommandEnds, Handling, driver, call, pages
<1>6. CASE \E c \in Printed \cup {Return, Bell} : Receive(c)
  BY <1>6 DEF Receive, ahci, driver, call, pages
<1> QED
  BY <1>1, <1>2, <1>3, <1>4, <1>5, <1>6 DEF KernelStep

\* The driver is where it was, but for the driver's own steps.
LEMMA PlacesInit == Init => PlacesInv
<1> SUFFICES ASSUME Init PROVE PlacesInv
  OBVIOUS
<1>1. PortCount \in Nat \ {0}
  BY MachineAssumption
<1>2. /\ machine \in Machines /\ handler = "out" /\ at = "idle" /\ port = 0
      /\ found = FALSE /\ checked = FALSE /\ loaded = FALSE /\ drives = {}
      /\ good = FALSE /\ fault = FALSE /\ torn = FALSE
  BY DEF Init, AhciInit
<1>3. ~ loaded /\ 0 \in 0 .. PortCount
  BY <1>1, <1>2
<1>4. found \in BOOLEAN /\ checked \in BOOLEAN /\ loaded \in BOOLEAN
      /\ good \in BOOLEAN /\ fault \in BOOLEAN /\ torn \in BOOLEAN
  BY <1>2
<1> QED
  BY <1>2, <1>3, <1>4 DEF PlacesInv, Configuring, Reading

\* The ports that are implemented are ports.
LEMMA Implemented ==
    ASSUME PlacesInv
    PROVE  machine.implemented \subseteq Ports
BY MachineAssumption DEF PlacesInv, Ports

\* A step of the driver leads from one of its places to another.
LEMMA PlacesDriver ==
    ASSUME PlacesInv, handler = "disk", UNCHANGED handler, DriverStep \/ Wake
    PROVE  PlacesInv'
<1> USE DEF Configuring, Reading
<1>1. PortCount \in Nat \ {0} /\ port \in 0 .. PortCount
  BY MachineAssumption DEF PlacesInv
<1>2. /\ ~ fault /\ ~ torn /\ UNCHANGED <<machine, found, handler, command>>
  BY DriverFrame DEF DriverStep, Wake, Step, others, Available, LoadNothing, LoadNoBar,
       LoadDriver, LoadBeyond, LoadPorts, CommandStop, StillRunning, Rebase, CommandStart,
       Configured,
       SkipDrive, DumpDone, AllocBuffer, BuildWild, BuildCommand, WatchdogEnds,
       Issue, ReadEnds, PrintSector
<1>3. drives \subseteq Ports /\ 0 \in Nat
  BY DEF PlacesInv
<1>4. CASE LoadDriver
  <2>1. /\ at' = "configure" /\ checked' = TRUE /\ loaded' = TRUE
        /\ drives' = {p \in machine.implemented \ Beyond : machine.kind[p] # "none"}
        /\ port' = NextDrive(0, drives') /\ torn' = (base # NoPage)
        /\ UNCHANGED <<good, fault>>
    BY <1>4 DEF LoadDriver, LoadPorts, Step, FirstDrive, Take
  <2>2. drives' \subseteq Ports
    BY <2>1, Implemented
  <2>3. port' \in drives' \cup {PortCount}
    BY <1>3, <2>1, <2>2, NextDriveProperties
  <2>4. port' \in 0 .. PortCount
    BY <1>1, <2>2, <2>3 DEF Ports
  <2> QED
    BY <1>2, <2>1, <2>2, <2>3, <2>4 DEF PlacesInv
<1>16. CASE LoadBeyond
  <2>1. /\ at' = "lost" /\ checked' = TRUE /\ loaded' = TRUE
        /\ drives' \subseteq machine.implemented /\ fault' = TRUE
        /\ torn' = (base # NoPage)
        /\ UNCHANGED <<good, port>>
    BY <1>16 DEF LoadBeyond, LoadPorts, Step, Take
  <2> QED
    BY <1>1, <1>2, <2>1, Implemented DEF PlacesInv
<1>5. CASE CommandStart
  <2>1. /\ at = "start" /\ at' = "configure" /\ port' = NextDrive(port + 1, drives)
        /\ UNCHANGED <<checked, loaded, drives, pages, good, fault>>
    BY <1>5 DEF CommandStart, Step, driver
  <2>2. port' \in drives \cup {PortCount}
    <3>1. port + 1 \in Nat
      BY <1>1
    <3> QED
      BY <1>3, <2>1, <3>1, NextDriveProperties
  <2>3. port' \in 0 .. PortCount
    BY <1>1, <1>3, <2>1, <2>2 DEF Ports
  <2>4. torn' = torn
    BY <2>1 DEF pages
  <2> QED
    BY <1>2, <2>1, <2>2, <2>3, <2>4 DEF PlacesInv
<1>6. CASE Rebase
  BY <1>2, <1>6 DEF Rebase, Step, Take, PlacesInv, driver, call
<1>7. CASE AllocBuffer
  <2>1. /\ at' = "build" /\ Turn < PortCount /\ machine.kind[Turn] = "SATA" /\ port' = Turn
        /\ torn' = (base # NoPage)
        /\ UNCHANGED <<checked, loaded, drives, good, fault>>
    BY <1>7 DEF AllocBuffer, Step, Take, driver
  <2>2. Turn \in drives \cup {PortCount}
    BY <1>1, <1>3, NextDriveProperties DEF Turn
  <2>3. Turn \in drives /\ Turn \in 0 .. PortCount
    BY <1>1, <1>3, <2>1, <2>2 DEF Ports
  <2> QED
    BY <1>2, <2>1, <2>3 DEF PlacesInv
<1>8. CASE SkipDrive
  <2>1. /\ at' = "dump" /\ Turn < PortCount /\ port' = Turn + 1
        /\ UNCHANGED <<checked, loaded, drives, torn, good, fault>>
    BY <1>8 DEF SkipDrive, Step, driver, pages
  <2>2. Turn \in drives \cup {PortCount}
    BY <1>1, <1>3, NextDriveProperties DEF Turn
  <2>3. port' \in 0 .. PortCount
    BY <1>1, <1>3, <2>1, <2>2 DEF Ports
  <2> QED
    BY <1>2, <2>1, <2>3 DEF PlacesInv
<1>9. CASE PrintSector
  <2>1. /\ at = "print" /\ at' = "dump" /\ port' = port + 1
        /\ UNCHANGED <<checked, loaded, drives, torn, good, fault>>
    BY <1>9 DEF PrintSector, Step, driver, pages
  <2>2. port \in drives
    BY <2>1 DEF PlacesInv
  <2>3. port' \in 0 .. PortCount
    BY <1>1, <1>3, <2>1, <2>2 DEF Ports
  <2> QED
    BY <1>2, <2>1, <2>3 DEF PlacesInv
<1>10. CASE Available \/ LoadNothing \/ LoadNoBar \/ Configured
  <2>1. /\ at' \in {"dump", "done", "lost"}
        /\ checked' \in {checked, TRUE} /\ port' \in {port, 0} /\ fault' \in {fault, TRUE}
        /\ UNCHANGED <<loaded, drives, good, torn>>
    <3>1. Body \in {"dump", "done"}
      BY DEF Body
    <3>2. CASE Available \/ Configured
      BY <3>1, <3>2 DEF Available, Configured, Step, driver, pages
    <3>3. CASE LoadNothing
      BY <3>3 DEF LoadNothing, Step, driver, pages, call
    <3>4. CASE LoadNoBar
      BY <3>1, <3>4 DEF LoadNoBar, Step, pages, call
    <3> QED
      BY <1>10, <3>2, <3>3, <3>4
  <2>2. port' \in 0 .. PortCount
    BY <1>1, <2>1
  <2>3. /\ checked' \in BOOLEAN /\ fault' \in BOOLEAN
        /\ loaded' => checked'
    <3>1. checked \in BOOLEAN /\ fault \in BOOLEAN /\ (loaded => checked)
      BY DEF PlacesInv
    <3>2. CASE checked' = checked
      BY <2>1, <3>1, <3>2, Zenon
    <3>3. CASE checked' = TRUE
      BY <2>1, <3>1, <3>3, Zenon
    <3> QED
      BY <2>1, <3>2, <3>3
  <2> QED
    BY <1>2, <2>1, <2>2, <2>3 DEF PlacesInv
<1>11. CASE CommandStop \/ StillRunning \/ Wake
  BY <1>1, <1>2, <1>11
     DEF CommandStop, StillRunning, Wake, Step, PlacesInv, driver, call, pages
<1>12. CASE DumpDone
  BY <1>2, <1>12 DEF DumpDone, Step, PlacesInv, driver, call, pages
<1>13. CASE BuildWild
  <2>1. /\ at' = "lost" /\ fault' = TRUE
        /\ UNCHANGED <<checked, loaded, drives, port, good, torn>>
    BY <1>13 DEF BuildWild, Step, driver, call, pages
  <2> QED
    BY <1>2, <2>1 DEF PlacesInv
<1>14. CASE BuildCommand \/ Issue
  <2>1. /\ at \in Reading /\ at' \in Reading
        /\ UNCHANGED <<checked, loaded, drives, port, good, fault, torn>>
    BY <1>14 DEF BuildCommand, Issue, Step, driver, call, pages
  <2> QED
    BY <1>2, <2>1 DEF PlacesInv
<1>15. CASE WatchdogEnds \/ ReadEnds
  <2>1. /\ at \in Reading /\ at' = "print"
        /\ good' \in BOOLEAN
        /\ UNCHANGED <<checked, loaded, drives, port, fault, torn>>
    BY <1>15, ZenonT(30) DEF WatchdogEnds, ReadEnds, ReadResult, Step, driver, pages
  <2> QED
    BY <1>2, <2>1 DEF PlacesInv
<1> QED
  BY <1>4, <1>5, <1>6, <1>7, <1>8, <1>9, <1>10, <1>11, <1>12, <1>13,
     <1>14, <1>15, <1>16 DEF DriverStep

\* Every step leads from a place to a place.
LEMMA PlacesStep ==
    ASSUME PlacesInv, [Next]_vars
    PROVE  PlacesInv'
<1>1. CASE UNCHANGED vars
  BY <1>1 DEF PlacesInv, vars, serial, ahci, driver, call, pages
<1>2. CASE KernelStep \/ AllocCommandBuffer \/ KernelReads \/ KernelTakes
  <2>1. /\ UNCHANGED <<machine, checked, loaded, drives, port, good, torn>>
        /\ found' \in BOOLEAN \cup {found} /\ fault' \in {fault, TRUE}
        /\ \/ at' = at /\ (handler' = "disk" <=> handler = "disk")
           \/ handler # "disk" /\ handler' = "disk" /\ at' = "load"
           \/ at = "done" /\ at' = "idle" /\ handler' = "loop"
        /\ handler' = handler \/ handler' \in {"out", "loop", "disk", "stopped"}
    BY <1>2, KernelLeaves
  <2>2. found' \in BOOLEAN /\ fault' \in BOOLEAN
    BY <2>1 DEF PlacesInv
  <2> QED
    BY <2>1, <2>2 DEF PlacesInv, Configuring, Reading
<1>3. CASE DiskStep \/ Wakes
  BY <1>3, PlacesDriver DEF DiskStep, Wakes, serial
<1>4. CASE DevicesStep
  <2>1. /\ UNCHANGED <<machine, found, driver, pages, at, call, fault>>
        /\ handler' = handler
    BY <1>4, ControllerFrame DEF DevicesStep, serial
  <2> QED
    BY <2>1 DEF PlacesInv, driver, pages, call
<1> QED
  BY <1>1, <1>2, <1>3, <1>4, NextCases

(* The pages of the command tables *)

\* The tables of a port are in pages that the driver has taken since, but for the
\* last port that was configured, and for nobody while the driver configures.
TablesInv ==
    /\ \A p \in Ports : hba[p].list < fresh
    /\ ~ loaded => \A p \in Ports : hba[p].list = NoPage
    /\ \A p, q \in Ports :
        NoPage < hba[p].list /\ hba[p].list < hba[q].list => TablePages(p) \subseteq taken
    /\ at \in Configuring => \A p \in Ports :
        NoPage < hba[p].list => TablePages(p) \subseteq taken \/ hba[p].list + 2 = fresh

\* The tables stay where they are in a step that makes no list.
LEMMA TablesKept ==
    ASSUME PagesInv, EnginesInv, TablesInv,
           \A p \in Ports : hba'[p].list = hba[p].list,
           fresh' \in Nat, fresh <= fresh', taken \subseteq taken',
           ~ loaded' => ~ loaded,
           at' \in Configuring => (at \in Configuring /\ fresh' = fresh) \/ ~ loaded
    PROVE  TablesInv'
<1>1. \A p \in Ports : hba[p].list \in Nat /\ TablePages(p)' = TablePages(p)
  BY DEF EnginesInv, Registers, TablePages
<1>2. fresh \in Nat
  BY DEF PagesInv
<1>3. \A p \in Ports : hba'[p].list < fresh'
  BY <1>1, <1>2 DEF TablesInv
<1>4. ~ loaded' => \A p \in Ports : hba'[p].list = NoPage
  BY DEF TablesInv
<1>5. \A p, q \in Ports :
        NoPage < hba'[p].list /\ hba'[p].list < hba'[q].list =>
            TablePages(p)' \subseteq taken'
  BY <1>1 DEF TablesInv
<1>6. at' \in Configuring => \A p \in Ports :
        NoPage < hba'[p].list =>
            TablePages(p)' \subseteq taken' \/ hba'[p].list + 2 = fresh'
  <2>1. CASE ~ loaded
    BY <2>1 DEF TablesInv, NoPage
  <2>2. CASE at \in Configuring /\ fresh' = fresh
    BY <1>1, <2>2 DEF TablesInv
  <2> QED
    BY <2>1, <2>2
<1> QED
  BY <1>3, <1>4, <1>5, <1>6 DEF TablesInv

\* A new list and its received FISes are where the tables of the list before are.
LEMMA TablesRebase ==
    ASSUME PagesInv, EnginesInv, PlacesInv, TablesInv, Rebase
    PROVE  TablesInv'
<1>1. /\ at = "poll" /\ at' = "start" /\ fresh' = fresh + 2
      /\ taken' = taken \cup fresh .. fresh + 2 - 1
      /\ hba' = [hba EXCEPT ![port].list = fresh] /\ loaded' = loaded
  BY DEF Rebase, Step, Take, Lists, driver
<1>2. loaded /\ port \in Ports
  BY <1>1 DEF PlacesInv, Configuring
<1>3. fresh \in Nat \ {0}
  BY DEF PagesInv
<1>4. \A p \in Ports : hba[p].list \in Nat /\ hba[p].list < fresh
  BY DEF EnginesInv, Registers, TablesInv
<1>5. /\ hba'[port].list = fresh
      /\ \A p \in Ports : p # port => hba'[p].list = hba[p].list
  BY <1>1, <1>2 DEF EnginesInv, Registers
<1>6. fresh \in taken' /\ fresh + 1 \in taken'
  BY <1>1, <1>3
<1>7. ASSUME NEW p \in Ports, p # port, NoPage < hba'[p].list
      PROVE  TablePages(p)' \subseteq taken'
  <2>1. TablePages(p) \subseteq taken \/ hba[p].list + 2 = fresh
    BY <1>1, <1>5, <1>7 DEF TablesInv, Configuring
  <2>2. TablePages(p)' = {hba[p].list + 2, hba[p].list + 3}
    BY <1>5, <1>7 DEF TablePages
  <2>3. CASE TablePages(p) \subseteq taken
    BY <1>1, <2>2, <2>3 DEF TablePages
  <2>4. CASE hba[p].list + 2 = fresh
    <3>1. hba[p].list + 3 = fresh + 1
      BY <1>4, <2>4
    <3> QED
      BY <1>6, <2>2, <2>4, <3>1
  <2> QED
    BY <2>1, <2>3, <2>4
<1>8. \A p \in Ports : hba'[p].list < fresh'
  BY <1>1, <1>3, <1>4, <1>5
<1>9. ASSUME NEW p \in Ports, NEW q \in Ports, NoPage < hba'[p].list,
             hba'[p].list < hba'[q].list
      PROVE  TablePages(p)' \subseteq taken'
  <2>1. p # port
    BY <1>3, <1>4, <1>5, <1>9
  <2> QED
    BY <1>7, <1>9, <2>1
<1>10. ASSUME NEW p \in Ports, NoPage < hba'[p].list
       PROVE  TablePages(p)' \subseteq taken' \/ hba'[p].list + 2 = fresh'
  BY <1>1, <1>5, <1>7, <1>10
<1> QED
  BY <1>1, <1>2, <1>8, <1>9, <1>10 DEF TablesInv

\* Every step keeps the tables' pages.
LEMMA TablesStep ==
    ASSUME PagesInv, EnginesInv, PlacesInv, TablesInv, [Next]_vars
    PROVE  TablesInv'
<1>1. CASE UNCHANGED vars
  BY <1>1, TablesKept DEF vars, serial, ahci, driver, call, pages, PagesInv
<1>2. CASE KernelStep \/ AllocCommandBuffer \/ KernelReads \/ KernelTakes
  <2>1. /\ UNCHANGED <<hba, loaded, taken>>
        /\ \/ at' = at
           \/ at' \in {"load", "idle"}
    BY <1>2, KernelLeaves
  <2>2. fresh \in Nat /\ fresh' \in {fresh, fresh + 1}
    BY <1>2, KernelFrame
       DEF AllocCommandBuffer, KernelReads, KernelTakes, ReadSection, MoveSection, pages,
           PagesInv
  <2>3. fresh' # fresh => at' \notin Configuring
    <3>1. KernelStep => fresh' = fresh
      BY KernelFrame
    <3>2. CASE AllocCommandBuffer \/ KernelReads \/ KernelTakes
      <4>1. handler = "out" /\ at' = at
        BY <3>2 DEF AllocCommandBuffer, KernelReads, KernelTakes, ReadSection,
                    MoveSection, Boot
      <4> QED
        BY <4>1 DEF PlacesInv, Configuring
    <3> QED
      BY <1>2, <3>1, <3>2
  <2>4. fresh' \in Nat /\ fresh <= fresh'
    BY <2>2
  <2>5. at' \in Configuring => at \in Configuring /\ fresh' = fresh
    BY <2>1, <2>3 DEF Configuring
  <2> QED
    BY <2>1, <2>4, <2>5, TablesKept
<1>3. CASE DiskStep \/ Wakes
  <2>1. CASE Rebase
    BY <2>1, TablesRebase
  <2>2. CASE ~ Rebase
    <3>1. \A p \in Ports : hba'[p].list = hba[p].list
      <4>1. \/ hba' = hba
            \/ hba' = [hba EXCEPT ![port].st = FALSE, ![port].fre = FALSE]
            \/ hba' = [hba EXCEPT ![port].st = TRUE, ![port].fre = TRUE]
            \/ hba' = [hba EXCEPT ![port].tfes = FALSE]
            \/ hba' = [hba EXCEPT ![port].ci = TRUE]
        BY <1>3, <2>2
           DEF DiskStep, Wakes, DriverStep, Wake, Available, LoadNothing, LoadNoBar,
               LoadDriver, LoadBeyond, LoadPorts, CommandStop, StillRunning, CommandStart,
               Configured, SkipDrive, DumpDone, AllocBuffer, BuildWild, BuildCommand,
               WatchdogEnds, Issue, ReadEnds, PrintSector
      <4> QED
        BY <4>1 DEF EnginesInv, Registers
    <3>2. \/ UNCHANGED pages
          \/ ~ torn /\ \E n \in Nat : Take(n)
      BY <1>3, DriverTakes DEF DiskStep, Wakes
    <3>3. fresh' \in Nat /\ fresh <= fresh' /\ taken \subseteq taken'
      BY <3>2 DEF PagesInv, pages, Take
    <3>4. ~ loaded' => ~ loaded
      BY <1>3 DEF DiskStep, Wakes, DriverStep, Wake, driver, Available, LoadNothing,
                  LoadNoBar, LoadDriver, LoadBeyond, LoadPorts, CommandStop, StillRunning,
                  Rebase, CommandStart, Configured, SkipDrive, DumpDone, AllocBuffer,
                  BuildWild, BuildCommand, WatchdogEnds, Issue, ReadEnds, PrintSector
    <3>5. at' \in Configuring => (at \in Configuring /\ fresh' = fresh) \/ ~ loaded
      <4>1. CASE LoadDriver \/ LoadBeyond
        BY <4>1 DEF LoadDriver, LoadBeyond, LoadPorts, PlacesInv
      <4>2. CASE CommandStop \/ StillRunning \/ Wake \/ CommandStart
        BY <4>2 DEF CommandStop, StillRunning, Wake, CommandStart, Step, pages, Configuring
      <4>3. CASE ~ (\/ LoadDriver \/ LoadBeyond \/ CommandStop \/ StillRunning
                    \/ Wake \/ CommandStart)
        <5>1. Body \notin Configuring
          BY DEF Body, Configuring
        <5> QED
          BY <1>3, <2>2, <4>3, <5>1
             DEF DiskStep, Wakes, DriverStep, Available, LoadNothing, LoadNoBar, Configured,
                 SkipDrive, DumpDone, AllocBuffer, BuildWild, BuildCommand, WatchdogEnds,
                 Issue, ReadEnds, PrintSector, Step, Configuring
      <4> QED
        BY <4>1, <4>2, <4>3
    <3> QED
      BY <3>1, <3>3, <3>4, <3>5, TablesKept
  <2> QED
    BY <2>1, <2>2
<1>4. CASE DevicesStep
  <2>1. /\ UNCHANGED <<driver, pages, at>>
        /\ \A p \in Ports : hba'[p].list = hba[p].list
    BY <1>4, ControllerFrame, ControllerWrites DEF DevicesStep
  <2> QED
    BY <2>1, TablesKept DEF driver, pages, PagesInv
<1> QED
  BY <1>1, <1>2, <1>3, <1>4, NextCases

\* No page that the driver took is given to other code, nor one that holds command
\* tables, but those of the port that was configured last, unless the driver cut an
\* allocation off in the middle (pmm_alloc_page in the serial interrupt).
THEOREM OneOwner == Spec => []PagesApart
<1> DEFINE Inv == PagesInv /\ EnginesInv /\ PlacesInv /\ TablesInv
<1>1. Init => Inv
  <2> SUFFICES ASSUME Init PROVE Inv
    OBVIOUS
  <2>1. /\ fresh = 1 /\ base = NoPage /\ taken = {} /\ given = {} /\ at = "idle"
        /\ \A p \in Ports : hba[p].list = NoPage
    BY DEF Init, AhciInit
  <2>2. PagesInv /\ TablesInv
    BY <2>1 DEF PagesInv, TablesInv, NoPage, Configuring
  <2> QED
    BY <2>2, EnginesInit, PlacesInit
<1>2. Inv /\ [Next]_vars => Inv'
  BY PagesStep, EnginesStep, PlacesStep, TablesStep
<1>3. Inv => PagesApart
  BY DEF PagesInv, TablesInv, PagesApart
<1> QED
  BY <1>1, <1>2, <1>3, PTL DEF Spec

----------------------------------------------------------------------------
(* The number of pages *)

\* A product grows with its first factor.
LEMMA ProductGrows ==
    ASSUME NEW n \in Nat, NEW a \in Int, NEW b \in Int, a <= b
    PROVE  a * n \in Int /\ b * n \in Int /\ a * n <= b * n
<1>1. PICK d \in Nat : b = a + d
  <2>1. b - a \in Nat /\ b = a + (b - a)
    OBVIOUS
  <2> QED
    BY <2>1
<1>2. b * n = a * n + d * n /\ d * n \in Nat /\ a * n \in Int
  BY <1>1
<1> QED
  BY <1>2

\* ... by the second, for each one.
LEMMA ProductNext ==
    ASSUME NEW n \in Nat, NEW a \in Int
    PROVE  a * n \in Int /\ (a + 1) * n = a * n + n
OBVIOUS

\* What the loops have done is at most all of it.
LEMMA ProgressTypes ==
    ASSUME PlacesInv
    PROVE  /\ PortCount \in Nat \ {0} /\ MaxGiven \in Nat /\ MaxTyped \in Nat
           /\ port \in 0 .. PortCount
           /\ Made \in 0 .. PortCount /\ Turned \in 0 .. PortCount
           /\ at = "poll" => Made < PortCount
<1>1. PortCount \in Nat \ {0} /\ MaxGiven \in Nat /\ MaxTyped \in Nat
  BY MachineAssumption, PortsAssumption
<1>2. port \in 0 .. PortCount
  BY DEF PlacesInv
<1>3. at \in {"poll", "start"} \cup Reading => port \in 0 .. PortCount - 1
  BY DEF PlacesInv, Ports
<1>4. Made \in 0 .. PortCount /\ (at = "poll" => Made < PortCount)
  BY <1>1, <1>2, <1>3 DEF Made
<1>5. Turned \in 0 .. PortCount
  BY <1>1, <1>2, <1>3 DEF Turned, Reading
<1> QED
  BY <1>1, <1>2, <1>4, <1>5

\* The bound on the pages is a sum of natural numbers, with room above it.
LEMMA BudgetTypes ==
    ASSUME PlacesInv, BudgetInv
    PROVE  /\ Unread \in {0, 1} /\ Cardinality(given) \in Nat
           /\ ForDriver \in Nat /\ ForDriver <= 1 + 2 * Made
           /\ ForReads \in Nat /\ ForReads <= MaxTyped * PortCount
<1>1. Unread \in {0, 1} /\ Unread <= arrived /\ arrived \in Nat /\ arrived <= MaxTyped
  BY DEF Unread, BudgetInv
<1>2. Cardinality(given) \in Nat
  BY FS_CardinalityType DEF BudgetInv
<1>3. /\ PortCount \in Nat \ {0} /\ MaxTyped \in Nat
      /\ Made \in 0 .. PortCount /\ Turned \in 0 .. PortCount
  BY ProgressTypes
<1>4. ForDriver \in Nat /\ ForDriver <= 1 + 2 * Made
  BY <1>3 DEF ForDriver
<1>5. ForReads \in Nat /\ ForReads <= MaxTyped * PortCount
  <2> DEFINE read == arrived - Unread
             done == read * PortCount
             before == (read - 1) * PortCount
             all == MaxTyped * PortCount
  <2>1. read \in Nat /\ read <= MaxTyped /\ (handler = "disk" => read - 1 \in Nat)
    BY <1>1, <1>3 DEF BudgetInv
  <2>2. read \in Int /\ MaxTyped \in Int /\ read - 1 \in Int /\ read = (read - 1) + 1 /\ PortCount \in Nat
    BY <1>3, <2>1
  <2>3. done \in Int /\ all \in Int /\ done <= all
    BY <2>1, <2>2, ProductGrows
  <2>4. before \in Int /\ (read - 1 + 1) * PortCount = before + PortCount
    BY <2>2, ProductNext
  <2>5. done = before + PortCount
    BY <2>2, <2>4
  <2>6. done \in Nat
    <3>1. 0 * PortCount = 0 /\ 0 \in Int /\ 0 <= read
      BY <1>3, <2>1
    <3> HIDE DEF read
    <3>2. 0 * PortCount <= done
      BY <2>2, <3>1, ProductGrows
    <3> QED
      BY <2>3, <3>1, <3>2
  <2>7. handler = "disk" => before \in Nat
    <3>1. 0 * PortCount = 0 /\ 0 \in Int
      BY <1>3
    <3>2. ASSUME handler = "disk" PROVE 0 * PortCount <= before
      <4>1. 0 <= read - 1
        BY <2>1, <3>2
      <4> QED
        BY <2>2, <3>1, <4>1, ProductGrows
    <3> QED
      BY <2>4, <3>1, <3>2
  <2>8. ForReads = IF handler = "disk" THEN before + Turned ELSE done
    BY DEF ForReads
  <2> HIDE DEF done, before, all
  <2>9. ForReads \in Nat /\ ForReads <= all
    BY <1>3, <2>3, <2>4, <2>5, <2>6, <2>7, <2>8
  <2> QED
    BY <2>9 DEF all
<1> QED
  BY <1>1, <1>2, <1>4, <1>5

\* There is a page for whatever the driver takes next.
LEMMA PagesSuffice ==
    ASSUME PlacesInv, BudgetInv
    PROVE  /\ fresh + 1 <= LastPage /\ LastPage \in Nat
           /\ at = "poll" => fresh + 3 <= LastPage
<1>1. /\ Cardinality(given) \in Nat /\ Cardinality(given) <= MaxGiven + 1
      /\ ForDriver \in Nat /\ ForDriver <= 1 + 2 * Made
      /\ ForReads \in Nat /\ ForReads <= MaxTyped * PortCount
      /\ fresh \in Nat /\ fresh <= 1 + Cardinality(given) + ForDriver + ForReads
  BY BudgetTypes DEF BudgetInv
<1>2. /\ PortCount \in Nat \ {0} /\ MaxGiven \in Nat /\ MaxTyped \in Nat
      /\ Made \in 0 .. PortCount
      /\ at = "poll" => Made < PortCount
  BY ProgressTypes
<1>3. /\ LastPage >= MaxGiven + 4 + 2 * PortCount + MaxTyped * PortCount
      /\ LastPage \in Nat
  BY LastPageAssumption, MachineAssumption
<1>4. MaxTyped * PortCount \in Nat
  BY <1>2
<1> DEFINE all == MaxTyped * PortCount
<1> HIDE DEF all
<1>5. ForReads <= all /\ LastPage >= MaxGiven + 4 + 2 * PortCount + all /\ all \in Nat
  BY <1>1, <1>3, <1>4 DEF all
<1> QED
  BY <1>1, <1>2, <1>3, <1>5

\* A step that takes no page keeps the bound if what may be read grows.
LEMMA BudgetFrame ==
    ASSUME PlacesInv, BudgetInv, PlacesInv',
           UNCHANGED <<fresh, given, base>>,
           base # NoPage => pc' \in Allocating,
           pc' \in Starting \cup {"start"} => pc \in Starting \cup {"start"},
           arrived' \in Nat, arrived' <= MaxTyped,
           held' # NoChar => arrived' >= 1,
           handler' = "disk" => arrived' >= 1 + Unread',
           ForDriver' \in Nat, ForDriver <= ForDriver',
           ForReads' \in Int, ForReads <= ForReads'
    PROVE  BudgetInv'
<1>1. /\ Cardinality(given) \in Nat /\ ForDriver \in Nat /\ ForReads \in Nat
  BY BudgetTypes
<1>2. fresh' <= 1 + Cardinality(given') + ForDriver' + ForReads'
  BY <1>1 DEF BudgetInv
<1> QED
  BY <1>2 DEF BudgetInv

\* At first nothing has been taken.
LEMMA BudgetInit == Init => BudgetInv
<1> SUFFICES ASSUME Init PROVE BudgetInv
  OBVIOUS
<1>1. /\ fresh = 1 /\ given = {} /\ base = NoPage /\ pc = "probe" /\ arrived = 0
      /\ held = NoChar /\ handler = "out" /\ ~ loaded
  BY DEF Init, AhciInit
<1>2. PortCount \in Nat /\ MaxTyped \in Nat /\ MaxGiven \in Nat
  BY MachineAssumption, PortsAssumption
<1>3. IsFiniteSet({}) /\ Cardinality({}) = 0
  BY FS_EmptySet
<1>4. ForDriver = 0 /\ ForReads = 0
  BY <1>1, <1>2 DEF ForDriver, ForReads, Unread
<1> QED
  BY <1>1, <1>2, <1>3, <1>4 DEF BudgetInv, NoPage

\* A character is read only when there is one.
LEMMA ReadsOne ==
    ASSUME \/ ReadBell \/ ReadPrinted \/ ReadNowhere \/ ReadEmptyLine \/ ReadOtherLine \/ ReadUnderWay
           \/ \E name \in DiskCommands : ReadDiskCommand(name)
    PROVE  /\ held # NoChar /\ held' = NoChar
           /\ handler = "loop"
           /\ UNCHANGED <<pc, arrived, fresh, given, base, loaded, port>>
           /\ \/ handler' \in {"loop", "stopped"} /\ at' = at
              \/ handler' = "disk" /\ at' = "load"
<1>1. CASE \/ ReadBell \/ ReadPrinted \/ ReadEmptyLine \/ ReadOtherLine \/ ReadUnderWay
  BY <1>1 DEF ReadBell, ReadPrinted, ReadEmptyLine, ReadOtherLine, ReadUnderWay, Read,
      Handling,
              ahci, driver, call, pages, others
<1>2. CASE ReadNowhere
  BY <1>2 DEF ReadNowhere, Read, Handling, driver, call, pages, others
<1>3. CASE \E name \in DiskCommands : ReadDiskCommand(name)
  BY <1>3 DEF ReadDiskCommand, Read, Handling, driver, pages, others
<1> QED
  BY <1>1, <1>2, <1>3

\* The steps of the boot code that take nothing, and the ends of the interrupt.
LEMMA BudgetPasses ==
    ASSUME PlacesInv, BudgetInv, PlacesInv',
           \/ Probe \/ NoInput \/ SelectInput \/ EnableInterrupt \/ UnmaskInput
           \/ ResetIndex \/ ClearText \/ ListsGrow
           \/ (\E v \in Vectors : Interrupt(v)) \/ HandlerEnds
    PROVE  BudgetInv'
<1>1. /\ UNCHANGED <<fresh, given, base, arrived, held, at, loaded, port>>
      /\ handler # "disk" /\ handler' # "disk"
      /\ base # NoPage => pc' \in Allocating
      /\ pc' \in Starting \cup {"start"} => pc \in Starting \cup {"start"}
  <2>1. CASE \/ Probe \/ NoInput \/ SelectInput \/ EnableInterrupt \/ UnmaskInput
             \/ ResetIndex \/ ClearText \/ ListsGrow
    BY <2>1
       DEF Probe, NoInput, SelectInput, EnableInterrupt, UnmaskInput, ResetIndex, ClearText,
           ListsGrow, PciCounts, PciSets, PciLoaded, TaskLinks, TaskLinked, SetEntry, Boot,
           BudgetInv,
           Allocating, Starting, ahci, driver, call, pages, others
  <2>2. CASE (\E v \in Vectors : Interrupt(v)) \/ HandlerEnds
    BY <2>2 DEF Interrupt, HandlerEnds, Handling, BudgetInv, ahci, driver, call, pages,
                others
  <2> QED
    BY <2>1, <2>2
<1>2. ForDriver' = ForDriver /\ ForReads' = ForReads
  BY <1>1 DEF ForDriver, Made, ForReads, Unread
<1>3. ForDriver \in Nat /\ ForReads \in Nat
  BY BudgetTypes
<1>4. /\ arrived' \in Nat /\ arrived' <= MaxTyped /\ (held' # NoChar => arrived' >= 1)
  BY <1>1 DEF BudgetInv
<1>5. ForDriver' \in Nat /\ ForDriver <= ForDriver' /\ ForReads' \in Int /\ ForReads <= ForReads'
  BY <1>2, <1>3
<1> QED
  BY <1>1, <1>4, <1>5, BudgetFrame

\* What is read adds a command's reads to the bound; a command that ends has taken
\* no more than its own.
LEMMA BudgetReads ==
    ASSUME PlacesInv, BudgetInv, PlacesInv',
           \/ ReadBell \/ ReadPrinted \/ ReadNowhere \/ ReadEmptyLine \/ ReadOtherLine \/ ReadUnderWay
           \/ (\E name \in DiskCommands : ReadDiskCommand(name))
           \/ DiskCommandEnds
           \/ \E c \in Printed \cup {Return, Bell} : Receive(c)
    PROVE  BudgetInv'
<1> DEFINE read == arrived - Unread
<1>1. /\ PortCount \in Nat \ {0} /\ MaxTyped \in Nat
      /\ Turned' \in 0 .. PortCount /\ Turned \in 0 .. PortCount
  <2>1. PortCount \in Nat \ {0} /\ MaxTyped \in Nat /\ Turned \in 0 .. PortCount
    BY ProgressTypes
  <2>2. (Turned \in 0 .. PortCount)'
    <3>1. PortCount \in Nat \ {0}
      BY ProgressTypes
    <3>2. port' \in 0 .. PortCount /\ (at' \in Reading => port' \in 0 .. PortCount - 1)
      BY DEF PlacesInv, Ports
    <3> QED
      BY <3>1, <3>2 DEF Turned, Reading
  <2> QED
    BY <2>1, <2>2
<1>2. /\ arrived \in Nat /\ arrived <= MaxTyped /\ Unread \in {0, 1} /\ Unread <= arrived
      /\ handler = "disk" => arrived >= 1 + Unread
  BY DEF BudgetInv, Unread
<1>3. ForDriver \in Nat /\ ForReads \in Nat
  BY BudgetTypes
<1>a. base # NoPage => pc \in Allocating
  BY DEF BudgetInv
<1>4. CASE \/ ReadBell \/ ReadPrinted \/ ReadNowhere \/ ReadEmptyLine \/ ReadOtherLine \/ ReadUnderWay
           \/ (\E name \in DiskCommands : ReadDiskCommand(name))
  <2>1. /\ held # NoChar /\ held' = NoChar
        /\ handler = "loop"
        /\ UNCHANGED <<pc, arrived, fresh, given, base, loaded, port>>
        /\ \/ handler' \in {"loop", "stopped"} /\ at' = at
           \/ handler' = "disk" /\ at' = "load"
    BY <1>4, ReadsOne
  <2>2. at = "idle"
    BY <2>1 DEF PlacesInv
  <2>3. ForDriver' = ForDriver
    BY <2>1, <2>2 DEF ForDriver, Made
  <2>4. Unread = 1 /\ Unread' = 0 /\ arrived >= 1
    BY <1>2, <2>1 DEF Unread
  <2>5. ForReads = (arrived - 1) * PortCount
    BY <2>1, <2>4 DEF ForReads
  <2>6. (arrived - 1 + 1) * PortCount = (arrived - 1) * PortCount + PortCount
    BY <1>1, <1>2, ProductNext
  <2>7. ForReads' = IF handler' = "disk" THEN (arrived - 1) * PortCount + Turned'
                    ELSE arrived * PortCount
    <3>1. arrived' - Unread' = arrived
      BY <1>2, <2>1, <2>4
    <3> QED
      BY <3>1 DEF ForReads
  <2>8. (handler' = "disk" => Turned' = 0) /\ arrived - 1 + 1 = arrived
    <3>1. arrived - 1 + 1 = arrived
      BY <1>2
    <3>2. handler' = "disk" => at' = "load"
      BY <2>1
    <3>3. at' = "load" => Turned' = 0
      BY DEF Turned, Configuring, Reading
    <3> QED
      BY <3>1, <3>2, <3>3
  <2>9. ForReads' \in Int /\ ForReads <= ForReads'
    BY <1>1, <1>3, <2>5, <2>6, <2>7, <2>8
  <2>10. /\ arrived' \in Nat /\ arrived' <= MaxTyped /\ (held' # NoChar => arrived' >= 1)
         /\ handler' = "disk" => arrived' >= 1 + Unread'
    BY <1>2, <2>1, <2>4
  <2> QED
    BY <1>3, <1>a, <2>1, <2>3, <2>9, <2>10, BudgetFrame
<1>5. CASE DiskCommandEnds
  <2>1. /\ handler = "disk" /\ handler' = "loop" /\ at = "done" /\ at' = "idle"
        /\ UNCHANGED <<pc, held, arrived, fresh, given, base, loaded, port>>
    BY <1>5 DEF DiskCommandEnds, Handling, driver, call, pages, others
  <2>2. ForDriver' = ForDriver /\ Unread' = Unread
    BY <2>1 DEF ForDriver, Made, Unread
  <2>3. /\ ForReads = (read - 1) * PortCount + PortCount
        /\ ForReads' = read * PortCount
    BY <2>1, <2>2 DEF ForReads, Turned, Configuring, Reading
  <2>4. read - 1 \in Int /\ read - 1 + 1 = read
    BY <1>2
  <2>5. (read - 1 + 1) * PortCount = (read - 1) * PortCount + PortCount
    BY <1>1, <2>4, ProductNext
  <2>6. ForReads' \in Int /\ ForReads <= ForReads'
    BY <1>3, <2>3, <2>4, <2>5
  <2>7. /\ arrived' \in Nat /\ arrived' <= MaxTyped /\ (held' # NoChar => arrived' >= 1)
    BY <2>1 DEF BudgetInv
  <2> QED
    BY <1>3, <1>a, <2>1, <2>2, <2>6, <2>7, BudgetFrame
<1>6. CASE \E c \in Printed \cup {Return, Bell} : Receive(c)
  <2>1. /\ arrived < MaxTyped /\ arrived' = arrived + 1
        /\ UNCHANGED <<pc, handler, at, fresh, given, base, loaded, port>>
        /\ held' # NoChar
    BY <1>6, CommandsAssumption DEF Receive, ahci, driver, call, pages, others
  <2>2. ForDriver' = ForDriver /\ Turned' = Turned
    BY <2>1 DEF ForDriver, Made, Turned
  <2>3. Unread' = 1 /\ arrived' - Unread' \in Int
    BY <1>2, <2>1 DEF Unread
  <2>4. arrived' - Unread' = arrived /\ read \in Int /\ read <= arrived /\ arrived \in Int
    BY <1>2, <2>1, <2>3
  <2>5. read - 1 \in Int /\ arrived - 1 \in Int /\ read - 1 <= arrived - 1
    BY <1>2, <2>4
  <2>6. /\ (read - 1) * PortCount \in Int /\ (arrived - 1) * PortCount \in Int
        /\ (read - 1) * PortCount <= (arrived - 1) * PortCount
    BY <1>1, <2>5, ProductGrows
  <2>7. /\ read * PortCount \in Int /\ arrived * PortCount \in Int
        /\ read * PortCount <= arrived * PortCount
    BY <1>1, <2>4, ProductGrows
  <2>8. /\ ForReads = IF handler = "disk" THEN (read - 1) * PortCount + Turned
                      ELSE read * PortCount
        /\ ForReads' = IF handler = "disk" THEN (arrived - 1) * PortCount + Turned
                       ELSE arrived * PortCount
    BY <2>1, <2>2, <2>4 DEF ForReads
  <2>9. ForReads' \in Int /\ ForReads <= ForReads'
    <3> HIDE DEF read
    <3> DEFINE a == (read - 1) * PortCount
               b == (arrived - 1) * PortCount
               c == read * PortCount
               d == arrived * PortCount
    <3>1. /\ a \in Int /\ b \in Int /\ a <= b /\ c \in Int /\ d \in Int /\ c <= d
          /\ ForReads = IF handler = "disk" THEN a + Turned ELSE c
          /\ ForReads' = IF handler = "disk" THEN b + Turned ELSE d
      BY <2>6, <2>7, <2>8
    <3> HIDE DEF a, b, c, d
    <3> QED
      BY <1>1, <3>1
  <2>10. /\ arrived' \in Nat /\ arrived' <= MaxTyped /\ arrived' >= 1
         /\ handler' = "disk" => arrived' >= 1 + Unread'
    BY <1>1, <1>2, <2>1, <2>3
  <2> QED
    BY <1>3, <1>a, <2>1, <2>2, <2>9, <2>10, BudgetFrame
<1> QED
  BY <1>4, <1>5, <1>6

\* Other code's pages are counted: it has read the start of the section before it
\* takes the page, and nobody else takes pages for it.
LEMMA BudgetTakes ==
    ASSUME PlacesInv, BudgetInv, PlacesInv',
           AllocCommandBuffer \/ KernelReads \/ KernelTakes
    PROVE  BudgetInv'
<1>1. /\ Cardinality(given) \in Nat /\ ForDriver \in Nat /\ ForReads \in Nat
      /\ MaxGiven \in Nat
  BY BudgetTypes, ProgressTypes
<1>2. /\ fresh \in Nat \ {0}
      /\ IsFiniteSet(given)
      /\ \A n \in given : n \in Nat /\ n < fresh
      /\ arrived \in Nat /\ arrived <= MaxTyped
      /\ held # NoChar => arrived >= 1
      /\ fresh <= 1 + Cardinality(given) + ForDriver + ForReads
  BY DEF BudgetInv
<1>3. CASE AllocCommandBuffer
  <2>1. /\ pc = "start" /\ pc' = "index"
        /\ fresh' = fresh + 1 /\ given' = given \cup {fresh}
        /\ UNCHANGED <<base, arrived, held, handler, at, loaded, port>>
        /\ handler = "out"
    BY <1>3 DEF AllocCommandBuffer, Boot, driver, call
  <2>2. given = {} /\ base = NoPage
    BY <2>1 DEF BudgetInv, Starting, Allocating
  <2>3. IsFiniteSet(given') /\ Cardinality(given') = 1 /\ Cardinality(given) = 0
    <3>1. given' = {fresh}
      BY <2>1, <2>2
    <3> QED
      BY <2>2, <3>1, FS_EmptySet, FS_Singleton
  <2>4. ForDriver' = ForDriver /\ ForReads' = ForReads
    BY <2>1 DEF ForDriver, Made, ForReads, Unread
  <2>5. fresh' <= 1 + Cardinality(given') + ForDriver' + ForReads'
    BY <1>1, <1>2, <2>1, <2>3, <2>4
  <2> QED
    BY <1>1, <1>2, <2>1, <2>2, <2>3, <2>5 DEF BudgetInv, Starting, Allocating
<1>4. CASE KernelReads
  <2>1. /\ pc \in Allocating /\ pc' = pc
        /\ base' = fresh /\ Cardinality(given) < MaxGiven
        /\ UNCHANGED <<fresh, given, arrived, held, handler, at, loaded, port>>
        /\ handler = "out"
    BY <1>4 DEF KernelReads, Boot, ReadSection, driver, call, pages
  <2>2. ForDriver' = ForDriver /\ ForReads' = ForReads
    BY <2>1 DEF ForDriver, Made, ForReads, Unread
  <2>3. base' # NoPage /\ base' \in Nat /\ base' <= fresh' /\ base' \notin given'
    BY <1>2, <2>1 DEF NoPage
  <2> QED
    BY <1>1, <1>2, <2>1, <2>2, <2>3 DEF BudgetInv, Starting, Allocating
<1>5. CASE KernelTakes
  <2>1. /\ pc \in Allocating /\ pc' = pc
        /\ base # NoPage /\ base' = NoPage
        /\ fresh' = fresh + 1 /\ given' = given \cup {base}
        /\ UNCHANGED <<arrived, held, handler, at, loaded, port>>
        /\ handler = "out"
    BY <1>5 DEF KernelTakes, Boot, MoveSection, driver, call
  <2>2. base \in Nat /\ base <= fresh /\ base \notin given /\ Cardinality(given) < MaxGiven
    BY <2>1 DEF BudgetInv
  <2>3. IsFiniteSet(given') /\ Cardinality(given') = Cardinality(given) + 1
    BY <1>2, <2>1, <2>2, FS_AddElement
  <2>4. ForDriver' = ForDriver /\ ForReads' = ForReads
    BY <2>1 DEF ForDriver, Made, ForReads, Unread
  <2>5. \A n \in given' : n \in Nat /\ n < fresh'
    BY <1>2, <2>1, <2>2
  <2>6. /\ fresh' <= 1 + Cardinality(given') + ForDriver' + ForReads'
        /\ Cardinality(given') <= MaxGiven + 1 /\ fresh' \in Nat \ {0}
    BY <1>1, <1>2, <2>1, <2>2, <2>3, <2>4
  <2> QED
    BY <1>1, <1>2, <2>1, <2>3, <2>5, <2>6 DEF BudgetInv, Starting, Allocating
<1> QED
  BY <1>3, <1>4, <1>5

\* Nothing is taken where only the turn moves on.
LEMMA NothingTaken ==
    ASSUME NEW f \in Nat, NEW d \in Nat, NEW t \in Nat, NEW u \in Nat, t <= u
    PROVE  f + d + t <= f + d + u
OBVIOUS

\* What the driver takes is what it has done of its loops over the ports.
LEMMA Progress ==
    ASSUME PlacesInv, DriverStep \/ Wake, fresh \in Nat
    PROVE  /\ fresh' \in Nat /\ fresh <= fresh'
           /\ ForDriver' \in Nat /\ ForDriver \in Nat
           /\ Turned' \in Nat /\ Turned \in Nat
           /\ fresh' + ForDriver + Turned <= fresh + ForDriver' + Turned'
<1> USE DEF Configuring, Reading
<1>1. /\ PortCount \in Nat \ {0} /\ port \in 0 .. PortCount
      /\ Made \in 0 .. PortCount /\ Turned \in 0 .. PortCount
  BY ProgressTypes
<1>2. drives \subseteq Ports /\ ~ fault /\ 0 \in Nat
  BY DEF PlacesInv, DriverStep, Wake, Step, Available, LoadNothing, LoadNoBar,
       LoadDriver, LoadBeyond, LoadPorts, CommandStop, StillRunning, Rebase, CommandStart,
       Configured,
       SkipDrive, DumpDone, AllocBuffer, BuildWild, BuildCommand, WatchdogEnds,
       Issue, ReadEnds, PrintSector
<1>3. at \in {"poll", "start"} \cup Reading => port \in 0 .. PortCount - 1
  BY DEF PlacesInv, Ports
<1>4. Turn \in 0 .. PortCount /\ Turn >= port
  <2>1. Turn \in drives \cup {PortCount} /\ (Turn # PortCount => Turn >= port)
    BY <1>1, <1>2, NextDriveProperties DEF Turn
  <2> QED
    BY <1>1, <1>2, <2>1 DEF Ports
<1>5. CASE LoadDriver
  <2>1. /\ at = "load" /\ at' = "configure" /\ fresh' = fresh + 1
        /\ ~ loaded /\ loaded'
        /\ drives' \subseteq Ports /\ port' = NextDrive(0, drives')
    <3>1. drives' \subseteq machine.implemented
      BY <1>5 DEF LoadDriver, LoadPorts
    <3>2. drives' \subseteq Ports
      BY <3>1, Implemented
    <3> QED
      BY <1>5, <3>2, Zenon DEF PlacesInv, LoadDriver, LoadPorts, Step, FirstDrive, Take
  <2>2. port' \in drives' \cup {PortCount}
    BY <1>2, <2>1, NextDriveProperties
  <2>3. port' \in 0 .. PortCount
    BY <1>1, <2>1, <2>2 DEF Ports
  <2>4. ForDriver = 0 /\ ForDriver' = 1 + 2 * port' /\ Turned = 0 /\ Turned' = 0
    BY <2>1 DEF ForDriver, Made, Turned
  <2> QED
    BY <1>1, <2>1, <2>3, <2>4
<1>13. CASE LoadBeyond
  <2>1. /\ at = "load" /\ at' = "lost" /\ fresh' = fresh + 1
        /\ ~ loaded /\ loaded'
    BY <1>13, Zenon DEF PlacesInv, LoadBeyond, LoadPorts, Step, Take
  <2>2. ForDriver = 0 /\ ForDriver' = 1 + 2 * PortCount /\ Turned = 0 /\ Turned' = PortCount
    BY <2>1 DEF ForDriver, Made, Turned
  <2> QED
    BY <1>1, <2>1, <2>2
<1>6. CASE Rebase
  <2>1. /\ at = "poll" /\ at' = "start" /\ fresh' = fresh + 2 /\ UNCHANGED <<loaded, port>>
    BY <1>6 DEF Rebase, Step, Take, driver, call
  <2>2. loaded
    BY <2>1 DEF PlacesInv
  <2>3. ForDriver = 1 + 2 * port /\ ForDriver' = 1 + 2 * (port + 1) /\ Turned = 0 /\ Turned' = 0
    BY <2>1, <2>2 DEF ForDriver, Made, Turned
  <2> QED
    BY <1>1, <2>1, <2>3
<1>7. CASE CommandStart
  <2>1. /\ at = "start" /\ at' = "configure" /\ fresh' = fresh /\ UNCHANGED loaded
        /\ port' = NextDrive(port + 1, drives)
    BY <1>7 DEF CommandStart, Step, driver, pages
  <2>2. loaded
    BY <2>1 DEF PlacesInv
  <2>3. port + 1 \in Nat /\ port + 1 <= PortCount
    BY <1>1, <1>3, <2>1
  <2>4. port' \in drives \cup {PortCount} /\ (port' # PortCount => port' >= port + 1)
    BY <1>2, <2>1, <2>3, NextDriveProperties
  <2>5. port' \in 0 .. PortCount /\ port' >= port + 1
    BY <1>1, <1>2, <2>3, <2>4 DEF Ports
  <2>6. ForDriver = 1 + 2 * (port + 1) /\ ForDriver' = 1 + 2 * port' /\ Turned = 0 /\ Turned' = 0
    BY <2>1, <2>2 DEF ForDriver, Made, Turned
  <2> QED
    BY <1>1, <2>1, <2>5, <2>6
<1>8. CASE AllocBuffer
  <2>1. /\ at = "dump" /\ at' = "build" /\ fresh' = fresh + 1 /\ UNCHANGED loaded
        /\ port' = Turn
    BY <1>8 DEF AllocBuffer, Step, Take, driver
  <2>2. ForDriver' = ForDriver
    BY <2>1 DEF ForDriver, Made
  <2>3. Turned = port /\ Turned' = Turn + 1
    BY <2>1 DEF Turned
  <2>4. ForDriver \in Nat
    BY <1>1 DEF ForDriver
  <2> QED
    BY <1>1, <1>4, <2>1, <2>2, <2>3, <2>4
<1>9. CASE CommandStop \/ StillRunning \/ Wake
  <2>1. /\ {at, at'} \subseteq {"configure", "halt", "poll"} /\ UNCHANGED <<loaded, port, fresh>>
    BY <1>9 DEF CommandStop, StillRunning, Wake, Step, driver, call, pages
  <2>2. ForDriver' = ForDriver /\ Turned = 0 /\ Turned' = 0
    BY <2>1 DEF ForDriver, Made, Turned
  <2>3. ForDriver \in Nat
    BY <1>1 DEF ForDriver
  <2> QED
    BY <2>1, <2>2, <2>3
<1>10. CASE Available \/ LoadNothing \/ LoadNoBar \/ Configured
  <2>1. /\ at \in {"load", "configure"} /\ (at = "configure" => port = PortCount)
        /\ at' \in {"dump", "done", "lost"} /\ UNCHANGED <<loaded, fresh>>
        /\ at' = "dump" => port' \in {port, 0}
    <3>1. Body \in {"dump", "done"}
      BY DEF Body
    <3>2. CASE Available \/ Configured
      BY <3>1, <3>2 DEF Available, Configured, Step, driver, pages
    <3>3. CASE LoadNothing
      BY <3>3 DEF LoadNothing, Step, driver, pages, call
    <3>4. CASE LoadNoBar
      BY <3>1, <3>4 DEF LoadNoBar, Step, pages, call
    <3> QED
      BY <1>10, <3>2, <3>3, <3>4
  <2>2. Made = PortCount /\ Made' = PortCount /\ Turned = 0
    BY <2>1 DEF Made, Turned
  <2>3. Turned' \in 0 .. PortCount
    BY <1>1, <2>1 DEF Turned
  <2>4. ForDriver' = ForDriver /\ ForDriver \in Nat
    BY <1>1, <2>1, <2>2 DEF ForDriver
  <2>5. fresh' = fresh
    BY <2>1
  <2>6. Turned \in Nat /\ Turned' \in Nat /\ Turned <= Turned'
    BY <1>1, <2>2, <2>3
  <2>7. fresh + ForDriver + Turned <= fresh + ForDriver + Turned'
    BY <2>4, <2>6, NothingTaken
  <2>8. fresh' + ForDriver + Turned <= fresh + ForDriver' + Turned'
    BY <2>4, <2>5, <2>7, Zenon
  <2>9. fresh' \in Nat /\ fresh <= fresh' /\ ForDriver' \in Nat
    BY <2>4, <2>5
  <2> QED
    BY <2>4, <2>6, <2>8, <2>9, Zenon
<1>11. CASE SkipDrive \/ DumpDone
  <2>1. /\ at = "dump" /\ UNCHANGED <<loaded, fresh>>
        /\ \/ at' = "dump" /\ port' = Turn + 1 /\ Turn < PortCount
           \/ at' = "done"
    BY <1>11 DEF SkipDrive, DumpDone, Step, driver, pages
  <2>2. Made = PortCount /\ Made' = PortCount /\ Turned = port
    BY <2>1 DEF Made, Turned
  <2>3. Turned' \in 0 .. PortCount /\ Turned' >= port
    BY <1>1, <1>4, <2>1 DEF Turned
  <2>4. ForDriver' = ForDriver /\ ForDriver \in Nat
    BY <1>1, <2>1, <2>2 DEF ForDriver
  <2>5. fresh' = fresh
    BY <2>1
  <2>6. Turned \in Nat /\ Turned' \in Nat /\ Turned <= Turned'
    BY <1>1, <2>2, <2>3
  <2>7. fresh + ForDriver + Turned <= fresh + ForDriver + Turned'
    BY <2>4, <2>6, NothingTaken
  <2>8. fresh' + ForDriver + Turned <= fresh + ForDriver' + Turned'
    BY <2>4, <2>5, <2>7, Zenon
  <2>9. fresh' \in Nat /\ fresh <= fresh' /\ ForDriver' \in Nat
    BY <2>4, <2>5
  <2> QED
    BY <2>4, <2>6, <2>8, <2>9, Zenon
<1>12. CASE BuildWild \/ BuildCommand \/ WatchdogEnds \/ Issue \/ ReadEnds \/ PrintSector
  <2>1. /\ at \in Reading /\ UNCHANGED <<loaded, fresh>>
        /\ \/ at' \in Reading \cup {"lost"} /\ port' = port
           \/ at' = "dump" /\ port' = port + 1
    BY <1>12 DEF BuildWild, BuildCommand, WatchdogEnds, Issue, ReadEnds, PrintSector, Step,
                 driver, pages, call
  <2>2. Made = PortCount /\ Made' = PortCount /\ Turned = port + 1
    BY <2>1 DEF Made, Turned
  <2>3. port + 1 <= PortCount
    BY <1>1, <1>3, <2>1
  <2>4. Turned' \in {port + 1, PortCount}
    BY <2>1 DEF Turned
  <2>5. ForDriver' = ForDriver /\ ForDriver \in Nat
    BY <1>1, <2>1, <2>2 DEF ForDriver
  <2>6. fresh' = fresh
    BY <2>1
  <2>7. Turned \in Nat /\ Turned' \in Nat /\ Turned <= Turned'
    BY <1>1, <2>2, <2>3, <2>4
  <2>8. fresh + ForDriver + Turned <= fresh + ForDriver + Turned'
    BY <2>5, <2>7, NothingTaken
  <2>9. fresh' + ForDriver + Turned <= fresh + ForDriver' + Turned'
    BY <2>5, <2>6, <2>8, Zenon
  <2>10. fresh' \in Nat /\ fresh <= fresh' /\ ForDriver' \in Nat
    BY <2>5, <2>6
  <2> QED
    BY <2>5, <2>7, <2>9, <2>10, Zenon
<1> QED
  BY <1>5, <1>6, <1>7, <1>8, <1>9, <1>10, <1>11, <1>12, <1>13 DEF DriverStep

\* What the loops have gone on by is what the bound has grown by.
LEMMA Balance ==
    ASSUME NEW f \in Nat, NEW g \in Nat, NEW d \in Nat, NEW e \in Nat,
           NEW t \in Nat, NEW u \in Nat, NEW c \in Nat, NEW x \in Int,
           g + d + t <= f + e + u,
           f <= 1 + c + d + (x + t)
    PROVE  g <= 1 + c + e + (x + u)
OBVIOUS

\* The driver takes what its loops have come to.
LEMMA BudgetDriver ==
    ASSUME PlacesInv, BudgetInv, handler = "disk", DriverStep \/ Wake,
           UNCHANGED <<serial, base, given>>
    PROVE  BudgetInv'
<1>1. /\ fresh \in Nat \ {0} /\ Cardinality(given) \in Nat
      /\ fresh <= 1 + Cardinality(given) + ForDriver + ForReads
  BY BudgetTypes DEF BudgetInv
<1>2. /\ fresh' \in Nat /\ fresh <= fresh'
      /\ ForDriver' \in Nat /\ ForDriver \in Nat
      /\ Turned' \in Nat /\ Turned \in Nat
      /\ fresh' + ForDriver + Turned <= fresh + ForDriver' + Turned'
  BY <1>1, Progress
<1>3. UNCHANGED <<pc, held, arrived, handler>>
  BY DEF serial
<1> DEFINE x == (arrived - Unread - 1) * PortCount
<1>4. Unread' = Unread
  BY <1>3 DEF Unread
<1>5. ForReads = x + Turned /\ ForReads' = x + Turned'
  BY <1>3, <1>4 DEF ForReads
<1>6. x \in Int
  <2>1. arrived - Unread - 1 \in Int /\ PortCount \in Nat
    BY BudgetTypes, ProgressTypes DEF BudgetInv
  <2> QED
    BY <2>1, ProductNext
<1> HIDE DEF x
<1>7. fresh <= 1 + Cardinality(given) + ForDriver + (x + Turned)
  BY <1>1, <1>5
<1>8. fresh' <= 1 + Cardinality(given) + ForDriver' + (x + Turned')
  BY <1>1, <1>2, <1>6, <1>7, Balance
<1>9. fresh' <= 1 + Cardinality(given') + ForDriver' + ForReads'
  BY <1>5, <1>8
<1>10. /\ fresh' \in Nat \ {0}
       /\ \A n \in given' : n \in Nat /\ n < fresh'
       /\ base' # NoPage => base' \in Nat /\ base' <= fresh' /\ base' \notin given'
  BY <1>1, <1>2 DEF BudgetInv
<1> QED
  BY <1>3, <1>4, <1>9, <1>10 DEF BudgetInv

\* Every step keeps the bound.
LEMMA BudgetStep ==
    ASSUME PlacesInv, BudgetInv, [Next]_vars
    PROVE  BudgetInv'
<1>1. PlacesInv'
  BY PlacesStep
<1>2. CASE UNCHANGED vars
  BY <1>2 DEF BudgetInv, ForDriver, Made, ForReads, Turned, Unread, vars, serial, ahci,
      driver,
              call, pages, others
<1>3. CASE KernelStep
  BY <1>1, <1>3, BudgetPasses, BudgetReads DEF KernelStep
<1>4. CASE AllocCommandBuffer \/ KernelReads \/ KernelTakes
  BY <1>1, <1>4, BudgetTakes
<1>5. CASE DiskStep \/ Wakes
  BY <1>5, BudgetDriver, DiskFrame DEF DiskStep, Wakes
<1>6. CASE DevicesStep
  <2>1. UNCHANGED <<driver, pages, others, at, call, serial>>
    BY <1>6, ControllerFrame DEF DevicesStep
  <2> QED
    BY <2>1 DEF BudgetInv, ForDriver, Made, ForReads, Turned, Unread, serial, driver,
                call, pages, others
<1> QED
  BY <1>2, <1>3, <1>4, <1>5, <1>6, NextCases

----------------------------------------------------------------------------
(* The lists *)

\* The ports with lists are ports.
LEMMA ListedArePorts ==
    ASSUME PlacesInv
    PROVE  Listed \subseteq drives /\ drives \subseteq Ports
BY DEF Listed, PlacesInv

\* A page that is not a list is written, or none.
NoListWritten ==
    \/ mem' = mem
    \/ \E n, v : v.kind # "list" /\ mem' = [mem EXCEPT ![n] = v]

\* The lists stay as they are in a step that makes none.
LEMMA ListsKept ==
    ASSUME PlacesInv, ListsInv, EnginesInv, NoListWritten,
           Listed' = Listed, at' # "lost" => at # "lost",
           \A p \in Ports : hba'[p].list = hba[p].list,
           fresh \in Nat, fresh' \in Nat, fresh <= fresh',
           buffer' \in Nat, buffer' < fresh',
           at' \in Reading => \A p \in drives' : hba'[p].list < buffer'
    PROVE  ListsInv'
<1>1. Listed \subseteq Ports
  BY ListedArePorts
<1>2. \A p \in Ports : hba[p].list \in Nat
  BY DEF EnginesInv, Registers
<1> DEFINE Whole == /\ DOMAIN mem' = 0 .. LastPage
                    /\ \A n \in DOMAIN mem' : mem'[n].kind = "list" =>
                         mem'[n].of = n + 2 /\ n + 2 <= LastPage
<1>3. Whole
  <2>1. CASE mem' = mem
    BY <2>1 DEF ListsInv
  <2>2. ASSUME NEW n, NEW v, v.kind # "list", mem' = [mem EXCEPT ![n] = v]
        PROVE  Whole
    <3>1. DOMAIN mem = 0 .. LastPage /\ DOMAIN mem' = DOMAIN mem
      BY <2>2 DEF ListsInv
    <3>2. ASSUME NEW i \in DOMAIN mem', mem'[i].kind = "list"
          PROVE  mem'[i] = mem[i] /\ mem[i].kind = "list"
      BY <2>2, <3>1, <3>2, Zenon
    <3>3. ASSUME NEW i \in DOMAIN mem', mem'[i].kind = "list"
          PROVE  mem'[i].of = i + 2 /\ i + 2 <= LastPage
      BY <3>1, <3>2, <3>3 DEF ListsInv
    <3> QED
      BY <3>1, <3>3
  <2> HIDE DEF Whole
  <2> QED
    BY <2>1, <2>2, Zenon DEF NoListWritten
<1>4. \A p \in Ports : hba'[p].list < fresh'
  BY <1>2 DEF ListsInv
<1>5. at' # "lost" => \A p \in Listed' : hba'[p].list # 0 /\ hba'[p].list + 2 <= fresh'
  BY <1>1, <1>2 DEF ListsInv
<1>6. at' # "lost" => \A p, q \in Listed' : p < q => hba'[p].list + 2 <= hba'[q].list
  BY <1>1, <1>2 DEF ListsInv
<1> QED
  BY <1>3, <1>4, <1>5, <1>6 DEF ListsInv

\* At first there are no drives.
LEMMA ListsInit == Init => ListsInv
<1> SUFFICES ASSUME Init PROVE ListsInv
  OBVIOUS
<1>1. /\ LastPage \in Nat \ {0}
      /\ mem = [n \in {NoPage} \cup Pages |-> Clear]
      /\ at = "idle" /\ drives = {} /\ fresh = 1 /\ buffer = NoPage
      /\ \A p \in Ports : hba[p].list = NoPage
  BY MachineAssumption DEF Init, AhciInit
<1>2. {NoPage} \cup Pages = 0 .. LastPage
  BY <1>1 DEF NoPage, Pages
<1>3. Listed = {}
  BY <1>1 DEF Listed
<1>4. \A n \in DOMAIN mem : mem[n].kind # "list"
  BY <1>1 DEF Clear, Content
<1> QED
  BY <1>1, <1>2, <1>3, <1>4 DEF ListsInv, NoPage, Reading

\* A new list is made behind the others, with room for its table.
LEMMA ListsRebase ==
    ASSUME PlacesInv, BudgetInv, EnginesInv, ListsInv, Rebase
    PROVE  ListsInv'
<1>1. /\ at = "poll" /\ at' = "start"
      /\ fresh' = fresh + 2
      /\ hba' = [hba EXCEPT ![port].list = fresh]
      /\ mem' = [mem EXCEPT ![fresh + 1] = Clear, ![fresh + 2] = Clear,
                            ![fresh + 2 + 1] = Clear, ![fresh] = Content("list", fresh + 2)]
      /\ UNCHANGED <<drives, port, buffer>>
  BY DEF Rebase, Step, Take, Lists, driver, call
<1>2. /\ fresh \in Nat \ {0} /\ LastPage \in Nat /\ fresh + 3 <= LastPage
  BY <1>1, PagesSuffice DEF BudgetInv
<1>3. drives \subseteq Ports /\ port \in drives /\ Ports \subseteq Int
  BY <1>1 DEF PlacesInv, Ports
<1>4. Listed = {p \in drives : p < port} /\ Listed' = {p \in drives : p <= port}
  BY <1>1 DEF Listed
<1>5. \A p \in Ports : hba[p].list \in Nat /\ hba[p].list < fresh
  BY DEF EnginesInv, Registers, ListsInv
<1>6. /\ hba'[port].list = fresh
      /\ \A p \in Ports : p # port => hba'[p].list = hba[p].list
  BY <1>1, <1>3 DEF EnginesInv, Registers
<1>7. DOMAIN mem' = 0 .. LastPage
  BY <1>1 DEF ListsInv
<1>8. ASSUME NEW n \in DOMAIN mem', mem'[n].kind = "list"
      PROVE  mem'[n].of = n + 2 /\ n + 2 <= LastPage
  <2>1. n \in 0 .. LastPage /\ n \in DOMAIN mem
    BY <1>7, <1>8 DEF ListsInv
  <2>2. CASE n = fresh
    BY <1>1, <1>2, <2>1, <2>2 DEF Content
  <2>3. CASE n \in {fresh + 1, fresh + 2, fresh + 3}
    <3>1. mem'[n] = Clear
      BY <1>1, <1>2, <2>1, <2>3
    <3> QED
      BY <1>8, <3>1 DEF Clear, Content
  <2>4. CASE n \notin {fresh, fresh + 1, fresh + 2, fresh + 3}
    <3>1. mem'[n] = mem[n]
      BY <1>1, <1>2, <2>1, <2>4
    <3> QED
      BY <1>8, <2>1, <3>1 DEF ListsInv
  <2> QED
    BY <2>2, <2>3, <2>4
<1>9. \A p \in Listed' : p = port \/ (p \in Listed /\ p # port)
  BY <1>3, <1>4
<1>10. \A p \in Listed : hba[p].list # 0 /\ hba[p].list + 2 <= fresh
  BY <1>1 DEF ListsInv
<1>11. \A p \in Ports : hba'[p].list < fresh'
  BY <1>1, <1>2, <1>5, <1>6
<1>12. \A p \in Listed' : hba'[p].list # 0 /\ hba'[p].list + 2 <= fresh'
  <2> SUFFICES ASSUME NEW p \in Listed'
               PROVE  hba'[p].list # 0 /\ hba'[p].list + 2 <= fresh'
    OBVIOUS
  <2>1. CASE p = port
    BY <1>1, <1>2, <1>6, <2>1
  <2>2. CASE p \in Listed /\ p # port
    <3>1. p \in Ports
      BY <1>3, <1>4, <2>2
    <3>2. hba'[p].list = hba[p].list /\ hba[p].list \in Nat
      BY <1>5, <1>6, <2>2, <3>1
    <3> QED
      BY <1>1, <1>2, <1>10, <2>2, <3>2
  <2> QED
    BY <1>9, <2>1, <2>2
<1>13. ASSUME NEW p \in Listed', NEW q \in Listed', p < q
       PROVE  hba'[p].list + 2 <= hba'[q].list
  <2>1. p \in Listed /\ p # port /\ p \in Ports
    BY <1>3, <1>4, <1>9, <1>13
  <2>2. hba'[p].list = hba[p].list /\ hba[p].list \in Nat
    BY <1>5, <1>6, <2>1
  <2>3. CASE q = port
    BY <1>6, <1>10, <2>1, <2>2, <2>3
  <2>4. CASE q \in Listed /\ q # port
    <3>1. hba'[q].list = hba[q].list
      BY <1>3, <1>4, <1>6, <2>4
    <3> QED
      BY <1>1, <1>13, <2>1, <2>2, <2>4, <3>1 DEF ListsInv
  <2> QED
    BY <1>9, <2>3, <2>4
<1>14. buffer' \in Nat /\ buffer' < fresh'
  BY <1>1, <1>2 DEF ListsInv
<1> QED
  BY <1>1, <1>7, <1>8, <1>11, <1>12, <1>13, <1>14 DEF ListsInv, Reading

\* Where the driver and the controller write in the memory, outside the making of
\* lists.
LEMMA DriverMemory ==
    ASSUME DriverStep \/ Wake, ~ Rebase
    PROVE  NoListWritten
<1>1. CASE LoadDriver \/ LoadBeyond
  <2>1. mem' = [mem EXCEPT ![fresh] = Content("handles", 0)]
    BY <1>1 DEF LoadDriver, LoadBeyond, LoadPorts
  <2>2. Content("handles", 0).kind # "list"
    BY DEF Content
  <2> QED
    BY <2>1, <2>2 DEF NoListWritten
<1>2. CASE AllocBuffer
  <2>1. mem' = [mem EXCEPT ![fresh] = Content("buffer", 0)]
    BY <1>2 DEF AllocBuffer
  <2>2. Content("buffer", 0).kind # "list"
    BY DEF Content
  <2> QED
    BY <2>1, <2>2 DEF NoListWritten
<1>3. CASE BuildCommand
  <2>1. mem' = [mem EXCEPT ![Table(port)] = Content("table", buffer)]
    BY <1>3 DEF BuildCommand
  <2>2. Content("table", buffer).kind # "list"
    BY DEF Content
  <2> QED
    BY <2>1, <2>2 DEF NoListWritten
<1>4. CASE ~ (LoadDriver \/ LoadBeyond \/ AllocBuffer \/ BuildCommand)
  <2>1. mem' = mem
    BY <1>4 DEF DriverStep, Wake, Available, LoadNothing, LoadNoBar, CommandStop,
                StillRunning, CommandStart, Configured, SkipDrive, DumpDone, BuildWild,
                WatchdogEnds, Issue, ReadEnds, PrintSector
  <2> QED
    BY <2>1 DEF NoListWritten
<1> QED
  BY <1>1, <1>2, <1>3, <1>4

\* A drive writes only the buffer of the read that is waited for.
LEMMA ControllerMemory ==
    ASSUME EnginesInv, CommandInv, ControllerStep
    PROVE  \/ mem' = mem
           \/ at = "wait" /\ hba'[port].ci = FALSE
                /\ mem' = [mem EXCEPT ![buffer] = Content("sector", port)]
<1>1. PICK p \in Ports :
        EngineFollows(p) \/ FisEngineFollows(p) \/ SpinsUp(p) \/ Answers(p)
  BY DEF ControllerStep
<1>2. CASE Completes(p)
  <2>1. /\ hba[p].cr /\ hba[p].ci /\ ~ hba[p].failed
        /\ hba' = [hba EXCEPT ![p] = [hba[p] EXCEPT !.ci = FALSE]]
        /\ mem' = [mem EXCEPT ![mem[Table(p)].of] = Content("sector", p)]
    BY <1>2 DEF Completes, Register, Outstanding
  <2>2. at = "wait" /\ port = p
    BY <2>1 DEF CommandInv
  <2>3. mem[Table(port)] = Content("table", buffer)
    BY <2>1, <2>2 DEF CommandInv
  <2>4. mem[Table(p)].of = buffer
    BY <2>2, <2>3 DEF Content
  <2>5. hba'[p].ci = FALSE
    BY <2>1 DEF EnginesInv, Registers
  <2> QED
    BY <2>1, <2>2, <2>4, <2>5
<1>3. CASE ~ Completes(p)
  BY <1>1, <1>3 DEF EngineFollows, FisEngineFollows, SpinsUp, Answers, Fails
<1> QED
  BY <1>2, <1>3

\* The ports with lists, as the loop that makes them goes on.
LEMMA ListedDriver ==
    ASSUME PlacesInv, DriverStep \/ Wake
    PROVE  /\ LoadDriver => Listed' = {}
           /\ ~ LoadDriver /\ ~ LoadBeyond /\ ~ Rebase => Listed' = Listed
<1> USE DEF Configuring, Reading
<1>1. PortCount \in Nat \ {0} /\ port \in 0 .. PortCount
  BY ProgressTypes
<1>2. /\ drives \subseteq Ports /\ Ports \subseteq Nat /\ 0 \in Nat
      /\ \A p \in Ports : p < PortCount
      /\ at \in {"halt", "poll", "start"} => port \in drives
  BY <1>1 DEF PlacesInv, Ports
<1>3. ASSUME LoadDriver
      PROVE  Listed' = {}
  <2>1. at' = "configure" /\ drives' \subseteq Ports /\ port' = NextDrive(0, drives')
    BY <1>3, Implemented DEF LoadDriver, LoadPorts, Step, FirstDrive
  <2>2. \A p \in drives' : p >= 0
    BY <1>2, <2>1
  <2>3. \A p \in drives' : port' <= p
    BY <1>2, <2>1, <2>2, NextDriveProperties
  <2>4. port' \in drives' \cup {PortCount}
    BY <1>2, <2>1, NextDriveProperties
  <2>5. port' \in Nat
    BY <1>1, <1>2, <2>1, <2>4
  <2>6. \A p \in drives' : ~ (p < port')
    BY <1>2, <2>1, <2>3, <2>5
  <2> QED
    BY <2>1, <2>6 DEF Listed
<1>4. CASE CommandStart
  <2>1. /\ at = "start" /\ at' = "configure" /\ drives' = drives
        /\ port' = NextDrive(port + 1, drives)
    BY <1>4 DEF CommandStart, Step, driver
  <2>2. port \in drives /\ port \in Nat /\ port + 1 \in Nat
    BY <1>1, <1>2, <2>1
  <2>3. /\ port' \in drives \cup {PortCount}
        /\ port' # PortCount => port' >= port + 1
        /\ \A p \in drives : p >= port + 1 => port' <= p
        /\ port' = PortCount => \A p \in drives : p < port + 1
    BY <1>2, <2>1, <2>2, NextDriveProperties
  <2>4. port' \in Nat
    BY <1>1, <1>2, <2>3
  <2>5. \A p \in drives : p < port' <=> p <= port
    <3> SUFFICES ASSUME NEW p \in drives PROVE p < port' <=> p <= port
      OBVIOUS
    <3>1. p \in Nat /\ p < PortCount
      BY <1>2
    <3> QED
      BY <2>2, <2>3, <2>4, <3>1
  <2>6. Listed' = Listed
    BY <2>1, <2>5 DEF Listed
  <2> QED
    BY <2>1, <2>6 DEF LoadDriver, LoadBeyond, LoadPorts, Step
<1>5. CASE Configured
  <2>1. /\ at = "configure" /\ at' \in {"dump", "done"} /\ drives' = drives
        /\ port = PortCount
    BY <1>5 DEF Configured, Step, driver, Body
  <2>2. \A p \in drives : p < port
    BY <1>2, <2>1
  <2>3. Listed' = Listed
    BY <2>1, <2>2 DEF Listed
  <2> QED
    BY <2>1, <2>3 DEF LoadDriver, LoadBeyond, LoadPorts, Step
<1>6. CASE CommandStop \/ StillRunning \/ Wake
  <2>1. {at, at'} \subseteq {"configure", "halt", "poll"} /\ UNCHANGED <<drives, port>>
    BY <1>6 DEF CommandStop, StillRunning, Wake, Step, driver, call
  <2>2. Listed' = Listed
    BY <2>1 DEF Listed
  <2> QED
    BY <2>1, <2>2 DEF LoadDriver, LoadBeyond, LoadPorts, Step
<1>7. CASE \/ Available \/ LoadNothing \/ LoadNoBar \/ SkipDrive \/ DumpDone \/ AllocBuffer
           \/ BuildWild \/ BuildCommand \/ WatchdogEnds \/ Issue \/ ReadEnds \/ PrintSector
  <2>1. at \notin Configuring /\ at' \notin Configuring /\ drives' = drives
    <3>1. Body \in {"dump", "done"}
      BY DEF Body
    <3>2. CASE Available \/ LoadNothing \/ LoadNoBar
      BY <3>1, <3>2 DEF Available, LoadNothing, LoadNoBar, Step, driver
    <3>3. CASE SkipDrive \/ DumpDone \/ AllocBuffer \/ BuildWild \/ BuildCommand
      BY <3>3 DEF SkipDrive, DumpDone, AllocBuffer, BuildWild, BuildCommand, Step, driver
    <3>4. CASE WatchdogEnds \/ Issue \/ ReadEnds \/ PrintSector
      BY <3>4 DEF WatchdogEnds, Issue, ReadEnds, PrintSector, Step, driver
    <3> QED
      BY <1>7, <3>2, <3>3, <3>4
  <2>2. Listed' = Listed
    BY <2>1 DEF Listed
  <2> QED
    BY <2>1, <2>2 DEF LoadDriver, LoadBeyond, LoadPorts, Step
<1>8. ~ LoadDriver /\ ~ LoadBeyond /\ ~ Rebase => Listed' = Listed
  BY <1>4, <1>5, <1>6, <1>7 DEF DriverStep
<1> QED
  BY <1>3, <1>8

\* The lists are known as the loop that makes them goes on.
LEMMA ListsDriver ==
    ASSUME PlacesInv, BudgetInv, EnginesInv, ListsInv, DriverStep \/ Wake
    PROVE  ListsInv'
<1> USE DEF Configuring, Reading
<1>1. /\ fresh \in Nat \ {0} /\ fresh' \in Nat /\ fresh <= fresh'
      /\ PortCount \in Nat \ {0} /\ port \in 0 .. PortCount
  BY Progress, ProgressTypes DEF BudgetInv
<1>2. /\ drives \subseteq Ports /\ Ports \subseteq Nat /\ 0 \in Nat
      /\ \A p \in Ports : p < PortCount
      /\ at \in {"halt", "poll", "start"} => port \in drives
  BY <1>1 DEF PlacesInv, Ports
<1>3. buffer \in Nat /\ buffer < fresh'
  BY <1>1 DEF ListsInv
<1>4. CASE Rebase
  BY <1>4, ListsRebase
<1>5. CASE LoadDriver \/ LoadBeyond
  <2>1. /\ at' \in {"configure", "lost"} /\ (at' = "configure" => LoadDriver)
        /\ hba' = hba /\ buffer' = buffer
    BY <1>5 DEF LoadDriver, LoadBeyond, LoadPorts, Step
  <2>7. at' # "lost" => Listed' = {}
    BY <2>1, ListedDriver
  <2>8. NoListWritten
    BY <1>5, DriverMemory DEF DriverStep, LoadDriver, LoadBeyond, LoadPorts, Rebase, Step
  <2>9. /\ DOMAIN mem' = 0 .. LastPage
        /\ \A n \in DOMAIN mem' : mem'[n].kind = "list" =>
              mem'[n].of = n + 2 /\ n + 2 <= LastPage
    <3>1. CASE mem' = mem
      BY <3>1 DEF ListsInv
    <3>2. ASSUME NEW n, NEW v, v.kind # "list", mem' = [mem EXCEPT ![n] = v]
          PROVE  /\ DOMAIN mem' = 0 .. LastPage
                 /\ \A i \in DOMAIN mem' : mem'[i].kind = "list" =>
                      mem'[i].of = i + 2 /\ i + 2 <= LastPage
      BY <3>2 DEF ListsInv
    <3> QED
      BY <2>8, <3>1, <3>2 DEF NoListWritten
  <2>10. \A p \in Ports : hba'[p].list < fresh'
    <3>1. \A p \in Ports : hba[p].list \in Nat /\ hba[p].list < fresh
      BY DEF ListsInv, EnginesInv, Registers
    <3> QED
      BY <1>1, <2>1, <3>1
  <2> QED
    BY <1>3, <2>1, <2>7, <2>9, <2>10 DEF ListsInv
<1>6. CASE AllocBuffer
  <2>1. /\ at = "dump" /\ at' = "build" /\ UNCHANGED <<drives, hba>>
        /\ buffer' = fresh /\ fresh' = fresh + 1
    BY <1>6 DEF AllocBuffer, Step, Take, driver
  <2>2. Listed' = Listed
    BY <2>1 DEF Listed
  <2>3. NoListWritten
    BY <1>6, <2>1, DriverMemory DEF DriverStep, Rebase, Step
  <2>4. \A p \in drives' : hba'[p].list < buffer'
    BY <1>2, <2>1 DEF ListsInv
  <2> QED
    BY <1>1, <2>1, <2>2, <2>3, <2>4, ListsKept
<1>7. CASE CommandStart
  <2>1. /\ at = "start" /\ at' = "configure" /\ UNCHANGED <<drives, buffer>>
        /\ port' = NextDrive(port + 1, drives)
        /\ hba' = [hba EXCEPT ![port].st = TRUE, ![port].fre = TRUE]
    BY <1>7 DEF CommandStart, Step, driver
  <2>6. Listed' = Listed
    BY <1>7, <2>1, ListedDriver DEF LoadDriver, LoadBeyond, LoadPorts, Rebase, Step
  <2>7. \A p \in Ports : hba'[p].list = hba[p].list
    BY <2>1 DEF EnginesInv, Registers
  <2>8. NoListWritten
    BY <1>7, <2>1, DriverMemory DEF DriverStep, Rebase, Step
  <2> QED
    BY <1>1, <1>3, <2>1, <2>6, <2>7, <2>8, ListsKept
<1>8. CASE Configured
  <2>1. /\ at = "configure" /\ at' \in {"dump", "done"} /\ UNCHANGED <<drives, buffer, hba, mem>>
        /\ port = PortCount
    BY <1>8 DEF Configured, Step, driver, Body
  <2>2. \A p \in drives : p < port
    BY <1>2, <2>1
  <2>3. Listed' = Listed
    BY <2>1, <2>2 DEF Listed
  <2> QED
    BY <1>1, <1>3, <2>1, <2>3, ListsKept DEF NoListWritten
<1>9. CASE CommandStop \/ StillRunning \/ Wake
  <2>1. /\ {at, at'} \subseteq {"configure", "halt", "poll"} /\ UNCHANGED <<drives, buffer, port, mem>>
        /\ hba' = hba \/ hba' = [hba EXCEPT ![port].st = FALSE, ![port].fre = FALSE]
    BY <1>9 DEF CommandStop, StillRunning, Wake, Step, driver, call
  <2>2. \A p \in Ports : hba'[p].list = hba[p].list
    BY <2>1 DEF EnginesInv, Registers
  <2>3. Listed' = Listed
    BY <2>1 DEF Listed
  <2> QED
    BY <1>1, <1>3, <2>1, <2>2, <2>3, ListsKept DEF NoListWritten
<1>10. CASE \/ Available \/ LoadNothing \/ LoadNoBar \/ SkipDrive \/ DumpDone \/ BuildWild
            \/ BuildCommand \/ WatchdogEnds \/ Issue \/ ReadEnds \/ PrintSector
  <2>1. /\ at \notin Configuring /\ at' \notin Configuring /\ at # "lost"
        /\ at' \in Reading => at \in Reading
        /\ UNCHANGED <<drives, buffer>>
        /\ \/ hba' = hba
           \/ hba' = [hba EXCEPT ![port].tfes = FALSE]
           \/ hba' = [hba EXCEPT ![port].ci = TRUE]
    <3>1. Body \in {"dump", "done"}
      BY DEF Body
    <3>2. CASE Available \/ LoadNothing \/ LoadNoBar
      BY <3>1, <3>2 DEF Available, LoadNothing, LoadNoBar, Step, driver, call
    <3>3. CASE SkipDrive \/ DumpDone \/ BuildWild \/ BuildCommand
      BY <3>3 DEF SkipDrive, DumpDone, BuildWild, BuildCommand, Step, driver, call
    <3>4. CASE WatchdogEnds \/ Issue \/ ReadEnds \/ PrintSector
      BY <3>4 DEF WatchdogEnds, Issue, ReadEnds, PrintSector, Step, driver, call
    <3> QED
      BY <1>10, <3>2, <3>3, <3>4
  <2>2. \A p \in Ports : hba'[p].list = hba[p].list
    BY <2>1 DEF EnginesInv, Registers
  <2>3. Listed' = Listed
    BY <2>1 DEF Listed
  <2>4. ~ Rebase
    BY <2>1 DEF Rebase, Step
  <2>5. NoListWritten
    BY <2>4, DriverMemory
  <2>6. at' \in Reading => \A p \in drives' : hba'[p].list < buffer'
    BY <1>2, <2>1, <2>2 DEF ListsInv
  <2> QED
    BY <1>1, <1>3, <2>1, <2>2, <2>3, <2>5, <2>6, ListsKept
<1> QED
  BY <1>4, <1>5, <1>6, <1>7, <1>8, <1>9, <1>10 DEF DriverStep

\* Every step leaves the lists in their order, each with its table behind it.
LEMMA ListsStep ==
    ASSUME PlacesInv, BudgetInv, EnginesInv, ListsInv, CommandInv, [Next]_vars
    PROVE  ListsInv'
<1>1. CASE UNCHANGED vars
  BY <1>1 DEF ListsInv, Listed, vars, serial, ahci, driver, call, pages
<1>2. CASE KernelStep \/ AllocCommandBuffer \/ KernelReads \/ KernelTakes
  <2>1. /\ UNCHANGED <<drives, hba, mem, port, buffer>>
        /\ \/ at' = at
           \/ handler # "disk" /\ at' = "load"
           \/ at = "done" /\ at' = "idle"
    BY <1>2, KernelLeaves
  <2>2. handler # "disk" => at = "idle"
    BY DEF PlacesInv
  <2>3. fresh \in Nat /\ fresh' \in {fresh, fresh + 1}
    BY <1>2, KernelFrame
       DEF AllocCommandBuffer, KernelReads, KernelTakes, ReadSection, MoveSection, pages, BudgetInv
  <2>4. Listed' = Listed
    BY <2>1, <2>2 DEF Listed
  <2>5. buffer' \in Nat /\ buffer' < fresh'
    BY <2>1, <2>3 DEF ListsInv
  <2>6. at' \in Reading => \A p \in drives' : hba'[p].list < buffer'
    BY <2>1, <2>2 DEF ListsInv, Reading
  <2>7. fresh' \in Nat /\ fresh <= fresh'
    BY <2>3
  <2> QED
    BY <2>1, <2>2, <2>3, <2>4, <2>5, <2>6, <2>7, ListsKept DEF NoListWritten
<1>3. CASE DiskStep \/ Wakes
  BY <1>3, ListsDriver DEF DiskStep, Wakes
<1>4. CASE DevicesStep
  <2>1. /\ UNCHANGED <<driver, pages, at, call>>
        /\ \A p \in Ports : hba'[p].list = hba[p].list
    BY <1>4, ControllerFrame, ControllerWrites DEF DevicesStep
  <2>2. NoListWritten
    <3>1. mem' = mem \/ mem' = [mem EXCEPT ![buffer] = Content("sector", port)]
      BY <1>4, ControllerMemory DEF DevicesStep
    <3>2. Content("sector", port).kind # "list"
      BY DEF Content
    <3> QED
      BY <3>1, <3>2 DEF NoListWritten
  <2>3. Listed' = Listed /\ fresh' = fresh /\ fresh \in Nat /\ fresh <= fresh
    BY <2>1 DEF Listed, driver, call, pages, BudgetInv
  <2>4. buffer' \in Nat /\ buffer' < fresh'
    BY <2>1, <2>3 DEF ListsInv, call
  <2>5. at' \in Reading => \A p \in drives' : hba'[p].list < buffer'
    BY <2>1, ListedArePorts DEF ListsInv, driver, call
  <2> QED
    BY <2>1, <2>2, <2>3, <2>4, <2>5, ListsKept
<1> QED
  BY <1>1, <1>2, <1>3, <1>4, NextCases

----------------------------------------------------------------------------
(* The commands *)

\* At first no command has been issued.
LEMMA CommandInit == Init => CommandInv
BY DEF Init, AhciInit, CommandInv, Configuring

\* What a drive does of the command it was given.
LEMMA CommandController ==
    ASSUME PlacesInv, BudgetInv, EnginesInv, ListsInv, CommandInv, ControllerStep
    PROVE  CommandInv'
<1>1. UNCHANGED <<loaded, at, port, good, buffer>>
  BY ControllerFrame DEF driver, call
<1>2. PICK p \in Ports :
        EngineFollows(p) \/ FisEngineFollows(p) \/ SpinsUp(p) \/ Answers(p)
  BY DEF ControllerStep
<1>3. /\ ~ loaded \/ at \in Configuring =>
            \A q \in Ports : ~ hba[q].ci /\ ~ hba[q].tfes /\ ~ hba[q].failed
      /\ \A q \in Ports :
            /\ hba[q].failed => hba[q].cr
            /\ hba[q].ci \/ hba[q].tfes =>
                \/ at = "wait" /\ port = q /\ ~ hba[q].tfes
                \/ hba[q].failed
                \/ ~ hba[q].cr /\ ~ hba[q].st
      /\ at = "ready" \/ (at = "wait" /\ hba[port].ci) =>
            /\ mem[hba[port].list].kind = "list"
            /\ mem[Table(port)] = Content("table", buffer)
      /\ (at = "wait" /\ ~ hba[port].ci) \/ (at = "print" /\ good) =>
            mem[buffer] = Content("sector", port)
  BY DEF CommandInv
<1>4. at \in {"ready", "wait", "print"} => port \in Ports
  BY DEF PlacesInv, Reading
<1>5. ASSUME mem' = mem,
             \A q \in Ports : hba'[q].ci = hba[q].ci /\ hba'[q].list = hba[q].list
      PROVE  /\ at' = "ready" \/ (at' = "wait" /\ hba'[port'].ci) =>
                    /\ mem'[hba'[port'].list].kind = "list"
                    /\ mem'[Table(port)'] = Content("table", buffer')
             /\ (at' = "wait" /\ ~ hba'[port'].ci) \/ (at' = "print" /\ good') =>
                    mem'[buffer'] = Content("sector", port')
  BY <1>1, <1>3, <1>4, <1>5 DEF Table
<1>6. CASE EngineFollows(p)
  <2>1. /\ hba[p].cr # hba[p].st /\ mem' = mem
        /\ hba' = [hba EXCEPT ![p] = [hba[p] EXCEPT !.cr = hba[p].st, !.failed = FALSE]]
    BY <1>6 DEF EngineFollows, Register
  <2>2. /\ hba'[p].cr = hba[p].st /\ hba'[p].failed = FALSE
        /\ hba'[p].ci = hba[p].ci /\ hba'[p].tfes = hba[p].tfes
        /\ hba'[p].st = hba[p].st /\ hba'[p].list = hba[p].list
        /\ \A q \in Ports : q # p => hba'[q] = hba[q]
        /\ hba[p].cr \in BOOLEAN /\ hba[p].st \in BOOLEAN
    BY <1>2, <2>1 DEF EnginesInv, Registers
  <2>3. ~ loaded' \/ at' \in Configuring =>
            \A q \in Ports : ~ hba'[q].ci /\ ~ hba'[q].tfes /\ ~ hba'[q].failed
    BY <1>1, <1>2, <1>3, <2>2
  <2>4. ASSUME NEW q \in Ports
        PROVE  /\ hba'[q].failed => hba'[q].cr
               /\ hba'[q].ci \/ hba'[q].tfes =>
                    \/ at' = "wait" /\ port' = q /\ ~ hba'[q].tfes
                    \/ hba'[q].failed
                    \/ ~ hba'[q].cr /\ ~ hba'[q].st
    BY <1>1, <1>3, <2>1, <2>2
  <2>5. \A q \in Ports : hba'[q].ci = hba[q].ci /\ hba'[q].list = hba[q].list
    BY <2>2
  <2> QED
    BY <1>5, <2>1, <2>3, <2>4, <2>5 DEF CommandInv
<1>7. CASE FisEngineFollows(p) \/ SpinsUp(p)
  <2>1. /\ mem' = mem
        /\ \/ hba' = [hba EXCEPT ![p] = [hba[p] EXCEPT !.fr = hba[p].fre]]
           \/ hba' = [hba EXCEPT ![p] = [hba[p] EXCEPT !.busy = FALSE]]
    BY <1>7 DEF FisEngineFollows, SpinsUp, Register
  <2>2. \A q \in Ports :
            /\ hba'[q].cr = hba[q].cr /\ hba'[q].failed = hba[q].failed
            /\ hba'[q].ci = hba[q].ci /\ hba'[q].tfes = hba[q].tfes
            /\ hba'[q].st = hba[q].st /\ hba'[q].list = hba[q].list
    BY <1>2, <2>1 DEF EnginesInv, Registers
  <2> QED
    BY <1>1, <1>3, <1>5, <2>1, <2>2 DEF CommandInv
<1>8. CASE Completes(p)
  <2>1. /\ hba[p].cr /\ hba[p].ci /\ ~ hba[p].failed
        /\ hba' = [hba EXCEPT ![p] = [hba[p] EXCEPT !.ci = FALSE]]
        /\ mem' = [mem EXCEPT ![mem[Table(p)].of] = Content("sector", p)]
    BY <1>8 DEF Completes, Register, Outstanding
  <2>2. at = "wait" /\ port = p /\ ~ hba[p].tfes
    BY <1>3, <2>1
  <2>3. mem[Table(p)].of = buffer
    BY <1>3, <2>1, <2>2 DEF Content
  <2>4. buffer \in DOMAIN mem
    BY PagesSuffice DEF ListsInv, BudgetInv
  <2>5. mem'[buffer] = Content("sector", p)
    BY <2>1, <2>3, <2>4
  <2>6. /\ hba'[p].cr = hba[p].cr /\ hba'[p].failed = hba[p].failed
        /\ hba'[p].ci = FALSE /\ hba'[p].tfes = hba[p].tfes
        /\ hba'[p].st = hba[p].st
        /\ \A q \in Ports : q # p => hba'[q] = hba[q]
    BY <1>2, <2>1 DEF EnginesInv, Registers
  <2>7. at \notin Configuring /\ (loaded' <=> loaded) /\ loaded
    BY <1>1, <1>3, <2>1, <2>2 DEF Configuring
  <2>8. ASSUME NEW q \in Ports
        PROVE  /\ hba'[q].failed => hba'[q].cr
               /\ hba'[q].ci \/ hba'[q].tfes =>
                    \/ at' = "wait" /\ port' = q /\ ~ hba'[q].tfes
                    \/ hba'[q].failed
                    \/ ~ hba'[q].cr /\ ~ hba'[q].st
    BY <1>1, <1>3, <2>2, <2>6
  <2> QED
    BY <1>1, <2>2, <2>5, <2>6, <2>7, <2>8 DEF CommandInv
<1>9. CASE Fails(p)
  <2>1. /\ hba[p].cr /\ hba[p].ci /\ mem' = mem
        /\ hba' = [hba EXCEPT ![p] = [hba[p] EXCEPT !.tfes = TRUE, !.failed = TRUE]]
    BY <1>9 DEF Fails, Register, Outstanding
  <2>2. /\ hba'[p].cr = hba[p].cr /\ hba'[p].failed = TRUE
        /\ hba'[p].ci = hba[p].ci /\ hba'[p].list = hba[p].list
        /\ \A q \in Ports : q # p => hba'[q] = hba[q]
    BY <1>2, <2>1 DEF EnginesInv, Registers
  <2>3. at' \notin Configuring /\ loaded'
    BY <1>1, <1>3, <2>1
  <2>4. ASSUME NEW q \in Ports
        PROVE  /\ hba'[q].failed => hba'[q].cr
               /\ hba'[q].ci \/ hba'[q].tfes =>
                    \/ at' = "wait" /\ port' = q /\ ~ hba'[q].tfes
                    \/ hba'[q].failed
                    \/ ~ hba'[q].cr /\ ~ hba'[q].st
    BY <1>1, <1>3, <2>1, <2>2
  <2>5. \A q \in Ports : hba'[q].ci = hba[q].ci /\ hba'[q].list = hba[q].list
    BY <2>2
  <2> QED
    BY <1>5, <2>1, <2>3, <2>4, <2>5 DEF CommandInv
<1> QED
  BY <1>2, <1>6, <1>7, <1>8, <1>9 DEF Answers

\* What the driver makes of a command, and of its end.
LEMMA CommandDriver ==
    ASSUME PlacesInv, BudgetInv, EnginesInv, ListsInv, CommandInv, DriverStep \/ Wake
    PROVE  CommandInv'
<1>1. /\ ~ loaded \/ at \in Configuring =>
            \A q \in Ports : ~ hba[q].ci /\ ~ hba[q].tfes /\ ~ hba[q].failed
      /\ \A q \in Ports :
            /\ hba[q].failed => hba[q].cr
            /\ hba[q].ci \/ hba[q].tfes =>
                \/ at = "wait" /\ port = q /\ ~ hba[q].tfes
                \/ hba[q].failed
                \/ ~ hba[q].cr /\ ~ hba[q].st
      /\ at = "ready" \/ (at = "wait" /\ hba[port].ci) =>
            /\ mem[hba[port].list].kind = "list"
            /\ mem[Table(port)] = Content("table", buffer)
      /\ (at = "wait" /\ ~ hba[port].ci) \/ (at = "print" /\ good) =>
            mem[buffer] = Content("sector", port)
  BY DEF CommandInv
<1>2. /\ at \in {"halt", "poll", "start"} \cup Reading => port \in drives /\ port \in Ports
      /\ at = "configure" => port \in Ports \cup {PortCount}
      /\ at \in Reading => loaded
  BY DEF PlacesInv, Reading
<1>3. CASE \/ Available \/ LoadNothing \/ LoadNoBar \/ LoadDriver \/ LoadBeyond \/ Configured \/ SkipDrive
           \/ DumpDone \/ AllocBuffer \/ BuildWild \/ PrintSector \/ StillRunning \/ Wake
  <2>1. /\ hba' = hba /\ at # "wait" /\ at' \notin {"ready", "wait", "print"}
        /\ at' \in Configuring => at \in Configuring \/ ~ loaded
        /\ ~ loaded' => ~ loaded
    <3>1. Body \in {"dump", "done"}
      BY DEF Body
    <3>2. CASE Available \/ LoadNothing \/ LoadNoBar \/ Configured
      BY <3>1, <3>2 DEF Available, LoadNothing, LoadNoBar, Configured, Step, driver,
          Configuring
    <3>3. CASE LoadDriver \/ LoadBeyond
      <4>1. at = "load" /\ ~ checked /\ hba' = hba /\ at' \in {"configure", "lost"} /\ loaded' = TRUE
        BY <3>3 DEF LoadDriver, LoadBeyond, LoadPorts, Step
      <4>2. ~ loaded
        BY <4>1 DEF PlacesInv
      <4> QED
        BY <4>1, <4>2
    <3>4. CASE SkipDrive \/ DumpDone \/ AllocBuffer
      BY <3>4 DEF SkipDrive, DumpDone, AllocBuffer, Step, driver, Configuring
    <3>5. CASE BuildWild \/ PrintSector
      BY <3>5 DEF BuildWild, PrintSector, Step, driver, Configuring
    <3>6. CASE StillRunning \/ Wake
      BY <3>6 DEF StillRunning, Wake, Step, driver, Configuring
    <3> QED
      BY <1>3, <3>2, <3>3, <3>4, <3>5, <3>6
  <2> QED
    BY <1>1, <2>1 DEF CommandInv
<1>4. CASE CommandStop \/ CommandStart
  <2>1. /\ at \in Configuring /\ at' \in Configuring /\ port \in Ports
        /\ \/ hba' = [hba EXCEPT ![port].st = FALSE, ![port].fre = FALSE]
           \/ hba' = [hba EXCEPT ![port].st = TRUE, ![port].fre = TRUE]
    <3>1. CASE CommandStop
      <4>1. /\ at = "configure" /\ at' = "halt" /\ port < PortCount
            /\ hba' = [hba EXCEPT ![port].st = FALSE, ![port].fre = FALSE]
        BY <3>1 DEF CommandStop, Step
      <4>2. PortCount \in Nat
        BY MachineAssumption
      <4>3. port \in Ports
        BY <1>2, <4>1, <4>2
      <4> QED
        BY <4>1, <4>3 DEF Configuring
    <3>2. CASE CommandStart
      BY <1>2, <3>2 DEF CommandStart, Step, Configuring
    <3> QED
      BY <1>4, <3>1, <3>2
  <2>2. \A q \in Ports : ~ hba'[q].ci /\ ~ hba'[q].tfes /\ ~ hba'[q].failed
    <3>1. \A q \in Ports : ~ hba[q].ci /\ ~ hba[q].tfes /\ ~ hba[q].failed
      BY <1>1, <2>1
    <3>2. \A q \in Ports : /\ hba'[q].ci = hba[q].ci /\ hba'[q].tfes = hba[q].tfes
                           /\ hba'[q].failed = hba[q].failed
      BY <2>1 DEF EnginesInv, Registers
    <3> QED
      BY <3>1, <3>2
  <2> QED
    BY <2>1, <2>2 DEF CommandInv, Configuring
<1>5. CASE Rebase
  <2>1. /\ at = "poll" /\ at' = "start" /\ port \in Ports
        /\ hba' = [hba EXCEPT ![port].list = fresh]
    BY <1>2, <1>5 DEF Rebase, Step, Lists
  <2>2. \A q \in Ports : ~ hba'[q].ci /\ ~ hba'[q].tfes /\ ~ hba'[q].failed
    <3>1. \A q \in Ports : ~ hba[q].ci /\ ~ hba[q].tfes /\ ~ hba[q].failed
      BY <1>1, <2>1 DEF Configuring
    <3>2. \A q \in Ports : /\ hba'[q].ci = hba[q].ci /\ hba'[q].tfes = hba[q].tfes
                           /\ hba'[q].failed = hba[q].failed
      BY <2>1 DEF EnginesInv, Registers
    <3> QED
      BY <3>1, <3>2
  <2> QED
    BY <2>1, <2>2 DEF CommandInv, Configuring
<1>6. CASE BuildCommand
  <2>1. /\ at = "build" /\ at' = "ready" /\ mem[hba[port].list].kind = "list"
        /\ hba' = [hba EXCEPT ![port].tfes = FALSE]
        /\ mem' = [mem EXCEPT ![Table(port)] = Content("table", buffer)]
        /\ UNCHANGED <<loaded, port, buffer>>
    BY <1>6 DEF BuildCommand, Step, driver, call
  <2>2. port \in Ports /\ loaded
    BY <1>2, <2>1 DEF Reading
  <2>3. /\ hba'[port].tfes = FALSE /\ hba'[port].ci = hba[port].ci
        /\ hba'[port].failed = hba[port].failed /\ hba'[port].cr = hba[port].cr
        /\ hba'[port].st = hba[port].st /\ hba'[port].list = hba[port].list
        /\ hba[port].list \in Nat
        /\ \A q \in Ports : q # port => hba'[q] = hba[q]
    BY <2>1, <2>2 DEF EnginesInv, Registers
  <2> DEFINE n == hba[port].list
  <2>4. n \in DOMAIN mem
    <3>1. /\ fresh \in Nat /\ LastPage \in Nat /\ fresh + 1 <= LastPage
          /\ n < fresh /\ n \in Nat
      BY <2>2, <2>3, PagesSuffice DEF BudgetInv, ListsInv
    <3> QED
      BY <3>1 DEF ListsInv
  <2>5. Table(port) = n + 2 /\ n + 2 <= LastPage /\ LastPage \in Nat
    BY <2>1, <2>4, PagesSuffice DEF Table, ListsInv
  <2>6. n + 2 \in DOMAIN mem /\ n + 2 # n
    BY <2>3, <2>5 DEF ListsInv
  <2>7. mem'[n] = mem[n] /\ mem'[n + 2] = Content("table", buffer)
    BY <2>1, <2>4, <2>5, <2>6
  <2>8. /\ mem'[hba'[port'].list].kind = "list"
        /\ mem'[Table(port)'] = Content("table", buffer')
    <3>1. Table(port)' = Table(port)
      BY <2>1, <2>3, <2>7 DEF Table
    <3> QED
      BY <2>1, <2>3, <2>5, <2>7, <3>1
  <2>9. ASSUME NEW q \in Ports
        PROVE  /\ hba'[q].failed => hba'[q].cr
               /\ hba'[q].ci \/ hba'[q].tfes =>
                    \/ hba'[q].failed
                    \/ ~ hba'[q].cr /\ ~ hba'[q].st
    BY <1>1, <2>1, <2>3
  <2>10. at' \notin Configuring /\ loaded'
    BY <2>1, <2>2 DEF Configuring
  <2> QED
    BY <2>1, <2>8, <2>9, <2>10 DEF CommandInv
<1>7. CASE WatchdogEnds
  <2>1. /\ at = "ready" /\ at' = "print" /\ hba' = hba /\ good' = FALSE
        /\ UNCHANGED <<loaded, port, buffer, mem>>
    BY <1>7 DEF WatchdogEnds, Step, driver
  <2>2. at' \notin Configuring /\ loaded'
    BY <1>2, <2>1 DEF Configuring, Reading
  <2> QED
    BY <1>1, <2>1, <2>2 DEF CommandInv
<1>8. CASE Issue
  <2>1. /\ at = "ready" /\ at' = "wait"
        /\ hba' = [hba EXCEPT ![port].ci = TRUE]
        /\ UNCHANGED <<loaded, port, buffer, mem, good>>
    BY <1>8 DEF Issue, Step, driver, call
  <2>2. port \in Ports /\ loaded
    BY <1>2, <2>1 DEF Reading
  <2>3. /\ hba'[port].tfes = hba[port].tfes /\ hba'[port].ci = TRUE
        /\ hba'[port].failed = hba[port].failed /\ hba'[port].cr = hba[port].cr
        /\ hba'[port].st = hba[port].st /\ hba'[port].list = hba[port].list
        /\ \A q \in Ports : q # port => hba'[q] = hba[q]
    BY <2>1, <2>2 DEF EnginesInv, Registers
  <2>4. /\ mem'[hba'[port'].list].kind = "list"
        /\ mem'[Table(port)'] = Content("table", buffer')
    BY <1>1, <2>1, <2>3 DEF Table
  <2>5. ASSUME NEW q \in Ports
        PROVE  /\ hba'[q].failed => hba'[q].cr
               /\ hba'[q].ci \/ hba'[q].tfes =>
                    \/ port' = q /\ ~ hba'[q].tfes
                    \/ hba'[q].failed
                    \/ ~ hba'[q].cr /\ ~ hba'[q].st
    BY <1>1, <2>1, <2>3
  <2>6. at' \notin Configuring /\ loaded'
    BY <2>1, <2>2 DEF Configuring
  <2> QED
    BY <2>1, <2>3, <2>4, <2>5, <2>6 DEF CommandInv
<1>9. CASE ReadEnds
  <2>1. /\ at = "wait" /\ at' = "print"
        /\ hba[port].tfes \/ ~ hba[port].ci
        /\ hba' = hba
        /\ UNCHANGED <<loaded, port, buffer, mem>>
        /\ good' => ~ hba[port].tfes
    BY <1>9 DEF ReadEnds, ReadResult, Step, driver
  <2>2. port \in Ports /\ loaded
    BY <1>2, <2>1 DEF Reading
  <2>3. ASSUME NEW q \in Ports
        PROVE  /\ hba'[q].failed => hba'[q].cr
               /\ hba'[q].ci \/ hba'[q].tfes =>
                    \/ hba'[q].failed
                    \/ ~ hba'[q].cr /\ ~ hba'[q].st
    BY <1>1, <2>1
  <2>4. at' \notin Configuring /\ loaded'
    BY <2>1, <2>2 DEF Configuring
  <2>5. good' => mem'[buffer'] = Content("sector", port')
    BY <1>1, <2>1
  <2> QED
    BY <2>1, <2>3, <2>4, <2>5 DEF CommandInv
<1> QED
  BY <1>3, <1>4, <1>5, <1>6, <1>7, <1>8, <1>9 DEF DriverStep

\* Every step keeps what a command that is issued means.
LEMMA CommandStep ==
    ASSUME PlacesInv, BudgetInv, EnginesInv, ListsInv, CommandInv, [Next]_vars
    PROVE  CommandInv'
<1>1. CASE UNCHANGED vars
  BY <1>1 DEF CommandInv, Table, vars, ahci, driver, call
<1>2. CASE KernelStep \/ AllocCommandBuffer \/ KernelReads \/ KernelTakes
  <2>1. /\ UNCHANGED <<loaded, hba, mem, port, buffer, good>>
        /\ \/ at' = at
           \/ at' = "load" /\ at = "idle"
           \/ at = "done" /\ at' = "idle"
    BY <1>2, KernelLeaves DEF PlacesInv
  <2>2. \/ at' = at
        \/ at' \notin Configuring \cup {"ready", "wait", "print"} /\ at # "wait"
    BY <2>1 DEF Configuring
  <2>3. Table(port)' = Table(port)
    BY <2>1 DEF Table
  <2> QED
    BY <2>1, <2>2, <2>3 DEF CommandInv
<1>3. CASE DiskStep \/ Wakes
  BY <1>3, CommandDriver DEF DiskStep, Wakes
<1>4. CASE DevicesStep
  BY <1>4, CommandController DEF DevicesStep
<1> QED
  BY <1>1, <1>2, <1>3, <1>4, NextCases

----------------------------------------------------------------------------
(* The lists that are written over *)

\* No list is written over at first.
LEMMA OverwrittenInit == Init => OverwrittenInv
BY DEF Init, AhciInit, OverwrittenInv, Configuring, Listed

\* A step that writes over no list keeps what is known of those that are.
LEMMA OverwrittenKept ==
    ASSUME PlacesInv, OverwrittenInv,
           UNCHANGED <<machine, drives>>, Listed' = Listed,
           \A p \in Ports : hba'[p].list = hba[p].list,
           \A p \in Listed : mem'[hba[p].list].kind = mem[hba[p].list].kind,
           at' \in Configuring => at \in Configuring,
           at = "lost" => at' = "lost",
           \A p \in drives : at' # "lost" /\ machine.kind[p] = "SATA" /\ Ahead(p) => Ahead(p)'
    PROVE  OverwrittenInv'
<1>1. Listed \subseteq drives /\ drives \subseteq Ports
  BY ListedArePorts
<1>2. at \notin Configuring => Listed = drives
  BY DEF Listed, Configuring
<1>3. \A q \in Listed : mem'[hba'[q].list].kind = mem[hba[q].list].kind
  BY <1>1
<1>4. CASE at \in Configuring
  BY <1>3, <1>4 DEF OverwrittenInv
<1>5. CASE at \notin Configuring
  <2>1. ASSUME at' # "lost", NEW q \in Listed', mem'[hba'[q].list].kind # "list"
        PROVE  \E p \in drives' :
                 /\ p < q /\ hba'[p].list + 2 = hba'[q].list /\ machine'.kind[p] = "SATA"
                 /\ mem'[hba'[p].list].kind = "list" \/ Ahead(p)'
    <3>1. q \in Listed /\ q \in Ports /\ mem[hba[q].list].kind # "list" /\ at # "lost"
      BY <1>1, <1>3, <2>1
    <3>2. PICK p \in drives :
            /\ p < q /\ hba[p].list + 2 = hba[q].list /\ machine.kind[p] = "SATA"
            /\ mem[hba[p].list].kind = "list" \/ Ahead(p)
      BY <3>1 DEF OverwrittenInv
    <3>3. p \in Listed /\ p \in Ports
      BY <1>1, <1>2, <1>5
    <3>4. hba'[p].list + 2 = hba'[q].list
      BY <3>1, <3>2, <3>3
    <3>5. mem'[hba'[p].list].kind = "list" \/ Ahead(p)'
      BY <1>3, <2>1, <3>2, <3>3
    <3> QED
      BY <3>2, <3>4, <3>5
  <2> QED
    BY <1>5, <2>1 DEF OverwrittenInv
<1> QED
  BY <1>4, <1>5

\* A command's table is written over the list of the next drive, if anything's.
LEMMA OverwrittenBuild ==
    ASSUME PlacesInv, BudgetInv, EnginesInv, ListsInv, OverwrittenInv, BuildCommand
    PROVE  OverwrittenInv'
<1>1. /\ at = "build" /\ at' = "ready" /\ mem[hba[port].list].kind = "list"
      /\ hba' = [hba EXCEPT ![port].tfes = FALSE]
      /\ mem' = [mem EXCEPT ![Table(port)] = Content("table", buffer)]
      /\ UNCHANGED <<machine, drives, port>>
  BY DEF BuildCommand, Step, driver, call
<1>2. /\ drives \subseteq Ports /\ Ports \subseteq Nat /\ PortCount \in Nat
      /\ port \in drives /\ port \in Nat /\ port + 1 \in Nat
      /\ \A p \in Ports : p < PortCount
      /\ machine.kind[port] = "SATA"
  <2>1. PortCount \in Nat \ {0}
    BY MachineAssumption
  <2>2. Ports \subseteq Nat /\ \A p \in Ports : p < PortCount
    BY <2>1 DEF Ports
  <2>3. drives \subseteq Ports /\ port \in drives /\ machine.kind[port] = "SATA"
    BY <1>1 DEF PlacesInv, Reading
  <2> QED
    BY <2>1, <2>2, <2>3
<1>3. Listed = drives /\ Listed' = drives
  BY <1>1 DEF Listed
<1>4. \A p \in Ports : hba'[p].list = hba[p].list /\ hba[p].list \in Nat
  BY <1>1, <1>2 DEF EnginesInv, Registers
<1> DEFINE n == hba[port].list
<1>5. /\ LastPage \in Nat
      /\ \A p \in Ports : hba[p].list \in DOMAIN mem
  <2>1. /\ fresh \in Nat /\ LastPage \in Nat /\ fresh + 1 <= LastPage
    BY PagesSuffice DEF BudgetInv
  <2>2. \A p \in Ports : hba[p].list < fresh
    BY DEF ListsInv
  <2> QED
    BY <1>4, <2>1, <2>2 DEF ListsInv
<1>6. n \in Nat /\ Table(port) = n + 2
  BY <1>1, <1>2, <1>4, <1>5 DEF Table, ListsInv
<1>7. \A i \in DOMAIN mem : mem'[i] = IF i = n + 2 THEN Content("table", buffer) ELSE mem[i]
  BY <1>1, <1>6
<1> HIDE DEF n
<1>8. \A p, q \in drives : p < q => hba[p].list + 2 <= hba[q].list
  BY <1>1, <1>3 DEF ListsInv
<1>9. n = hba[port].list
  BY DEF n
<1>10. mem'[n].kind = "list"
  <2>1. n \in DOMAIN mem /\ n # n + 2
    BY <1>2, <1>5, <1>6, <1>9
  <2> QED
    BY <1>1, <1>7, <1>9, <2>1
<1>11. ASSUME NEW q \in drives, mem'[hba'[q].list].kind # "list"
       PROVE  \E p \in drives :
                 /\ p < q /\ hba'[p].list + 2 = hba'[q].list /\ machine'.kind[p] = "SATA"
                 /\ mem'[hba'[p].list].kind = "list" \/ Ahead(p)'
  <2>1. q \in Ports /\ q \in Nat /\ hba'[q].list = hba[q].list /\ hba[q].list \in Nat
    BY <1>2, <1>4
  <2>2. CASE hba[q].list = n + 2
    <3>1. port < q
      <4>1. q # port
        BY <1>6, <1>9, <2>1, <2>2
      <4>2. ~ (q < port)
        BY <1>2, <1>6, <1>8, <1>9, <2>1, <2>2
      <4> QED
        BY <1>2, <2>1, <4>1, <4>2
    <3>2. hba'[port].list + 2 = hba'[q].list /\ mem'[hba'[port].list].kind = "list"
      BY <1>2, <1>4, <1>9, <1>10, <2>1, <2>2
    <3> QED
      BY <1>1, <1>2, <3>1, <3>2
  <2>3. CASE hba[q].list # n + 2
    <3>1. mem[hba[q].list].kind # "list"
      BY <1>5, <1>7, <1>11, <2>1, <2>3
    <3>2. PICK p \in drives :
            /\ p < q /\ hba[p].list + 2 = hba[q].list /\ machine.kind[p] = "SATA"
            /\ mem[hba[p].list].kind = "list" \/ Ahead(p)
      BY <1>1, <1>3, <3>1 DEF OverwrittenInv
    <3>3. p \in Ports /\ p \in Nat /\ hba'[p].list = hba[p].list /\ hba[p].list \in Nat
      BY <1>2, <1>4
    <3>4. p # port
      BY <1>9, <2>3, <3>2
    <3>5. mem[hba[p].list].kind = "list"
      BY <1>1, <3>2, <3>4 DEF Ahead
    <3>6. CASE hba[p].list # n + 2
      <4>1. mem'[hba'[p].list].kind = "list"
        BY <1>5, <1>7, <3>3, <3>5, <3>6
      <4> QED
        BY <1>1, <2>1, <3>2, <3>3, <4>1
    <3>7. CASE hba[p].list = n + 2
      <4> DEFINE r == NextDrive(port + 1, drives)
      <4>1. /\ r \in drives \cup {PortCount}
            /\ r # PortCount => r >= port + 1
            /\ \A i \in drives : i >= port + 1 => r <= i
        BY <1>2, NextDriveProperties
      <4> HIDE DEF r
      <4>2. ~ (p < port)
        BY <1>2, <1>6, <1>8, <1>9, <3>3, <3>7
      <4>3. p >= port + 1
        BY <1>2, <3>3, <3>4, <4>2
      <4>4. r <= p /\ r # PortCount /\ r \in drives /\ r \in Nat /\ r >= port + 1
        BY <1>2, <3>3, <4>1, <4>3
      <4>5. ~ (r < p)
        <5>1. SUFFICES ASSUME r < p PROVE FALSE
          OBVIOUS
        <5>2. hba[port].list + 2 <= hba[r].list
          BY <1>2, <1>8, <4>4
        <5>3. hba[r].list + 2 <= hba[p].list
          BY <1>8, <4>4, <5>1
        <5>4. hba[r].list \in Nat
          BY <1>2, <1>4, <4>4
        <5> QED
          BY <1>6, <1>9, <3>7, <5>2, <5>3, <5>4
      <4>6. r = p
        BY <3>3, <4>4, <4>5
      <4>7. Ahead(p)'
        BY <1>1, <4>6 DEF Ahead, r
      <4> QED
        BY <1>1, <2>1, <3>2, <3>3, <4>7
    <3> QED
      BY <3>6, <3>7
  <2> QED
    BY <2>2, <2>3
<1> QED
  BY <1>1, <1>3, <1>11 DEF OverwrittenInv, Configuring

\* The driver writes over a list only with a table, and only where it says.
LEMMA OverwrittenDriver ==
    ASSUME PlacesInv, BudgetInv, EnginesInv, ListsInv, OverwrittenInv, DriverStep \/ Wake
    PROVE  OverwrittenInv'
<1> USE DEF Configuring, Reading
<1>1. /\ PortCount \in Nat \ {0} /\ port \in 0 .. PortCount
      /\ machine' = machine
  BY ProgressTypes, DriverFrame
<1>2. /\ Listed \subseteq drives /\ drives \subseteq Ports /\ Ports \subseteq Nat
      /\ \A p \in Ports : p # PortCount /\ hba[p].list \in Nat /\ hba[p].list < fresh
  <2>1. Ports \subseteq Nat /\ \A p \in Ports : p # PortCount
    BY <1>1 DEF Ports
  <2> QED
    BY <2>1, ListedArePorts DEF EnginesInv, Registers, ListsInv
<1>3. fresh \in Nat \ {0} /\ LastPage \in Nat /\ (at = "poll" => fresh + 3 <= LastPage)
  BY PagesSuffice DEF BudgetInv
<1>4. CASE LoadDriver
  <2>1. Listed' = {}
    BY <1>4, ListedDriver
  <2> QED
    BY <2>1 DEF OverwrittenInv
<1>9. CASE LoadBeyond
  BY <1>9 DEF LoadBeyond, LoadPorts, Step, OverwrittenInv
<1>5. CASE Rebase
  <2>1. /\ at = "poll" /\ at' = "start" /\ port \in drives
        /\ hba' = [hba EXCEPT ![port].list = fresh]
        /\ mem' = [mem EXCEPT ![fresh + 1] = Clear, ![fresh + 2] = Clear,
                              ![fresh + 2 + 1] = Clear, ![fresh] = Content("list", fresh + 2)]
        /\ UNCHANGED <<drives, port>>
    BY <1>5 DEF Rebase, Step, Lists, driver, call, PlacesInv
  <2>2. Listed = {p \in drives : p < port} /\ Listed' = {p \in drives : p <= port}
    BY <2>1 DEF Listed
  <2>3. DOMAIN mem = 0 .. LastPage
    BY DEF ListsInv
  <2>4. mem'[fresh] = Content("list", fresh + 2)
    BY <1>3, <2>1, <2>3
  <2>5. hba'[port].list = fresh /\ \A p \in Ports : p # port => hba'[p].list = hba[p].list
    BY <1>2, <2>1 DEF EnginesInv, Registers
  <2>6. ASSUME NEW q \in Listed' PROVE mem'[hba'[q].list].kind = "list"
    <3>1. CASE q = port
      BY <2>4, <2>5, <3>1 DEF Content
    <3>2. CASE q # port
      <4>1. q \in Listed /\ q \in Ports /\ hba'[q].list = hba[q].list
        BY <1>2, <2>2, <2>5, <3>2, <1>1
      <4>2. mem[hba[q].list].kind = "list"
        BY <2>1, <4>1 DEF OverwrittenInv
      <4>3. hba[q].list \in DOMAIN mem /\ hba[q].list \notin {fresh, fresh + 1, fresh + 2, fresh + 3}
        BY <1>2, <1>3, <2>1, <2>3, <4>1
      <4>4. mem'[hba[q].list] = mem[hba[q].list]
        BY <1>3, <2>1, <4>3
      <4> QED
        BY <4>1, <4>2, <4>4
    <3> QED
      BY <3>1, <3>2
  <2> QED
    BY <2>6 DEF OverwrittenInv
<1>6. CASE BuildCommand
  BY <1>6, OverwrittenBuild
<1>7. CASE CommandStop \/ CommandStart \/ StillRunning \/ Wake
  <2>1. /\ at \in Configuring /\ at' \in Configuring
        /\ UNCHANGED <<drives, mem>>
        /\ \/ hba' = hba
           \/ hba' = [hba EXCEPT ![port].st = FALSE, ![port].fre = FALSE]
           \/ hba' = [hba EXCEPT ![port].st = TRUE, ![port].fre = TRUE]
    BY <1>7 DEF CommandStop, CommandStart, StillRunning, Wake, Step, driver, call
  <2>2. Listed' = Listed
    BY <1>7, <2>1, ListedDriver DEF LoadDriver, LoadBeyond, LoadPorts, Rebase, CommandStop,
        CommandStart, StillRunning,
                                    Wake, Step
  <2>3. \A p \in Ports : hba'[p].list = hba[p].list
    BY <2>1 DEF EnginesInv, Registers
  <2>4. \A q \in Listed' : mem'[hba'[q].list].kind = "list"
    BY <1>2, <2>1, <2>2, <2>3 DEF OverwrittenInv
  <2> QED
    BY <2>4 DEF OverwrittenInv
<1>8. CASE \/ Available \/ LoadNothing \/ LoadNoBar \/ Configured \/ SkipDrive \/ DumpDone
           \/ AllocBuffer \/ BuildWild \/ WatchdogEnds \/ Issue \/ ReadEnds \/ PrintSector
  <2>1. /\ drives' = drives /\ at' \notin Configuring /\ at # "lost"
        /\ \/ hba' = hba
           \/ hba' = [hba EXCEPT ![port].ci = TRUE]
        /\ \/ mem' = mem
           \/ mem' = [mem EXCEPT ![fresh] = Content("buffer", 0)]
    <3>1. Body \in {"dump", "done"}
      BY DEF Body
    <3>2. CASE Available \/ LoadNothing \/ LoadNoBar \/ Configured
      BY <3>1, <3>2 DEF Available, LoadNothing, LoadNoBar, Configured, Step, driver
    <3>3. CASE SkipDrive \/ DumpDone \/ AllocBuffer \/ BuildWild
      BY <3>3 DEF SkipDrive, DumpDone, AllocBuffer, BuildWild, Step, driver
    <3>4. CASE WatchdogEnds \/ Issue \/ ReadEnds \/ PrintSector
      BY <3>4 DEF WatchdogEnds, Issue, ReadEnds, PrintSector, Step, driver
    <3> QED
      BY <1>8, <3>2, <3>3, <3>4
  <2>2. at' # "lost" => Listed' = Listed
    <3>1. ~ Rebase
      BY <2>1 DEF Rebase, Step
    <3>2. ~ LoadDriver /\ (at' # "lost" => ~ LoadBeyond)
      BY <2>1 DEF LoadDriver, LoadBeyond, LoadPorts, Step
    <3> QED
      BY <3>1, <3>2, ListedDriver
  <2>3. \A p \in Ports : hba'[p].list = hba[p].list
    BY <2>1 DEF EnginesInv, Registers
  <2>4. \A p \in Listed : mem'[hba[p].list].kind = mem[hba[p].list].kind
    <3> SUFFICES ASSUME NEW p \in Listed
                 PROVE  mem'[hba[p].list].kind = mem[hba[p].list].kind
      OBVIOUS
    <3>1. hba[p].list # fresh /\ hba[p].list \in DOMAIN mem
      <4>1. p \in Ports /\ hba[p].list \in Nat /\ hba[p].list < fresh
        BY <1>2
      <4>2. fresh + 1 <= LastPage
        BY PagesSuffice
      <4> QED
        BY <1>3, <4>1, <4>2 DEF ListsInv
    <3> QED
      BY <2>1, <3>1
  <2>5. ASSUME NEW p \in drives, at' # "lost", machine.kind[p] = "SATA", Ahead(p)
        PROVE  Ahead(p)'
    <3>1. p \in Ports /\ p # PortCount
      BY <1>2
    <3>2. CASE Available \/ LoadNothing \/ LoadNoBar \/ Configured
      BY <2>5, <3>2 DEF Available, LoadNothing, LoadNoBar, Configured, Step, Ahead
    <3>3. CASE SkipDrive \/ DumpDone \/ BuildWild
      BY <2>5, <3>1, <3>3 DEF SkipDrive, DumpDone, BuildWild, Step, Ahead
    <3>4. CASE AllocBuffer
      BY <2>5, <3>4 DEF AllocBuffer, Step, Ahead
    <3>5. CASE WatchdogEnds \/ Issue \/ ReadEnds
      <4>1. /\ at \in {"ready", "wait"} /\ at' \in {"wait", "print"}
            /\ UNCHANGED <<port, drives>>
        BY <3>5 DEF WatchdogEnds, Issue, ReadEnds, Step, call, driver
      <4>2. NextDrive(port + 1, drives)' = NextDrive(port + 1, drives)
        BY <4>1
      <4>3. NextDrive(port + 1, drives) = p
        BY <2>5, <4>1 DEF Ahead
      <4> QED
        BY <4>1, <4>2, <4>3 DEF Ahead
    <3>6. CASE PrintSector
      <4>1. at = "print" /\ at' = "dump" /\ port' = port + 1 /\ drives' = drives
        BY <3>6 DEF PrintSector, Step, driver
      <4>2. Turn' = NextDrive(port + 1, drives)
        BY <4>1 DEF Turn
      <4>3. NextDrive(port + 1, drives) = p
        BY <2>5, <4>1 DEF Ahead
      <4> QED
        BY <4>1, <4>2, <4>3 DEF Ahead
    <3> QED
      BY <1>8, <3>2, <3>3, <3>4, <3>5, <3>6
  <2>6. at' = "lost" => OverwrittenInv'
    BY <2>1 DEF OverwrittenInv
  <2> QED
    BY <1>1, <2>1, <2>2, <2>3, <2>4, <2>5, <2>6, OverwrittenKept
<1> QED
  BY <1>4, <1>5, <1>6, <1>7, <1>8, <1>9 DEF DriverStep

\* Every step keeps what is known of the lists that are written over.
LEMMA OverwrittenStep ==
    ASSUME PlacesInv, BudgetInv, EnginesInv, ListsInv, CommandInv, OverwrittenInv, [Next]_vars
    PROVE  OverwrittenInv'
<1>1. CASE UNCHANGED vars
  BY <1>1 DEF OverwrittenInv, Listed, Ahead, Turn, NextDrive, vars, ahci, driver, call
<1>2. CASE KernelStep \/ AllocCommandBuffer \/ KernelReads \/ KernelTakes
  <2>1. /\ UNCHANGED <<machine, drives, hba, mem, port>>
        /\ \/ at' = at
           \/ at' = "load" /\ at = "idle"
           \/ at = "done" /\ at' = "idle"
    BY <1>2, KernelLeaves DEF PlacesInv
  <2>2. Listed' = Listed
    BY <2>1 DEF Listed
  <2>3. at' = at \/ (at' \notin Configuring \cup {"lost"} /\ at \in {"idle", "done"})
    BY <2>1 DEF Configuring
  <2>4. ASSUME NEW p \in drives, Ahead(p)
        PROVE  Ahead(p)'
    <3>1. at' = at
      BY <2>3, <2>4 DEF Ahead
    <3> QED
      BY <2>1, <2>4, <3>1 DEF Ahead, Turn
  <2>5. (at' \in Configuring => at \in Configuring) /\ (at = "lost" => at' = "lost")
    BY <2>3
  <2> QED
    BY <2>1, <2>2, <2>4, <2>5, OverwrittenKept
<1>3. CASE DiskStep \/ Wakes
  BY <1>3, OverwrittenDriver DEF DiskStep, Wakes
<1>4. CASE DevicesStep
  <2>1. /\ UNCHANGED <<machine, drives, at, port>>
        /\ \A p \in Ports : hba'[p].list = hba[p].list
    BY <1>4, ControllerFrame, ControllerWrites DEF DevicesStep, driver, call
  <2>2. Listed' = Listed
    BY <2>1 DEF Listed
  <2>3. \A p \in Listed : mem'[hba[p].list].kind = mem[hba[p].list].kind
    <3>1. \/ mem' = mem
          \/ at = "wait" /\ mem' = [mem EXCEPT ![buffer] = Content("sector", port)]
      BY <1>4, ControllerMemory DEF DevicesStep
    <3>2. CASE mem' = mem
      BY <3>2
    <3>3. CASE at = "wait" /\ mem' = [mem EXCEPT ![buffer] = Content("sector", port)]
      <4> SUFFICES ASSUME NEW p \in Listed
                   PROVE  mem'[hba[p].list].kind = mem[hba[p].list].kind
        OBVIOUS
      <4>1. p \in drives /\ p \in Ports
        BY ListedArePorts
      <4>2. /\ hba[p].list < buffer /\ hba[p].list \in Nat
            /\ buffer \in Nat /\ buffer < fresh
        BY <3>3, <4>1 DEF ListsInv, EnginesInv, Registers, Reading
      <4>3. fresh \in Nat /\ LastPage \in Nat /\ fresh + 1 <= LastPage
        BY PagesSuffice DEF BudgetInv
      <4>4. hba[p].list \in DOMAIN mem /\ hba[p].list # buffer
        BY <4>2, <4>3 DEF ListsInv
      <4> QED
        BY <3>3, <4>4
    <3> QED
      BY <3>1, <3>2, <3>3
  <2>4. ASSUME NEW p \in drives, Ahead(p)
        PROVE  Ahead(p)'
    BY <2>1, <2>4 DEF Ahead, Turn
  <2> QED
    BY <2>1, <2>2, <2>3, <2>4, OverwrittenKept
<1> QED
  BY <1>1, <1>2, <1>3, <1>4, NextCases

----------------------------------------------------------------------------
(* Faults *)

\* The processor runs at first.
LEMMA FaultInit == Init => FaultInv
BY DEF Init, AhciInit, FaultInv, DriverFaultExplained

\* No step is taken once the processor has stopped.
LEMMA StoppedForGood ==
    ASSUME Next
    PROVE  ~ fault
<1>1. CASE KernelStep \/ AllocCommandBuffer \/ KernelReads \/ KernelTakes
  BY <1>1, KernelLeaves
<1>2. CASE DiskStep \/ Wakes
  BY <1>2 DEF DiskStep, Wakes, DriverStep, Wake, Step, Available, LoadNothing, LoadNoBar,
              LoadDriver, LoadBeyond, LoadPorts, CommandStop, StillRunning, Rebase,
              CommandStart, Configured,
              SkipDrive, DumpDone, AllocBuffer, BuildWild, BuildCommand, WatchdogEnds,
              Issue, ReadEnds, PrintSector
<1>3. CASE DevicesStep
  BY <1>3 DEF DevicesStep
<1> QED
  BY <1>1, <1>2, <1>3, NextCases

\* Outside the driver the processor stops with no command buffer or in a list.
LEMMA StaysOpen ==
    ASSUME KernelStep \/ AllocCommandBuffer \/ KernelReads \/ KernelTakes
    PROVE  fault' => ~ opened' \/ ListUnderWay'
<1>1. CASE ReadNowhere
  BY <1>1 DEF ReadNowhere, shell
<1>3. CASE ReadUnderWay
  <2>1. /\ text' = [text EXCEPT ![index] = Nul] /\ index' = index /\ pc' = pc
        /\ ListUnderWay
    BY <1>3 DEF ReadUnderWay, Read
  <2>2. [text' EXCEPT ![index'] = Nul] = [text EXCEPT ![index] = Nul]
    BY <2>1
  <2>3. \A name : Matches(name) => Matches(name)'
    BY <2>2 DEF Matches
  <2> QED
    BY <2>1, <2>3 DEF ListUnderWay
<1>2. CASE ~ ReadNowhere /\ ~ ReadUnderWay
  <2>1. fault' = fault
    <3>1. CASE \/ Probe \/ NoInput \/ SelectInput \/ EnableInterrupt \/ UnmaskInput
               \/ ResetIndex \/ ClearText \/ ListsGrow
               \/ AllocCommandBuffer \/ KernelReads \/ KernelTakes
      BY <3>1
         DEF Probe, NoInput, SelectInput, EnableInterrupt, UnmaskInput, ResetIndex, ClearText,
             ListsGrow, PciCounts, PciSets, PciLoaded, TaskLinks, TaskLinked, SetEntry,
             AllocCommandBuffer, KernelReads, KernelTakes, ReadSection,
             MoveSection, ahci
    <3>2. CASE \/ (\E v \in Vectors : Interrupt(v)) \/ HandlerEnds
               \/ ReadBell \/ ReadPrinted \/ ReadEmptyLine \/ ReadOtherLine
               \/ (\E name \in DiskCommands : ReadDiskCommand(name))
               \/ DiskCommandEnds
               \/ \E c \in Printed \cup {Return, Bell} : Receive(c)
      BY <3>2 DEF Interrupt, HandlerEnds, ReadBell, ReadPrinted, ReadEmptyLine,
          ReadOtherLine,
                  ReadDiskCommand, DiskCommandEnds, Receive, ahci
    <3> QED
      BY <1>2, <3>1, <3>2 DEF KernelStep
  <2>2. ~ fault
    BY KernelLeaves
  <2> QED
    BY <2>1, <2>2
<1> QED
  BY <1>1, <1>2, <1>3

\* The driver faults where no device was found, or at a list that is a table.
LEMMA FaultDriver ==
    ASSUME PlacesInv, EnginesInv, ListsInv, BudgetInv, OverwrittenInv, FaultInv,
           DriverStep \/ Wake, ~ fault, handler = "disk", UNCHANGED <<handler, opened>>
    PROVE  FaultInv'
<1>1. /\ machine' = machine /\ found' = found
  BY DriverFrame DEF DriverStep, Wake, Step, Available, LoadNothing, LoadNoBar,
       LoadDriver, LoadBeyond, LoadPorts, CommandStop, StillRunning, Rebase, CommandStart,
       Configured,
       SkipDrive, DumpDone, AllocBuffer, BuildWild, BuildCommand, WatchdogEnds,
       Issue, ReadEnds, PrintSector
<1>2. CASE LoadNothing
  <2>1. at' = "lost" /\ fault' = TRUE /\ ~ found
    BY <1>2 DEF LoadNothing, Step
  <2> QED
    BY <1>1, <2>1 DEF FaultInv, DriverFaultExplained
<1>5. CASE LoadBeyond
  <2>1. at' = "lost" /\ fault' = TRUE /\ Beyond # {}
    BY <1>5 DEF LoadBeyond, LoadPorts, Step
  <2>2. Beyond' = Beyond
    BY <1>1 DEF Beyond
  <2> QED
    BY <1>1, <2>1, <2>2 DEF FaultInv, DriverFaultExplained
<1>3. CASE BuildWild
  <2>1. /\ at = "build" /\ at' = "lost" /\ fault' = TRUE
        /\ mem[hba[port].list].kind # "list"
        /\ UNCHANGED <<drives, hba, mem>>
    BY <1>3 DEF BuildWild, Step, driver
  <2>2. port \in drives /\ Listed = drives /\ drives \subseteq Ports
    BY <2>1 DEF PlacesInv, Reading, Listed
  <2>3. PICK p \in drives :
          /\ p < port /\ hba[p].list + 2 = hba[port].list
          /\ mem[hba[p].list].kind = "list" \/ Ahead(p)
    BY <2>1, <2>2 DEF OverwrittenInv
  <2>4. p # port
    <3>1. port \in Int /\ ~ (port < port)
      <4>1. PortCount \in Nat /\ port \in 0 .. PortCount
        BY ProgressTypes
      <4> QED
        BY <4>1
    <3> QED
      BY <2>3, <3>1
  <2>5. mem[hba[p].list].kind = "list"
    BY <2>1, <2>3, <2>4 DEF Ahead
  <2>6. hba[p].list \in DOMAIN mem
    <3>1. /\ p \in Ports /\ hba[p].list \in Nat /\ hba[p].list < fresh
          /\ fresh \in Nat /\ LastPage \in Nat /\ fresh + 1 <= LastPage
      BY <2>2, PagesSuffice DEF EnginesInv, Registers, ListsInv, BudgetInv
    <3> QED
      BY <3>1 DEF ListsInv
  <2>7. Table(p) = hba[port].list
    BY <2>3, <2>5, <2>6 DEF Table, ListsInv
  <2>8. Table(p)' = hba'[port].list /\ p \in drives' /\ port \in drives'
    BY <2>1, <2>2, <2>7 DEF Table
  <2>9. \E r, q \in drives' : r # q /\ Table(r)' = hba'[q].list
    BY <2>4, <2>8
  <2> QED
    BY <2>1, <2>9 DEF FaultInv, DriverFaultExplained
<1>4. CASE ~ LoadNothing /\ ~ LoadBeyond /\ ~ BuildWild
  <2>1. at' # "lost" /\ fault' = fault
    <3>1. Body # "lost"
      BY DEF Body
    <3>2. CASE Available \/ LoadNoBar \/ LoadDriver \/ Configured
      BY <3>1, <3>2 DEF Available, LoadNoBar, LoadDriver, LoadPorts, Configured, Step
    <3>3. CASE CommandStop \/ StillRunning \/ Wake \/ Rebase \/ CommandStart
      BY <3>3 DEF CommandStop, StillRunning, Wake, Rebase, CommandStart, Step
    <3>4. CASE SkipDrive \/ DumpDone \/ AllocBuffer \/ BuildCommand
      BY <3>4 DEF SkipDrive, DumpDone, AllocBuffer, BuildCommand, Step
    <3>5. CASE WatchdogEnds \/ Issue \/ ReadEnds \/ PrintSector
      BY <3>5 DEF WatchdogEnds, Issue, ReadEnds, PrintSector, Step
    <3> QED
      BY <1>4, <3>2, <3>3, <3>4, <3>5 DEF DriverStep
  <2> QED
    BY <2>1 DEF FaultInv, DriverFaultExplained
<1> QED
  BY <1>2, <1>3, <1>4, <1>5

\* Every step keeps the reason of a fault.
LEMMA FaultStep ==
    ASSUME PlacesInv, EnginesInv, ListsInv, BudgetInv, OverwrittenInv, FaultInv, [Next]_vars
    PROVE  FaultInv'
<1>1. CASE UNCHANGED vars
  BY <1>1 DEF FaultInv, DriverFaultExplained, Beyond, Table, ListUnderWay, Matches, vars,
      serial, shell, ahci, driver, call
<1>2. CASE KernelStep \/ AllocCommandBuffer \/ KernelReads \/ KernelTakes
  <2>1. /\ ~ fault
        /\ \/ at' = at
           \/ at' \in {"load", "idle"}
    BY <1>2, KernelLeaves
  <2>2. at' # "lost"
    BY <2>1 DEF FaultInv
  <2>3. fault' => ~ opened' \/ ListUnderWay'
    BY <1>2, StaysOpen
  <2> QED
    BY <2>2, <2>3 DEF FaultInv, DriverFaultExplained
<1>3. CASE DiskStep \/ Wakes
  <2>1. ~ fault
    BY <1>3, NextCases, StoppedForGood
  <2>2. handler = "disk" /\ UNCHANGED <<handler, opened>>
    BY <1>3 DEF DiskStep, Wakes, serial, shell
  <2> QED
    BY <1>3, <2>1, <2>2, FaultDriver DEF DiskStep, Wakes
<1>4. CASE DevicesStep
  <2>1. ~ fault /\ UNCHANGED <<at, fault, serial>>
    BY <1>4, ControllerFrame DEF DevicesStep
  <2>2. at' # "lost"
    BY <2>1 DEF FaultInv
  <2> QED
    BY <2>1, <2>2 DEF FaultInv, DriverFaultExplained
<1> QED
  BY <1>1, <1>2, <1>3, <1>4, NextCases

----------------------------------------------------------------------------
(* Types *)

\* All lines lead to the first vector, masked, at first.
LEMMA RoutingTypesInit == Init => RoutingTypesInv
<1> SUFFICES ASSUME Init PROVE RoutingTypesInv
  OBVIOUS
<1>1. 0 \in Vectors /\ 0 .. Exceptions - 1 \subseteq Vectors
  BY VectorsAssumption DEF Vectors
<1>2. redirects \in [Lines -> [vector : Vectors, masked : BOOLEAN]]
  BY <1>1 DEF Init, IrqInit
<1>3. uart \in [masked : BOOLEAN, gsi : Lines \cup {0}, vector : Vectors]
  BY <1>1 DEF Init
<1> QED
  BY <1>1, <1>2, <1>3 DEF Init, IrqInit, RoutingTypesInv, IrqTypeOK

\* A request is for a vector.
LEMMA EdgeType ==
    ASSUME IrqTypeOK, NEW l \in Lines
    PROVE  Edge(l) \subseteq Vectors
BY DEF IrqTypeOK, Edge

\* The other steps leave the interrupts alone.
LEMMA RoutingTypesFrame ==
    ASSUME RoutingTypesInv, [Next]_vars, ~ Probe, ~ SelectInput, ~ UnmaskInput,
           ~ EnableInterrupt, ~ HandlerEnds,
           ~ \E v \in Vectors : Interrupt(v),
           ~ \E c \in Printed \cup {Return, Bell} : Receive(c)
    PROVE  RoutingTypesInv'
<1>1. /\ UNCHANGED <<irqs, uart, enabled>>
      /\ pc' = pc \/ pc' \notin {"probe", "select", "enable"}
  <2>1. CASE UNCHANGED vars
    BY <2>1 DEF vars, serial, console
  <2>2. CASE NoInput \/ ResetIndex \/ ClearText \/ ListsGrow
             \/ AllocCommandBuffer \/ KernelReads \/ KernelTakes
    BY <2>2 DEF NoInput, ResetIndex, ClearText, ListsGrow, PciCounts, PciSets, PciLoaded,
        TaskLinks, TaskLinked, AllocCommandBuffer, KernelReads,
                KernelTakes, Boot, console
  <2>3. CASE \/ ReadBell \/ ReadPrinted \/ ReadNowhere \/ ReadEmptyLine \/ ReadOtherLine \/ ReadUnderWay
             \/ (\E name \in DiskCommands : ReadDiskCommand(name)) \/ DiskCommandEnds
    BY <2>3 DEF ReadBell, ReadPrinted, ReadNowhere, ReadEmptyLine, ReadOtherLine,
        ReadUnderWay,
                ReadDiskCommand, DiskCommandEnds, Read, console
  <2>4. CASE DiskStep \/ Wakes \/ DevicesStep
    BY <2>4, DiskFrame DEF serial, console
  <2> QED
    BY <2>1, <2>2, <2>3, <2>4, NextCases DEF KernelStep
<1> QED
  BY <1>1 DEF RoutingTypesInv, IrqTypeOK, irqs, routing, pending

\* Every step keeps the types of what routes interrupts.
LEMMA RoutingTypesStep ==
    ASSUME RoutingTypesInv, [Next]_vars
    PROVE  RoutingTypesInv'
<1>1. /\ 0 \in Vectors /\ 1 \in Vectors /\ {1, 3, 4} \subseteq Lines
  BY VectorsAssumption, HandlersAssumption DEF Vectors
<1>2. /\ vectors \subseteq Vectors /\ DOMAIN handlers = Vectors
      /\ redirects \in [Lines -> [vector : Vectors, masked : BOOLEAN]]
      /\ requested \subseteq Vectors /\ serviced \subseteq Vectors
      /\ uart \in [masked : BOOLEAN, gsi : Lines \cup {0}, vector : Vectors]
      /\ pc \in {"probe", "select"} => vectors = 0 .. Exceptions - 1 /\ ~ enabled
      /\ enabled \/ pc = "enable" => uart.gsi \in Lines
  BY DEF RoutingTypesInv, IrqTypeOK
<1>3. CASE Probe
  <2> DEFINE hit(object) == IF Coms \in machine.present /\ machine.beyond = object THEN 1 ELSE 0
             g == hit("input_com_gsi")
             v == hit("input_idt_vector")
  <2>1. /\ UNCHANGED <<irqs, enabled>> /\ pc = "probe" /\ pc' = "select"
        /\ uart' = [masked |-> TRUE, gsi |-> g, vector |-> v]
        /\ g \in {0, 1} /\ v \in {0, 1}
    BY <1>3 DEF Probe, Boot
  <2> HIDE DEF g, v
  <2>2. uart' \in [masked : BOOLEAN, gsi : Lines \cup {0}, vector : Vectors]
    <3>1. g \in Lines \cup {0} /\ v \in Vectors
      BY <1>1, <2>1
    <3> QED
      BY <2>1, <3>1
  <2> QED
    BY <1>2, <2>1, <2>2 DEF RoutingTypesInv, IrqTypeOK, irqs, routing, pending
<1>4. CASE SelectInput
  <2> DEFINE v == IF uart.vector = 0 THEN FreeVector ELSE uart.vector
  <2>1. PICK line \in {3, 4} :
          /\ pc = "select" /\ pc' = "enable"
          /\ uart' = [uart EXCEPT !.gsi = line, !.vector = v]
          /\ vectors' = vectors \cup {v} \/ vectors' = vectors
          /\ handlers' = [handlers EXCEPT ![v] = "uart"]
          /\ redirects' = [redirects EXCEPT ![line] = [vector |-> v, masked |-> TRUE]]
          /\ UNCHANGED <<pending, enabled>>
    <3>1. Gsi(IF 1 \in available THEN 1 ELSE 2) \in {3, 4}
      BY DEF Gsi
    <3> QED
      BY <1>4, <3>1 DEF SelectInput, Boot, HandlerAt, Installed, Redirected
  <2>2. v \in Vectors
    <3>1. vectors = 0 .. Exceptions - 1
      BY <1>2, <2>1
    <3>2. FreeVector \in Vectors
      BY <3>1, FreeVectorIsFree
    <3> QED
      BY <1>2, <3>2
  <2> HIDE DEF v
  <2>3. line \in Lines
    BY <1>1, <2>1
  <2>4. uart' \in [masked : BOOLEAN, gsi : Lines \cup {0}, vector : Vectors] /\ uart'.gsi \in Lines
    BY <1>2, <2>1, <2>2, <2>3
  <2>5. /\ vectors' \subseteq Vectors /\ DOMAIN handlers' = Vectors
        /\ redirects' \in [Lines -> [vector : Vectors, masked : BOOLEAN]]
    BY <1>2, <2>1, <2>2, <2>3
  <2> QED
    BY <1>2, <2>1, <2>4, <2>5 DEF RoutingTypesInv, IrqTypeOK, pending
<1>5. CASE UnmaskInput
  <2>1. /\ pc' = "start"
        /\ uart' = [uart EXCEPT !.masked = FALSE]
        /\ redirects' = IF uart.gsi # 0
                        THEN [redirects EXCEPT ![uart.gsi].masked = FALSE] ELSE redirects
        /\ UNCHANGED <<vectors, handlers, pending, enabled>>
    BY <1>5 DEF UnmaskInput, Boot, Unmasked
  <2>2. /\ uart' \in [masked : BOOLEAN, gsi : Lines \cup {0}, vector : Vectors]
        /\ uart'.gsi = uart.gsi
    BY <1>2, <2>1
  <2>3. redirects' \in [Lines -> [vector : Vectors, masked : BOOLEAN]]
    BY <1>2, <2>1
  <2> QED
    BY <1>2, <2>1, <2>2, <2>3 DEF RoutingTypesInv, IrqTypeOK, pending
<1>6. CASE EnableInterrupt
  <2>1. /\ pc = "enable" /\ pc' = "unmask"
        /\ requested' = Edge(uart.gsi) \/ requested' = requested
        /\ UNCHANGED <<routing, serviced, uart>>
    BY <1>6 DEF EnableInterrupt, Boot
  <2>2. uart.gsi \in Lines
    BY <1>2, <2>1
  <2>3. requested' \subseteq Vectors
    BY <1>2, <2>1, <2>2, EdgeType DEF RoutingTypesInv
  <2> QED
    BY <1>2, <2>1, <2>2, <2>3 DEF RoutingTypesInv, IrqTypeOK, routing
<1>7. CASE \E c \in Printed \cup {Return, Bell} : Receive(c)
  <2>1. /\ (enabled /\ requested' = Edge(uart.gsi)) \/ requested' = requested
        /\ UNCHANGED <<routing, serviced, uart, enabled, pc>>
    BY <1>7 DEF Receive, console
  <2>2. requested' \subseteq Vectors
    <3>1. CASE enabled /\ requested' = Edge(uart.gsi)
      <4>1. uart.gsi \in Lines
        BY <1>2, <3>1
      <4> QED
        BY <3>1, <4>1, EdgeType DEF RoutingTypesInv
    <3> QED
      BY <1>2, <2>1, <3>1
  <2> QED
    BY <1>2, <2>1, <2>2 DEF RoutingTypesInv, IrqTypeOK, routing
<1>8. CASE HandlerEnds \/ \E v \in Vectors : Interrupt(v)
  <2>1. /\ requested' \subseteq requested /\ serviced' \subseteq Vectors
        /\ UNCHANGED <<routing, uart, enabled, pc>>
    <3>1. CASE HandlerEnds
      BY <3>1 DEF HandlerEnds, console
    <3>2. ASSUME NEW v \in Vectors, Interrupt(v)
          PROVE  /\ requested' \subseteq requested /\ serviced' \subseteq Vectors
                 /\ UNCHANGED <<routing, uart, enabled, pc>>
      BY <3>2 DEF Interrupt, Deliver, console
    <3> QED
      BY <1>8, <3>1, <3>2
  <2> QED
    BY <1>2, <2>1 DEF RoutingTypesInv, IrqTypeOK, routing
<1> QED
  BY <1>3, <1>4, <1>5, <1>6, <1>7, <1>8, RoutingTypesFrame

----------------------------------------------------------------------------
(* What the disk commands promise *)

\* The invariant of the driver, from the places to what was written over.
DiskInv ==
    /\ PagesInv /\ PlacesInv /\ BudgetInv /\ EnginesInv
    /\ ListsInv /\ CommandInv /\ OverwrittenInv /\ FaultInv

\* The invariant holds at first.
LEMMA DiskInit == Init => DiskInv
<1>1. Init => PagesInv
  BY DEF Init, AhciInit, PagesInv, NoPage
<1> QED
  BY <1>1, PlacesInit, BudgetInit, EnginesInit, ListsInit, CommandInit, OverwrittenInit,
     FaultInit DEF DiskInv

\* Every step keeps it.
LEMMA DiskInvStep ==
    ASSUME DiskInv, [Next]_vars
    PROVE  DiskInv'
BY PagesStep, PlacesStep, BudgetStep, EnginesStep, ListsStep, CommandStep, OverwrittenStep,
   FaultStep DEF DiskInv

\* What disktest prints of a read that returned true is what the drive sent for this
\* read (ahci_drive_command_read_wait, ahci_debug_print_port): for any number of
\* ports and commands, with drives that are late, fail, or have lost their lists to
\* another drive's table.
THEOREM ReadsTellTheTruth == Spec => []TrueMeansRead
<1>1. Init => DiskInv
  BY DiskInit
<1>2. DiskInv /\ [Next]_vars => DiskInv'
  BY DiskInvStep
<1>3. DiskInv => TrueMeansRead
  BY DEF DiskInv, CommandInv, TrueMeansRead
<1> QED
  BY <1>1, <1>2, <1>3, PTL DEF Spec

\* The values that the module's variables take.
LEMMA TypesAreKept ==
    ASSUME DiskInv, LineInv, RoutingTypesInv
    PROVE  TypeOK
<1>1. /\ fresh \in Nat /\ fresh + 1 <= LastPage /\ LastPage \in Nat
      /\ base = NoPage \/ (base \in Nat /\ base <= fresh)
      /\ buffer \in Nat /\ buffer < fresh
  BY PagesSuffice DEF DiskInv, BudgetInv, ListsInv
<1>2. \A p \in Ports : hba[p].list \in 0 .. LastPage
  BY <1>1 DEF DiskInv, EnginesInv, Registers, ListsInv
<1>3. {fresh, base, buffer} \subseteq 0 .. LastPage
  BY <1>1 DEF NoPage
<1>4. {found, checked, loaded, good, fault, torn} \subseteq BOOLEAN
  BY DEF DiskInv, PlacesInv
<1>5. AhciTypeOK
  BY <1>2, <1>3, <1>4 DEF AhciTypeOK, DiskInv, PlacesInv
<1>6. \A i \in Places : text[i] \in Printed \cup {Nul}
  BY DEF LineInv
<1>7. uart.gsi \in Lines \cup {0} /\ uart.vector \in Vectors
  BY DEF RoutingTypesInv
<1> QED
  BY <1>5, <1>6, <1>7 DEF TypeOK, RoutingTypesInv, LineInv, DiskInv, PlacesInv

\* Every variable keeps its type, the bound on the pages included; and the processor
\* stops in a fault only before the AHCI controller is among the PCI functions known,
\* on a machine without one or with one that has ports behind the page that is mapped,
\* at a second drive whose list is where the first one's table is, for a character that
\* is read before uart_shell_start has a page for it, or for a list of functions or
\* tasks that the boot code is adding to (pci_conf_load_cache, task_create_new).
THEOREM FaultsExplained == Spec => []FaultExplained
<1>1. Init => DiskInv /\ LineInv /\ RoutingTypesInv
  BY DiskInit, LineInit, RoutingTypesInit
<1>2. (DiskInv /\ LineInv /\ RoutingTypesInv) /\ [Next]_vars =>
            (DiskInv /\ LineInv /\ RoutingTypesInv)'
  BY DiskInvStep, LineStep, RoutingTypesStep
<1>3. DiskInv /\ LineInv /\ RoutingTypesInv => FaultExplained
  BY TypesAreKept DEF DiskInv, FaultInv, FaultExplained
<1> QED
  BY <1>1, <1>2, <1>3, PTL DEF Spec
=============================================================================
