----------------------------- MODULE BootProofs -----------------------------
(***************************************************************************)
(* Of the boot code, one invariant for each of its three parts:            *)
(*   ClocksInv: an interrupt without a gate was one of the PIT, on its way *)
(*     when the PIT's line was masked, for any tables, vectors and lines;  *)
(*   MapInv: what the memory map leaves FREE is usable, for any map;       *)
(*   LoaderInv: the program is in memory as it was linked, for any program *)
(*     headers and page size.                                              *)
(***************************************************************************)
EXTENDS Boot, SequencesExt, SequenceTheorems, WellFoundedInduction, TLAPS

Less == {pair \in Nat \X Nat : pair[1] < pair[2]}

\* A set of natural numbers has a least element.
LEMMA LeastNatural ==
    ASSUME NEW T, T \subseteq Nat, T # {}
    PROVE  \E x \in T : \A y \in T : x <= y
<1>1. IsWellFoundedOn(Less, Nat)
  BY NatLessThanWellFounded DEF OpToRel, Less
<1>2. PICK x \in T : \A y \in T : ~ (<<y, x>> \in Less)
  BY <1>1, WFMin
<1>3. ASSUME NEW y \in T
      PROVE  x <= y
  <2>1. <<y, x>> \in Nat \X Nat /\ <<y, x>>[1] = y /\ <<y, x>>[2] = x
    OBVIOUS
  <2>2. ~ (y < x)
    BY <1>2, <2>1 DEF Less
  <2> QED
    BY <2>2
<1> QED
  BY <1>3

\* The maximum of a set of places of a sequence is one of them.
LEMMA MaxOfPlaces ==
    ASSUME NEW n \in Nat, NEW S, S \subseteq 1 .. n, S # {}
    PROVE  Max(S) \in S /\ \A y \in S : y <= Max(S)
<1> DEFINE T == {n - y : y \in S}
<1>1. T \subseteq Nat
  OBVIOUS
<1>2. T # {}
  OBVIOUS
<1>3. PICK x \in T : \A y \in T : x <= y
  BY <1>1, <1>2, LeastNatural
<1>4. PICK m \in S : x = n - m
  OBVIOUS
<1>5. ASSUME NEW y \in S
      PROVE  m >= y
  <2>1. n - m <= n - y
    BY <1>3, <1>4
  <2> QED
    BY <2>1
<1>6. Max(S) \in S /\ \A y \in S : Max(S) >= y
  <2> HIDE DEF T
  <2> QED
    BY <1>5 DEF Max
<1>7. \A y \in S : y \in Int
  OBVIOUS
<1> QED
  BY <1>6, <1>7

(* The clocks *)

\* Where the PIT has a vector, and where its line may be unmasked.
PitHeld == {"install", "unmask", "start", "look", "halt", "mask", "free"}
PitOpen == {"start", "look", "halt", "mask"}

\* Each vector is where the boot code has it: only the PIT's line is ever unmasked,
\* and what is requested is of the PIT, or of the local timer once it runs.
ClocksInv ==
    /\ madt \in Seq(Records) \ {<< >>} /\ beyond \in Records
    /\ ClocksTypeOK
    /\ vectors = CASE clock \in {"off", "ready"} -> 0 .. Exceptions - 1
                   [] clock \in PitHeld          -> 0 .. Exceptions + 1
                   [] clock = "lost"             -> vectors
                   [] OTHER                      -> 0 .. Exceptions
    /\ clock # "lost" => vector = IF clock \in {"off", "ready"} THEN 0 ELSE Exceptions
    /\ clock # "lost" => pit_vector = IF clock \in PitHeld THEN Exceptions + 1 ELSE 0
    /\ clock \notin {"off", "lost", "ready", "armed"} => handlers[vector] = "local"
    /\ clock \in PitHeld \ {"install"} => handlers[pit_vector] = "pit"
    /\ clock \in PitHeld => gsi = gsi_map[Pit]
    /\ clock \in PitHeld \ {"free"} => redirects[gsi].vector = pit_vector
    /\ \A l \in Lines : redirects[l].masked \/ (clock \in PitOpen /\ l = gsi)
    /\ requested \subseteq CASE clock \in PitOpen \cup {"free"}      -> {Exceptions + 1}
                             [] clock \in {"frequency", "running"} -> {Exceptions, Exceptions + 1}
                             [] OTHER                              -> {}
    /\ StrayWasOnItsWay

\* idt_allocate_vector finds the first vector behind those that are taken.
LEMMA FreeVectorIsNext ==
    ASSUME NEW n \in Nat, n <= LastVector, vectors = 0 .. n - 1
    PROVE  FreeVector = n
<1>1. n \in Vectors \ vectors
  BY VectorsAssumption DEF Vectors
<1>2. \A w \in Vectors \ vectors : n <= w /\ w \in Nat
  BY VectorsAssumption DEF Vectors
<1>3. FreeVector = CHOOSE v \in Vectors \ vectors :
                      \A w \in Vectors \ vectors : v <= w
  BY <1>1 DEF FreeVector
<1>4. FreeVector \in Vectors \ vectors /\ FreeVector <= n
  BY <1>1, <1>2, <1>3
<1> QED
  BY <1>2, <1>4

\* The records give a line of the controller to each interrupt that is one.
LEMMA LineOfType ==
    ASSUME NEW records \in Seq(Records), NEW irq \in Lines
    PROVE  LineOf(irq, records) \in Lines
<1> DEFINE overrides == { i \in DOMAIN records :
                            records[i].type = "override" /\ records[i].source = irq }
<1>1. CASE overrides = {}
  BY <1>1 DEF LineOf
<1>2. CASE overrides # {}
  <2>1. overrides \subseteq 1 .. Len(records) /\ Len(records) \in Nat
    OBVIOUS
  <2>2. Max(overrides) \in overrides
    BY <1>2, <2>1, MaxOfPlaces
  <2>3. \A i \in overrides : records[i] \in Records /\ records[i].type = "override"
    OBVIOUS
  <2>4. \A i \in overrides : records[i].gsi \in Lines
    BY <2>3 DEF Records
  <2>5. LineOf(irq, records) = records[Max(overrides)].gsi
    BY <1>2 DEF LineOf
  <2> QED
    BY <2>2, <2>4, <2>5
<1> QED
  BY <1>1, <1>2

\* The records behind the first, and the one behind the last.
LEMMA WalkedType ==
    ASSUME madt \in Seq(Records) \ {<< >>}, beyond \in Records
    PROVE  Walked \in Seq(Records)
BY HeadTailProperties, AppendProperties DEF Walked

\* At first every line is masked and nothing is requested.
LEMMA ClocksInit == Init => ClocksInv
<1> SUFFICES ASSUME Init PROVE ClocksInv
  OBVIOUS
<1> USE VectorsAssumption, TimersAssumption DEF TimersInit, IrqInit
<1>1. TimersInit(madt, beyond) /\ madt \in Seq(Records) \ {<< >>} /\ beyond \in Records
  BY MachinesAssumption DEF Init, TimersInit
<1>2. redirects \in [Lines -> [vector : Vectors, masked : BOOLEAN]]
  BY <1>1 DEF Vectors
<1>3. gsi_map \in [Lines -> Lines]
  BY <1>1
<1>4. IrqTypeOK
  BY <1>1, <1>2 DEF IrqTypeOK, Vectors
<1>5. vector \in vectors /\ pit_vector \in vectors /\ ticks \in 0 .. Delay
  BY <1>1
<1>6. ClocksTypeOK
  BY <1>1, <1>3, <1>4, <1>5, SMTT(20) DEF ClocksTypeOK, Vectors, NoStray, NoGsi
<1> QED
  BY <1>1, <1>6 DEF ClocksInv, PitHeld, PitOpen, StrayWasOnItsWay

\* The boot code on its way to the PIT's watch: the tables, then the vectors.
LEMMA ClocksSetUp ==
    ASSUME ClocksInv,
           \/ InitializeApic \/ RegisterAstray \/ OverrideNowhere \/ ArmLocal
           \/ SetHandler \/ Redirect \/ RedirectNowhere \/ Install \/ Unmask
    PROVE  ClocksInv'
<1> USE VectorsAssumption, TimersAssumption
    DEF ClocksInv, ClocksTypeOK, IrqTypeOK, PitHeld, PitOpen, StrayWasOnItsWay, Here, firmware
<1>1. CASE InitializeApic
  <2>1. gsi_map' \in [Lines -> Lines]
    BY <1>1, LineOfType, WalkedType DEF InitializeApic
  <2>2. /\ redirects' \in [Lines -> [vector : Vectors, masked : BOOLEAN]]
        /\ \A l \in Lines : redirects'[l].masked
    BY <1>1 DEF InitializeApic, Vectors
  <2>3. /\ clock = "off" /\ clock' = "ready" /\ stray = NoStray
        /\ UNCHANGED <<madt, beyond, stray, vectors, handlers, requested, serviced, vector,
                       pit_vector, gsi, ticks, watching>>
    BY <1>1 DEF InitializeApic, pending, pit, stopwatch
  <2> QED
    BY <2>1, <2>2, <2>3
<1>2. CASE ArmLocal
  <2>1. FreeVector = Exceptions
    BY <1>2, FreeVectorIsNext DEF ArmLocal
  <2>2. /\ clock = "ready" /\ clock' = "armed" /\ stray = NoStray
        /\ vector' = Exceptions /\ vectors' = 0 .. Exceptions
        /\ UNCHANGED <<madt, beyond, stray, ioapic, handlers, requested, serviced, redirects,
                       gsi_map, pit_vector, gsi, ticks, watching>>
    BY <1>2, <2>1 DEF ArmLocal, pending, pit, stopwatch
  <2> QED
    BY <2>2, SMTT(20) DEF Vectors
<1>3. CASE SetHandler
  <2>1. /\ clock = "armed" /\ clock' = "pit" /\ stray = NoStray
        /\ handlers' = [handlers EXCEPT ![vector] = "local"]
        /\ UNCHANGED <<madt, beyond, stray, ioapic, vectors, requested, serviced, redirects,
                       gsi_map, vector, pit_vector, gsi, ticks, watching>>
    BY <1>3 DEF SetHandler, Installed, pending, pit, stopwatch
  <2> QED
    BY <2>1
<1>4. CASE Redirect
  <2>0. vectors = 0 .. (Exceptions + 1) - 1
    BY <1>4 DEF Redirect
  <2>1. FreeVector = Exceptions + 1
    BY <2>0, FreeVectorIsNext
  <2>2. /\ clock = "pit" /\ clock' = "install" /\ stray = NoStray
        /\ pit_vector' = Exceptions + 1 /\ vectors' = 0 .. Exceptions + 1
        /\ gsi' = gsi_map[Pit]
        /\ redirects' = Redirected(gsi', Exceptions + 1)
        /\ UNCHANGED <<madt, beyond, stray, ioapic, handlers, requested, serviced,
                       gsi_map, vector, ticks, watching>>
    BY <1>4, <2>1 DEF Redirect, pending, stopwatch
  <2>3. gsi' \in Lines /\ Exceptions + 1 \in Vectors
    BY <2>2 DEF Vectors
  <2>4. /\ redirects' \in [Lines -> [vector : Vectors, masked : BOOLEAN]]
        /\ redirects'[gsi'].vector = Exceptions + 1
        /\ \A l \in Lines : redirects'[l].masked
    BY <2>2, <2>3 DEF Redirected
  <2>5. IrqTypeOK'
    BY <2>2, <2>4 DEF Vectors
  <2>6. ClocksTypeOK'
    BY <2>2, <2>3, <2>5
  <2> QED
    BY <2>2, <2>4, <2>6
<1>5. CASE Install
  <2>1. /\ clock = "install" /\ clock' = "unmask" /\ stray = NoStray
        /\ handlers' = [handlers EXCEPT ![pit_vector] = "pit"]
        /\ UNCHANGED <<madt, beyond, stray, ioapic, vectors, requested, serviced, redirects,
                       gsi_map, vector, pit_vector, gsi, ticks, watching>>
    BY <1>5 DEF Install, Installed, pending, pit, stopwatch
  <2> QED
    BY <2>1
<1>6. CASE Unmask
  <2>1. /\ clock = "unmask" /\ clock' = "start" /\ stray = NoStray
        /\ redirects' = Unmasked(gsi)
        /\ UNCHANGED <<madt, beyond, stray, ioapic, vectors, handlers, requested, serviced,
                       gsi_map, vector, pit_vector, gsi, ticks, watching>>
    BY <1>6 DEF Unmask, pending, pit, stopwatch
  <2>2. gsi \in Lines
    BY <2>1
  <2>3. /\ redirects' \in [Lines -> [vector : Vectors, masked : BOOLEAN]]
        /\ \A l \in Lines : redirects'[l].vector = redirects[l].vector
        /\ \A l \in Lines : redirects'[l].masked \/ l = gsi
    BY <2>1, <2>2 DEF Unmasked
  <2> QED
    BY <2>1, <2>2, <2>3
<1>7. CASE RegisterAstray \/ OverrideNowhere
  <2>1. gsi_map' \in [Lines -> Lines]
    BY <1>7 DEF RegisterAstray, OverrideNowhere
  <2>2. /\ clock = "off" /\ clock' = "lost" /\ stray = NoStray
        /\ UNCHANGED <<madt, beyond, stray, vectors, handlers, requested, serviced, redirects,
                       vector, pit_vector, gsi, ticks, watching>>
    BY <1>7 DEF RegisterAstray, OverrideNowhere, irqs, routing, pending, pit, stopwatch
  <2> QED
    BY <2>1, <2>2
<1>8. CASE RedirectNowhere
  <2>1. vectors = 0 .. (Exceptions + 1) - 1
    BY <1>8 DEF RedirectNowhere
  <2>2. FreeVector = Exceptions + 1
    BY <2>1, FreeVectorIsNext
  <2>3. /\ clock = "pit" /\ clock' = "lost" /\ stray = NoStray
        /\ pit_vector' = Exceptions + 1 /\ vectors' = vectors \cup {Exceptions + 1}
        /\ gsi' \in Lines
        /\ UNCHANGED <<madt, beyond, stray, handlers, redirects, requested, serviced,
                       gsi_map, vector, ticks, watching>>
    BY <1>8, <2>2 DEF RedirectNowhere, pending, stopwatch
  <2>4. vectors' \subseteq Vectors /\ Exceptions \in vectors'
    BY <2>1, <2>3 DEF Vectors
  <2> QED
    BY <2>3, <2>4
<1> QED
  BY <1>1, <1>2, <1>3, <1>4, <1>5, <1>6, <1>7, <1>8

\* The watch, and the end of the PIT's interrupt: its line is masked before its
\* vector is freed, but what is requested of it stays requested.
LEMMA ClocksWatch ==
    ASSUME ClocksInv, StartWatch \/ Look \/ Mask \/ FreePit \/ SetFrequency
    PROVE  ClocksInv'
<1> USE VectorsAssumption, TimersAssumption
    DEF ClocksInv, ClocksTypeOK, IrqTypeOK, PitHeld, PitOpen, StrayWasOnItsWay, Here, firmware
<1>1. CASE StartWatch \/ Look \/ SetFrequency
  <2>1. /\ UNCHANGED <<madt, beyond, stray, ioapic, vectors, handlers, requested, serviced,
                       redirects, gsi_map, vector, pit_vector, gsi>>
        /\ ticks' \in 0 .. Delay
    BY <1>1 DEF StartWatch, Look, SetFrequency, irqs, routing, pending, pit, stopwatch
  <2>2. watching' \in BOOLEAN
    <3>1. CASE Look
      <4>1. watching' = (ticks < Delay)
        BY <3>1 DEF Look
      <4>2. \A b : b = (ticks < Delay) => b = TRUE \/ b = FALSE
        OBVIOUS
      <4> QED
        BY <4>1, <4>2
    <3>2. CASE StartWatch \/ SetFrequency
      BY <3>2 DEF StartWatch, SetFrequency, stopwatch
    <3> QED
      BY <1>1, <3>1, <3>2
  <2>3. /\ stray = NoStray
        /\ \/ clock = "start" /\ clock' = "look"
           \/ clock = "look" /\ clock' \in {"halt", "mask"}
           \/ clock = "frequency" /\ clock' = "running"
    BY <1>1 DEF StartWatch, Look, SetFrequency
  <2> QED
    BY <2>1, <2>2, <2>3
<1>2. CASE Mask
  <2>1. /\ clock = "mask" /\ clock' = "free" /\ stray = NoStray
        /\ gsi' = gsi_map[Pit]
        /\ redirects' = Redirected(gsi', 0)
        /\ UNCHANGED <<madt, beyond, stray, ioapic, vectors, handlers, requested, serviced,
                       gsi_map, vector, pit_vector, ticks, watching>>
    BY <1>2 DEF Mask, pending, stopwatch
  <2>2. gsi' = gsi /\ gsi \in Lines /\ 0 \in Vectors
    BY <2>1 DEF Vectors
  <2>3. /\ redirects' \in [Lines -> [vector : Vectors, masked : BOOLEAN]]
        /\ \A l \in Lines : redirects'[l].masked
    BY <2>1, <2>2 DEF Redirected
  <2> QED
    BY <2>1, <2>2, <2>3
<1>3. CASE FreePit
  <2>1. /\ clock = "free" /\ clock' = "frequency" /\ stray = NoStray
        /\ vectors' = vectors \ {pit_vector}
        /\ handlers' = [handlers EXCEPT ![pit_vector] = NoHandler]
        /\ pit_vector' = 0
        /\ UNCHANGED <<madt, beyond, stray, ioapic, requested, serviced, redirects,
                       gsi_map, vector, gsi, ticks, watching>>
    BY <1>3 DEF FreePit, FreeOf, Installed, pending, stopwatch
  <2>2. vectors' = 0 .. Exceptions
    BY <2>1
  <2>3. DOMAIN handlers' = Vectors /\ handlers'[vector] = "local"
    BY <2>1
  <2> QED
    BY <2>1, <2>2, <2>3
<1> QED
  BY <1>1, <1>2, <1>3

\* A tick of the PIT reaches the processor only through its own line, and the local
\* timer's interrupt comes only once it runs.
LEMMA ClocksTick ==
    ASSUME ClocksInv, PitTicks \/ LocalExpires
    PROVE  ClocksInv'
<1> USE VectorsAssumption, TimersAssumption
    DEF ClocksInv, ClocksTypeOK, IrqTypeOK, PitHeld, PitOpen, StrayWasOnItsWay
<1>1. /\ UNCHANGED <<clock, madt, beyond, stray, ioapic, vectors, handlers, serviced,
                     redirects, gsi_map, vector, pit_vector, gsi, ticks, watching>>
      /\ stray = NoStray
  BY DEF PitTicks, LocalExpires, Request, routing, clocks
<1>2. CASE PitTicks
  <2>1. LineOf(Pit, madt) \in Lines
    BY LineOfType
  <2>2. /\ ~ redirects[LineOf(Pit, madt)].masked
        /\ requested' = requested \cup {redirects[LineOf(Pit, madt)].vector}
    BY <1>2 DEF PitTicks, Request
  <2>3. clock \in PitOpen /\ redirects[LineOf(Pit, madt)].vector = Exceptions + 1
    BY <2>1, <2>2
  <2>4. requested' \subseteq {Exceptions + 1} /\ requested' \subseteq Vectors
    BY <2>2, <2>3 DEF Vectors
  <2> QED
    BY <1>1, <2>3, <2>4
<1>3. CASE LocalExpires
  <2>1. clock = "running" /\ requested' = requested \cup {Exceptions}
    BY <1>3 DEF LocalExpires, Request
  <2>2. Exceptions \in Vectors
    BY DEF Vectors
  <2> QED
    BY <1>1, <2>1, <2>2
<1> QED
  BY <1>2, <1>3

\* The processor takes an interrupt; the one without a gate is the PIT's, when its
\* vector has been freed.
LEMMA ClocksInterrupt ==
    ASSUME ClocksInv, NEW v \in requested, PitHandler(v) \/ LocalHandler(v) \/ NoGate(v)
    PROVE  ClocksInv'
<1> USE VectorsAssumption, TimersAssumption
    DEF ClocksInv, ClocksTypeOK, IrqTypeOK, PitHeld, PitOpen, StrayWasOnItsWay
<1>1. /\ stray = NoStray
      /\ v >= Exceptions /\ v \in Vectors
      /\ requested' = requested \ {v}
      /\ serviced' \subseteq Vectors
      /\ clock' = IF clock = "halt" THEN "look" ELSE clock
      /\ ticks' \in 0 .. Delay
      /\ UNCHANGED <<madt, beyond, ioapic, vectors, handlers, redirects, gsi_map, vector,
                     pit_vector, gsi, watching>>
  BY DEF PitHandler, LocalHandler, NoGate, Interrupt, Ended, Deliverable, routing, firmware,
      pit
<1>2. CASE PitHandler(v) \/ LocalHandler(v)
  <2>1. stray' = stray
    BY <1>2 DEF PitHandler, LocalHandler
  <2> QED
    BY <1>1, <2>1
<1>3. CASE NoGate(v)
  <2>1. stray' = v /\ handlers[v] = NoHandler
    BY <1>3 DEF NoGate
  <2>2. clock \in {"frequency", "running"} /\ v = Exceptions + 1
    BY <2>1
  <2>3. stray' \notin vectors' /\ stray' # vector' /\ stray' \in Vectors
    BY <1>1, <2>1, <2>2
  <2> QED
    BY <1>1, <2>2, <2>3
<1> QED
  BY <1>2, <1>3

\* Every step keeps the clocks' part.
LEMMA ClocksKept ==
    ASSUME ClocksInv, [Next]_vars
    PROVE  ClocksInv'
<1>1. CASE UNCHANGED <<irqs, clocks>>
  BY <1>1 DEF ClocksInv, ClocksTypeOK, IrqTypeOK, StrayWasOnItsWay, irqs, routing, pending,
      clocks
<1>2. CASE ClockStep
  BY <1>2, ClocksSetUp, ClocksWatch DEF ClockStep
<1>3. CASE PitTicks \/ LocalExpires
  BY <1>3, ClocksTick
<1>4. CASE \E v \in requested : PitHandler(v) \/ LocalHandler(v) \/ NoGate(v)
  BY <1>4, ClocksInterrupt
<1> QED
  BY <1>1, <1>2, <1>3, <1>4
     DEF Next, BootStep, ReadMap, StartClocks, LoadProgram, Tick, Handle, vars

\* No interrupt finds its gate absent but one of the PIT that was on its way when
\* pit_disable (pit.c) masked its line and freed its vector.
THEOREM StraysExplained == Spec => []StrayWasOnItsWay
<1>1. Init => ClocksInv
  BY ClocksInit
<1>2. ClocksInv /\ [Next]_vars => ClocksInv'
  BY ClocksKept
<1>3. ClocksInv => StrayWasOnItsWay
  BY DEF ClocksInv
<1> QED
  BY <1>1, <1>2, <1>3, PTL DEF Spec

----------------------------------------------------------------------------
(* The memory map *)

\* Entry t is the one the pages were taken from, the entry before it has them on
\* paper, and the rest is as the boot loader has it but for the IOMMU's entries.
TakenFrom(t) ==
    /\ reported[t].type = "usable" /\ reported[t].base \notin IommuBlock
    /\ t # 1 /\ candidate = reported[t].base
    /\ limine_map[t].type = "usable"
    /\ limine_map[t].base = reported[t].base + MapPages
    /\ limine_map[t].length = reported[t].length - MapPages
    /\ reported[t].length > MapPages
    /\ \A i \in DOMAIN limine_map \ {t} :
        /\ limine_map[i].base = reported[i].base
        /\ limine_map[i].type =
            IF reported[i].base \in IommuBlock THEN "bad" ELSE reported[i].type
        /\ limine_map[i].type = "usable" => limine_map[i].length = reported[i].length

MapInv ==
    /\ reported \in Seq(Entries) /\ Sorted(reported)
    /\ limine_map \in Seq(Entries) /\ Len(limine_map) = Len(reported)
    /\ mapping = "ignore" => limine_map = reported
    /\ mapping = "search" =>
        \A i \in DOMAIN limine_map :
            /\ limine_map[i].base = reported[i].base
            /\ limine_map[i].length = reported[i].length
            /\ limine_map[i].type =
                IF reported[i].base \in IommuBlock THEN "bad" ELSE reported[i].type
    /\ mapping \in {"convert", "low"} => \E t \in DOMAIN limine_map : TakenFrom(t)
    /\ mapping = "low" =>
        memory_map = [i \in DOMAIN limine_map |->
                        [base |-> limine_map[i].base, length |-> limine_map[i].length,
                         signal |-> Signal(limine_map[i].type)]]
    /\ mapping \notin {"low", "done"} => memory_map = << >>
    /\ FreeIsUsable

\* Only USABLE entries are FREE.
LEMMA SignalFree ==
    ASSUME NEW type
    PROVE  /\ Signal(type) \in {"FREE", "BUSY", "MMIO", "NOUSE"}
           /\ Signal(type) = "FREE" <=> type = "usable"
BY DEF Signal

\* The map takes at least a page.
LEMMA MapPagesType ==
    ASSUME limine_map \in Seq(Entries)
    PROVE  MapPages \in Nat
<1>1. Len(limine_map) \in Nat
  OBVIOUS
<1>2. ASSUME NEW n \in Nat
      PROVE  (n * 24 + 4095) \div 4096 + 2 \in Nat
  OBVIOUS
<1> QED
  BY <1>1, <1>2 DEF MapPages

\* A function on the places of a sequence of entries is one, too, of its length.
LEMMA EntriesFunction ==
    ASSUME NEW s \in Seq(Entries), NEW f \in [DOMAIN s -> Entries]
    PROVE  f \in Seq(Entries) /\ Len(f) = Len(s) /\ DOMAIN f = DOMAIN s
<1>1. DOMAIN s = 1 .. Len(s) /\ Len(s) \in Nat
  OBVIOUS
<1>2. f \in Seq(Entries)
  BY <1>1, SeqDef
<1> QED
  BY <1>1, <1>2, LenProperties

\* The fields of an entry of a map.
LEMMA EntryFields ==
    ASSUME NEW s \in Seq(Entries), NEW k \in DOMAIN s
    PROVE  s[k] \in Entries /\ s[k].base \in Nat /\ s[k].length \in Nat
<1>1. s[k] \in Entries
  OBVIOUS
<1> QED
  BY <1>1 DEF Entries

\* An entry without its first pages, or with a type of its own.
LEMMA EntryChanged ==
    ASSUME NEW e \in Entries, NEW n \in Nat, n <= e.length
    PROVE  /\ [e EXCEPT !.type = "bad"] \in Entries
           /\ [e EXCEPT !.type = "bad"].base = e.base
           /\ [e EXCEPT !.type = "bad"].length = e.length
           /\ [e EXCEPT !.type = "bad"].type = "bad"
           /\ [e EXCEPT !.base = @ + n, !.length = @ - n] \in Entries
           /\ [e EXCEPT !.base = @ + n, !.length = @ - n].base = e.base + n
           /\ [e EXCEPT !.base = @ + n, !.length = @ - n].length = e.length - n
           /\ [e EXCEPT !.base = @ + n, !.length = @ - n].type = e.type
<1>1. e.base + n \in Nat /\ e.length - n \in Nat
  BY EntryFields DEF Entries
<1>2. [e EXCEPT !.base = @ + n, !.length = @ - n]
        = [e EXCEPT !.base = e.base + n, !.length = e.length - n]
  BY DEF Entries
<1>3. \A b, l \in Nat : [e EXCEPT !.base = b, !.length = l] \in Entries
  BY DEF Entries
<1>4. [e EXCEPT !.base = @ + n, !.length = @ - n] \in Entries
  BY <1>1, <1>2, <1>3
<1>5. [e EXCEPT !.type = "bad"] \in Entries
  BY DEF Entries, Types
<1> QED
  BY <1>4, <1>5 DEF Entries

\* At first the map is as the boot loader hands it over.
LEMMA MapStart == Init => MapInv
<1> SUFFICES ASSUME Init PROVE MapInv
  OBVIOUS
<1>1. MapInit(reported, behind) /\ reported \in Seq(Entries) /\ Sorted(reported)
  BY MachinesAssumption DEF Init, MapInit
<1> QED
  BY <1>1 DEF MapInit, MapInv, FreeIsUsable, MapTypeOK

\* What is taken from an entry moves its base no further than the next one.
LEMMA BasesStaySorted ==
    ASSUME MapInv, NEW t \in DOMAIN limine_map, TakenFrom(t),
           NEW j \in DOMAIN limine_map, NEW i \in DOMAIN limine_map, j < i
    PROVE  limine_map[j].base <= limine_map[i].base
<1>1. DOMAIN limine_map = DOMAIN reported
  BY LenProperties DEF MapInv
<1>2. \A k \in DOMAIN limine_map :
        /\ limine_map[k] \in Entries /\ reported[k] \in Entries
        /\ reported[k].base \in Nat /\ reported[k].length \in Nat
        /\ limine_map[k].base \in Nat
  BY <1>1, EntryFields DEF MapInv
<1>3. MapPages \in Nat
  BY MapPagesType DEF MapInv
<1>4. /\ reported[j].base <= reported[i].base
      /\ j = t => reported[j].base + reported[j].length <= reported[i].base
  BY <1>1 DEF MapInv, Sorted, TakenFrom
<1>5. limine_map[i].base >= reported[i].base
  BY <1>2, <1>3 DEF TakenFrom
<1>6. CASE j = t
  <2>1. limine_map[j].base = reported[j].base + MapPages /\ reported[j].length > MapPages
    BY <1>6 DEF TakenFrom
  <2>2. limine_map[i].base = reported[i].base
    <3>1. i # t
      BY <1>6 DEF MapInv
    <3> QED
      BY <3>1 DEF TakenFrom
  <2> QED
    BY <1>2, <1>3, <1>4, <1>6, <2>1, <2>2
<1>7. CASE j # t
  <2>1. limine_map[j].base = reported[j].base
    BY <1>7 DEF TakenFrom
  <2> QED
    BY <1>2, <1>4, <1>5, <2>1
<1> QED
  BY <1>6, <1>7

\* A USABLE entry is one the boot loader reports, without the pages that are taken.
LEMMA UsablePages ==
    ASSUME MapInv, NEW t \in DOMAIN limine_map, TakenFrom(t), NEW i \in DOMAIN limine_map
    PROVE  /\ limine_map[i].type = "usable" <=>
                reported[i].type = "usable" /\ reported[i].base \notin IommuBlock
           /\ limine_map[i].type = "usable" =>
                PagesOf(limine_map[i])
                    = PagesOf(reported[i]) \ (candidate .. candidate + MapPages - 1)
<1>1. DOMAIN limine_map = DOMAIN reported
  BY LenProperties DEF MapInv
<1>2. \A k \in DOMAIN limine_map : reported[k].base \in Nat /\ reported[k].length \in Nat
  BY <1>1, EntryFields DEF MapInv
<1>3. MapPages \in Nat
  BY MapPagesType DEF MapInv
<1>4. CASE i = t
  BY <1>2, <1>3, <1>4 DEF TakenFrom, PagesOf
<1>5. CASE i # t
  <2>1. limine_map[i].type = "usable" <=>
            reported[i].type = "usable" /\ reported[i].base \notin IommuBlock
    BY <1>5 DEF TakenFrom
  <2>2. ASSUME limine_map[i].type = "usable"
        PROVE  PagesOf(limine_map[i])
                    = PagesOf(reported[i]) \ (candidate .. candidate + MapPages - 1)
    <3>1. /\ limine_map[i].base = reported[i].base /\ limine_map[i].length = reported[i].length
          /\ reported[t].base = candidate /\ reported[t].length > MapPages
          /\ reported[t].type = "usable"
      BY <1>5, <2>2 DEF TakenFrom
    <3>2. i \in Nat /\ t \in Nat
      BY DEF MapInv
    <3>3. \/ reported[i].base + reported[i].length <= candidate
          \/ candidate + reported[t].length <= reported[i].base
      <4>1. CASE i < t
        BY <1>1, <3>1, <4>1 DEF MapInv, Sorted
      <4>2. CASE t < i
        BY <1>1, <3>1, <4>2 DEF MapInv, Sorted
      <4> QED
        BY <1>5, <3>2, <4>1, <4>2
    <3> QED
      BY <1>2, <1>3, <3>1, <3>3 DEF PagesOf
  <2> QED
    BY <2>1, <2>2
<1> QED
  BY <1>4, <1>5

\* Behind the first entry, the pages that stay FREE are those of the USABLE entries
\* from the first megabyte on.
LEMMA PagesAbove ==
    ASSUME MapInv, WithholdMegabyte, NEW i \in DOMAIN limine_map, i # 1
    PROVE  /\ memory_map'[i].base \in Nat /\ memory_map'[i].length \in Nat
           /\ memory_map'[i].signal \in {"FREE", "BUSY", "MMIO", "NOUSE"}
           /\ memory_map'[i].signal = "FREE" => limine_map[i].type = "usable"
           /\ limine_map[i].type = "usable" =>
                (IF memory_map'[i].signal = "FREE" THEN PagesOf(memory_map'[i]) ELSE {})
                    = {p \in PagesOf(limine_map[i]) : p >= Megabyte}
<1> DEFINE e == [base |-> limine_map[i].base, length |-> limine_map[i].length,
                 signal |-> Signal(limine_map[i].type)]
<1>1. PICK t \in DOMAIN limine_map : TakenFrom(t)
  BY DEF MapInv, WithholdMegabyte
<1>2. \A k \in DOMAIN limine_map : limine_map[k].base \in Nat /\ limine_map[k].length \in Nat
  BY EntryFields DEF MapInv
<1>3. DOMAIN memory_map = DOMAIN limine_map /\ memory_map[i] = e
  BY DEF MapInv, WithholdMegabyte
<1>4. memory_map'[i] = IF \A j \in 2 .. i : limine_map[j].base < Megabyte
                       THEN Above(e) ELSE e
  <2>1. \A j \in 2 .. i : j \in DOMAIN limine_map /\ memory_map[j].base = limine_map[j].base
    BY DEF MapInv, WithholdMegabyte
  <2> QED
    BY <1>3, <2>1 DEF WithholdMegabyte
<1>5. /\ e.base = limine_map[i].base /\ e.length = limine_map[i].length
      /\ e.signal = Signal(limine_map[i].type)
  OBVIOUS
<1>6. CASE \A j \in 2 .. i : limine_map[j].base < Megabyte
  <2>1. limine_map[i].base < Megabyte
    BY <1>6 DEF MapInv
  <2>2. CASE e.base + e.length < Megabyte
    <3>1. /\ memory_map'[i].base = e.base /\ memory_map'[i].length = 0
          /\ memory_map'[i].signal = "NOUSE"
      BY <1>4, <1>6, <2>2 DEF Above
    <3> QED
      BY <1>2, <1>5, <2>2, <3>1, MegabyteAssumption DEF PagesOf
  <2>3. CASE ~ (e.base + e.length < Megabyte)
    <3>1. /\ memory_map'[i].base = Megabyte
          /\ memory_map'[i].length = e.length - (Megabyte - e.base)
          /\ memory_map'[i].signal = e.signal
      BY <1>4, <1>6, <2>3 DEF Above
    <3>2. /\ memory_map'[i].length \in Nat /\ memory_map'[i].base \in Nat
          /\ PagesOf(memory_map'[i]) = {p \in PagesOf(limine_map[i]) : p >= Megabyte}
      BY <1>2, <1>5, <2>1, <2>3, <3>1, MegabyteAssumption DEF PagesOf
    <3> QED
      BY <1>5, <3>1, <3>2, SignalFree
  <2> QED
    BY <2>2, <2>3
<1>7. CASE ~ \A j \in 2 .. i : limine_map[j].base < Megabyte
  <2>1. PICK j \in 2 .. i : ~ (limine_map[j].base < Megabyte)
    BY <1>7
  <2>2. j \in DOMAIN limine_map /\ j \in Nat /\ i \in Nat
    BY DEF MapInv
  <2>3. limine_map[j].base <= limine_map[i].base
    <3>1. CASE j = i
      BY <1>2, <3>1
    <3>2. CASE j < i
      BY <1>1, <2>2, <3>2, BasesStaySorted
    <3> QED
      BY <2>2, <3>1, <3>2
  <2>4. limine_map[i].base >= Megabyte
    BY <1>2, <2>1, <2>2, <2>3, MegabyteAssumption
  <2>5. memory_map'[i] = e
    BY <1>4, <1>7
  <2>6. PagesOf(e) = {p \in PagesOf(limine_map[i]) : p >= Megabyte}
    BY <1>2, <1>5, <2>4, MegabyteAssumption DEF PagesOf
  <2> QED
    BY <1>2, <1>5, <2>5, <2>6, SignalFree
<1> QED
  BY <1>6, <1>7

\* Of the reported pages those that stay FREE when the first megabyte is withheld.
LEMMA Withheld ==
    ASSUME MapInv, WithholdMegabyte
    PROVE  FreeIsUsable'
<1>1. PICK t \in DOMAIN limine_map : TakenFrom(t)
  BY DEF MapInv, WithholdMegabyte
<1>2. /\ mapping' = "done" /\ candidate' = candidate /\ reported' = reported
      /\ MapPages' = MapPages /\ DOMAIN memory_map' = DOMAIN limine_map
      /\ DOMAIN limine_map = 1 .. Len(reported) /\ Len(reported) \in Nat
  BY DEF MapInv, WithholdMegabyte, MapPages
<1>3. /\ memory_map'[1].base = 0 /\ memory_map'[1].length = Megabyte
      /\ memory_map'[1].signal = "NOUSE"
  BY <1>2 DEF MapInv, WithholdMegabyte
<1>4. MapTypeOK'
  <2>1. candidate \in Nat
    BY DEF MapInv, FreeIsUsable, MapTypeOK
  <2>2. ASSUME NEW i \in DOMAIN memory_map'
        PROVE  /\ memory_map'[i].base \in Nat /\ memory_map'[i].length \in Nat
               /\ memory_map'[i].signal \in {"FREE", "BUSY", "MMIO", "NOUSE"}
    <3>1. CASE i = 1
      BY <1>3, <3>1, MegabyteAssumption
    <3>2. CASE i # 1
      BY <1>2, <3>2, PagesAbove
    <3> QED
      BY <3>1, <3>2
  <2> QED
    BY <1>2, <2>1, <2>2 DEF MapTypeOK
<1> DEFINE free == {j \in DOMAIN memory_map' : memory_map'[j].signal = "FREE"}
           usable == {j \in 2 .. Len(reported) : reported[j].type = "usable"
                                                 /\ reported[j].base \notin IommuBlock}
           taken == candidate .. candidate + MapPages - 1
<1>5. \A i \in free : i \in usable /\ \A p \in PagesOf(memory_map'[i]) :
            p \in PagesOf(reported[i]) /\ p >= Megabyte /\ p \notin taken
  <2> SUFFICES ASSUME NEW i \in free
               PROVE  i \in usable /\ \A p \in PagesOf(memory_map'[i]) :
                        p \in PagesOf(reported[i]) /\ p >= Megabyte /\ p \notin taken
    OBVIOUS
  <2>1. i # 1 /\ i \in DOMAIN limine_map
    BY <1>2, <1>3
  <2>2. limine_map[i].type = "usable"
        /\ PagesOf(memory_map'[i]) = {p \in PagesOf(limine_map[i]) : p >= Megabyte}
    BY <2>1, PagesAbove
  <2>3. i \in usable
    BY <1>1, <1>2, <2>1, <2>2, UsablePages
  <2>4. PagesOf(limine_map[i]) = PagesOf(reported[i]) \ taken
    BY <1>1, <2>1, <2>2, UsablePages
  <2> QED
    BY <2>2, <2>3, <2>4
<1>6. \A i \in usable : \A p \in PagesOf(reported[i]) :
            p >= Megabyte /\ p \notin taken => i \in free /\ p \in PagesOf(memory_map'[i])
  <2> SUFFICES ASSUME NEW i \in usable, NEW p \in PagesOf(reported[i]),
                      p >= Megabyte, p \notin taken
               PROVE  i \in free /\ p \in PagesOf(memory_map'[i])
    OBVIOUS
  <2>1. i # 1 /\ i \in DOMAIN limine_map
    BY <1>2
  <2>2. limine_map[i].type = "usable" /\ PagesOf(limine_map[i]) = PagesOf(reported[i]) \ taken
    BY <1>1, <2>1, UsablePages
  <2>3. (IF memory_map'[i].signal = "FREE" THEN PagesOf(memory_map'[i]) ELSE {})
            = {q \in PagesOf(limine_map[i]) : q >= Megabyte}
    BY <2>1, <2>2, PagesAbove
  <2>4. p \in IF memory_map'[i].signal = "FREE" THEN PagesOf(memory_map'[i]) ELSE {}
    BY <2>2, <2>3
  <2> QED
    BY <1>2, <2>1, <2>4
<1>7. UNION {PagesOf(memory_map'[i]) : i \in free}
        = {p \in UNION {PagesOf(reported[i]) : i \in usable} : p >= Megabyte /\ p \notin taken}
  <2> HIDE DEF free, usable, taken
  <2> QED
    BY <1>5, <1>6
<1> QED
  BY <1>2, <1>4, <1>7 DEF FreeIsUsable, PagesOf

\* The pages for the map are taken from a USABLE entry behind a BUSY one.
LEMMA RoomTaken ==
    ASSUME MapInv, NEW i \in DOMAIN limine_map, TakeRoom(i)
    PROVE  MapInv'
<1>1. /\ mapping = "search" /\ mapping' = "convert"
      /\ i + 1 \in DOMAIN limine_map
      /\ Signal(limine_map[i].type) = "BUSY" /\ limine_map[i + 1].type = "usable"
      /\ limine_map[i + 1].length > MapPages
      /\ candidate' = limine_map[i + 1].base
      /\ limine_map' = Taken(i)
      /\ UNCHANGED <<reported, memory_map>>
  BY DEF TakeRoom, HasRoom
<1>2. DOMAIN limine_map = 1 .. Len(reported) /\ Len(reported) \in Nat /\ i + 1 # i /\ i + 1 # 1
  BY DEF MapInv
<1>3. MapPages \in Nat
  BY MapPagesType DEF MapInv
<1>4. \A k \in DOMAIN limine_map : /\ limine_map[k] \in Entries
                                  /\ limine_map[k].base \in Nat /\ limine_map[k].length \in Nat
  BY EntryFields DEF MapInv
<1> DEFINE before == [limine_map[i] EXCEPT !.length = @ + MapPages]
           behind1 == [limine_map[i + 1] EXCEPT !.base = @ + MapPages, !.length = @ - MapPages]
<1>5. before \in Entries /\ before.base = limine_map[i].base /\ before.type = limine_map[i].type
  BY <1>3, <1>4 DEF Entries
<1>6. /\ behind1 \in Entries /\ behind1.type = "usable"
      /\ behind1.base = limine_map[i + 1].base + MapPages
      /\ behind1.length = limine_map[i + 1].length - MapPages
  <2>1. MapPages <= limine_map[i + 1].length /\ limine_map[i + 1] \in Entries
    BY <1>1, <1>3, <1>4
  <2>2. /\ behind1 \in Entries /\ behind1.type = limine_map[i + 1].type
        /\ behind1.base = limine_map[i + 1].base + MapPages
        /\ behind1.length = limine_map[i + 1].length - MapPages
    BY <1>3, <2>1, EntryChanged
  <2> QED
    BY <1>1, <2>2
<1>7. /\ limine_map' \in [DOMAIN limine_map -> Entries]
      /\ limine_map'[i] = before /\ limine_map'[i + 1] = behind1
      /\ \A k \in DOMAIN limine_map \ {i, i + 1} : limine_map'[k] = limine_map[k]
  BY <1>1, <1>2, <1>4, <1>5, <1>6 DEF Taken
<1>8. limine_map' \in Seq(Entries) /\ Len(limine_map') = Len(limine_map)
      /\ DOMAIN limine_map' = DOMAIN limine_map
  BY <1>7, EntriesFunction DEF MapInv
<1>9. MapPages' = MapPages
  BY <1>8 DEF MapPages
<1>10. TakenFrom(i + 1)'
  <2> HIDE DEF before, behind1
  <2>1. \A k \in DOMAIN limine_map :
            /\ limine_map[k].base = reported[k].base
            /\ limine_map[k].length = reported[k].length
            /\ limine_map[k].type =
                IF reported[k].base \in IommuBlock THEN "bad" ELSE reported[k].type
    BY <1>1 DEF MapInv
  <2>2. limine_map[i].type # "usable"
    BY <1>1, SignalFree
  <2>3. reported[i + 1].type = "usable" /\ reported[i + 1].base \notin IommuBlock
    BY <1>1, <2>1
  <2>4. \A k \in DOMAIN limine_map' \ {i + 1} :
            /\ limine_map'[k].base = reported[k].base
            /\ limine_map'[k].type =
                IF reported[k].base \in IommuBlock THEN "bad" ELSE reported[k].type
            /\ limine_map'[k].type = "usable" => limine_map'[k].length = reported[k].length
    <3>1. CASE TRUE
      <4> TAKE k \in DOMAIN limine_map' \ {i + 1}
      <4>1. CASE k = i
        BY <1>5, <1>7, <2>1, <2>2, <4>1
      <4>2. CASE k # i
        BY <1>7, <1>8, <2>1, <4>2
      <4> QED
        BY <4>1, <4>2
    <3> QED
      BY <3>1
  <2> QED
    BY <1>1, <1>2, <1>6, <1>7, <1>9, <2>1, <2>3, <2>4 DEF TakenFrom
<1>11. FreeIsUsable'
  BY <1>1, <1>4 DEF MapInv, FreeIsUsable, MapTypeOK
<1> QED
  BY <1>1, <1>8, <1>10, <1>11 DEF MapInv

\* Every step keeps the memory map's part.
LEMMA MapKept ==
    ASSUME MapInv, [Next]_vars
    PROVE  MapInv'
<1>1. CASE UNCHANGED memoryMap
  <2>1. UNCHANGED <<mapping, reported, limine_map, candidate, memory_map>>
    BY <1>1 DEF memoryMap
  <2>2. MapPages' = MapPages
    BY <2>1 DEF MapPages
  <2>3. FreeIsUsable'
    BY <2>1, <2>2 DEF MapInv, FreeIsUsable, MapTypeOK, PagesOf
  <2>4. \A t \in DOMAIN limine_map : TakenFrom(t) => TakenFrom(t)'
    BY <2>1, <2>2 DEF TakenFrom
  <2> QED
    BY <2>1, <2>3, <2>4 DEF MapInv
<1>2. CASE IgnoreIommu
  <2>1. /\ mapping = "ignore" /\ mapping' = "search" /\ limine_map = reported
        /\ UNCHANGED <<reported, candidate, memory_map>>
    BY <1>2 DEF IgnoreIommu, MapInv
  <2>2. \A k \in DOMAIN limine_map :
            /\ limine_map[k] \in Entries
            /\ [limine_map[k] EXCEPT !.type = "bad"] \in Entries
            /\ [limine_map[k] EXCEPT !.type = "bad"].base = limine_map[k].base
            /\ [limine_map[k] EXCEPT !.type = "bad"].length = limine_map[k].length
            /\ [limine_map[k] EXCEPT !.type = "bad"].type = "bad"
    <3> SUFFICES ASSUME NEW e \in Entries
                 PROVE  /\ [e EXCEPT !.type = "bad"] \in Entries
                        /\ [e EXCEPT !.type = "bad"].base = e.base
                        /\ [e EXCEPT !.type = "bad"].length = e.length
                        /\ [e EXCEPT !.type = "bad"].type = "bad"
      BY EntryFields DEF MapInv
    <3>1. 0 <= e.length
      BY DEF Entries
    <3> QED
      BY <3>1, EntryChanged
  <2>3. \A k \in DOMAIN limine_map :
            /\ limine_map'[k] \in Entries
            /\ limine_map'[k].base = reported[k].base
            /\ limine_map'[k].length = reported[k].length
            /\ limine_map'[k].type =
                IF reported[k].base \in IommuBlock THEN "bad" ELSE reported[k].type
    BY <1>2, <2>1, <2>2 DEF IgnoreIommu
  <2>4. limine_map' \in [DOMAIN limine_map -> Entries]
    BY <1>2, <2>3 DEF IgnoreIommu
  <2>5. limine_map' \in Seq(Entries) /\ Len(limine_map') = Len(limine_map)
        /\ DOMAIN limine_map' = DOMAIN limine_map
    BY <2>4, EntriesFunction DEF MapInv
  <2>6. FreeIsUsable'
    BY <2>1 DEF MapInv, FreeIsUsable, MapTypeOK
  <2> QED
    BY <2>1, <2>3, <2>5, <2>6 DEF MapInv
<1>3. CASE RunsPast
  <2>1. /\ mapping' \in {"faulted", "wild", "halted"} /\ mapping = "search"
        /\ UNCHANGED <<reported, limine_map, candidate, memory_map>>
    BY <1>3 DEF RunsPast
  <2> QED
    BY <2>1 DEF MapInv, FreeIsUsable, MapTypeOK
<1>4. CASE Convert
  <2>1. /\ mapping = "convert" /\ mapping' = "low"
        /\ UNCHANGED <<reported, limine_map, candidate>>
        /\ memory_map' =
            [i \in DOMAIN limine_map |->
                [base |-> limine_map[i].base, length |-> limine_map[i].length,
                 signal |-> Signal(limine_map[i].type)]]
    BY <1>4 DEF Convert
  <2>2. \A k \in DOMAIN limine_map : limine_map[k].base \in Nat /\ limine_map[k].length \in Nat
    BY EntryFields DEF MapInv
  <2>3. FreeIsUsable'
    BY <2>1, <2>2, SignalFree DEF MapInv, FreeIsUsable, MapTypeOK
  <2>4. MapPages' = MapPages
    BY <2>1 DEF MapPages
  <2>5. \A t \in DOMAIN limine_map : TakenFrom(t) => TakenFrom(t)'
    BY <2>1, <2>4 DEF TakenFrom
  <2> QED
    BY <2>1, <2>3, <2>5 DEF MapInv
<1>5. CASE WithholdMegabyte
  <2>1. /\ mapping' = "done" /\ UNCHANGED <<reported, limine_map, candidate>>
    BY <1>5 DEF WithholdMegabyte
  <2> QED
    BY <1>5, <2>1, Withheld DEF MapInv
<1>6. CASE \E i \in DOMAIN limine_map : TakeRoom(i)
  BY <1>6, RoomTaken
<1>7. [Next]_vars => MapStep \/ UNCHANGED memoryMap
  BY DEF Next, BootStep, ReadMap, StartClocks, LoadProgram, Tick, Handle, vars
<1> QED
  BY <1>1, <1>2, <1>3, <1>4, <1>5, <1>6, <1>7 DEF MapStep

\* The pages that limine_reinterpret (limine.c) leaves FREE are the USABLE ones from
\* the first megabyte on, without those of the IOMMU, the first entry, the map and
\* the modules.
THEOREM FreePagesUsable == Spec => []FreeIsUsable
<1>1. Init => MapInv
  BY MapStart
<1>2. MapInv /\ [Next]_vars => MapInv'
  BY MapKept
<1>3. MapInv => FreeIsUsable
  BY DEF MapInv
<1> QED
  BY <1>1, <1>2, <1>3, PTL DEF Spec

----------------------------------------------------------------------------
(* The loader *)

\* A segment's place in the list is the place of a header's segment in memory.
SegmentOf(n, i) == LET h == file.headers[i] IN
    /\ segments[n].loaded_at = h.vaddr
    /\ segments[n].length = Required(h.vaddr, h.memsz) * PageSize

\* The bytes of a header's segment are where the list has them.
Holds(n, i) == LET h == file.headers[i] IN
    \A k \in 0 .. h.memsz - 1 :
        memory[segments[n].located_at + (h.vaddr % PageSize) + k]
            = IF k < h.filesz THEN <<i, k>> ELSE Zero

Segments == [loaded_at : Nat, located_at : Nat, length : Nat]

\* Below it pmm has given the loader its pages when it comes to a header.
Limit(n, room) == Pool + PageSize + (n - 1) * room

\* Whatever the program: a segment has whole pages that pmm has given, and at each
\* header there is room for those that are left.
RoomInv ==
    /\ file \in [magic : Int, native : BOOLEAN, headers : Seq(Headers)]
    /\ \E room \in 0 .. Top :
        /\ Fits(file, room)
        /\ loading \in {"headers", "segment", "mapped"} =>
            pool <= Limit(header, room)
    /\ loading \in {"check", "refused"} => pool = Pool /\ header = 1
    /\ pool \in Nat /\ pool >= Pool /\ pool % PageSize = 0
    /\ rest \in [vaddr : Nat, skip : Nat, filesz : Nat, memsz : Nat]
    /\ loading = "segment" =>
        header \in Loaded /\ rest.memsz <= file.headers[header].memsz
    /\ segments \in Seq(Segments)
    /\ \A n \in DOMAIN segments :
        /\ segments[n].located_at % PageSize = 0 /\ segments[n].length % PageSize = 0
        /\ Pool <= segments[n].located_at
        /\ segments[n].located_at + segments[n].length <= pool
    /\ DOMAIN memory = 0 .. Top
    /\ LoaderTypeOK

\* If the segments lie apart: those of the headers that have been loaded are in the
\* list, each once and nothing else, and hold what they should.
ApartInv ==
    LET done == {i \in Loaded : i < header} IN
    /\ loading = "segment" => LET h == file.headers[header] IN
        rest = [vaddr |-> h.vaddr, skip |-> 0, filesz |-> h.filesz, memsz |-> h.memsz]
    /\ \A i \in done : \E n \in DOMAIN segments : SegmentOf(n, i) /\ Holds(n, i)
    /\ \A n \in DOMAIN segments : \E i \in done : SegmentOf(n, i)
    /\ \A m, n \in DOMAIN segments :
        m # n => segments[m].loaded_at # segments[n].loaded_at
    /\ \A a \in 0 .. Pool - 1 : memory[a] = Untouched

LoaderInv ==
    /\ RoomInv
    /\ SpansApart => ApartInv
    /\ loading # "mapped" => table = << >>
    /\ ImageLoaded

(* Pages *)

\* An address is its page's and its place there.
LEMMA Division ==
    ASSUME NEW x \in Nat
    PROVE  /\ x \div PageSize \in Nat
           /\ x % PageSize \in Nat /\ x % PageSize < PageSize
           /\ x = (x \div PageSize) * PageSize + (x % PageSize)
<1> USE LoaderAssumption
<1>1. x \div PageSize \in Nat
  OBVIOUS
<1>2. x % PageSize \in 0 .. PageSize - 1
  OBVIOUS
<1>3. x = (x \div PageSize) * PageSize + (x % PageSize)
  OBVIOUS
<1> QED
  BY <1>1, <1>2, <1>3

\* The number of a page is the only one whose page an address is in.
LEMMA Quotient ==
    ASSUME NEW x \in Nat, NEW q \in Nat, q * PageSize <= x, x < q * PageSize + PageSize
    PROVE  x \div PageSize = q /\ x % PageSize = x - q * PageSize
<1>1. x \div PageSize = q
  BY LoaderAssumption
<1> QED
  BY <1>1, Division, LoaderAssumption

\* Numbers of pages, in bytes.
LEMMA Multiples ==
    ASSUME NEW a \in Nat, NEW b \in Nat
    PROVE  /\ a * PageSize \in Nat
           /\ (a + b) * PageSize = a * PageSize + b * PageSize
           /\ a <= b => a * PageSize <= b * PageSize
           /\ a < b => a * PageSize + PageSize <= b * PageSize
<1> USE LoaderAssumption
<1>1. a * PageSize \in Nat
  OBVIOUS
<1>2. (a + b) * PageSize = a * PageSize + b * PageSize
  OBVIOUS
<1>3. a <= b => a * PageSize <= b * PageSize
  OBVIOUS
<1>4. a < b => a * PageSize + PageSize <= b * PageSize
  OBVIOUS
<1> QED
  BY <1>1, <1>2, <1>3, <1>4

\* A number of whole pages.
LEMMA WholePages ==
    ASSUME NEW q \in Nat
    PROVE  (q * PageSize) % PageSize = 0 /\ (q * PageSize) \div PageSize = q
<1>1. q * PageSize \in Nat /\ q * PageSize < q * PageSize + PageSize
  BY Multiples, LoaderAssumption
<1> QED
  BY <1>1, Quotient

\* Whole pages and whole pages are whole pages.
LEMMA WholeSum ==
    ASSUME NEW x \in Nat, NEW y \in Nat, x % PageSize = 0, y % PageSize = 0
    PROVE  (x + y) % PageSize = 0
<1>1. x = (x \div PageSize) * PageSize /\ y = (y \div PageSize) * PageSize
      /\ x \div PageSize \in Nat /\ y \div PageSize \in Nat
  <2>1. \A z \in Nat : z % PageSize = 0 =>
            z \div PageSize \in Nat /\ z = (z \div PageSize) * PageSize
    <3> SUFFICES ASSUME NEW z \in Nat, z % PageSize = 0
                 PROVE  z \div PageSize \in Nat /\ z = (z \div PageSize) * PageSize
      OBVIOUS
    <3>1. z \div PageSize \in Nat /\ z = (z \div PageSize) * PageSize + 0
      BY Division
    <3>2. (z \div PageSize) * PageSize \in Nat
      BY <3>1, Multiples
    <3> QED
      BY <3>1, <3>2
  <2> QED
    BY <2>1
<1>2. x + y = ((x \div PageSize) + (y \div PageSize)) * PageSize
  BY <1>1, Multiples
<1>3. (x \div PageSize) + (y \div PageSize) \in Nat
  BY <1>1
<1> QED
  BY <1>2, <1>3, WholePages

\* A later address is in no earlier page.
LEMMA QuotientOrder ==
    ASSUME NEW x \in Nat, NEW y \in Nat, x <= y
    PROVE  x \div PageSize <= y \div PageSize
<1> DEFINE a == x \div PageSize
           b == y \div PageSize
<1>1. /\ a \in Nat /\ b \in Nat
      /\ a * PageSize <= x /\ y < b * PageSize + PageSize
  <2>1. /\ a \in Nat /\ x = a * PageSize + (x % PageSize)
        /\ x % PageSize \in Nat
    BY Division
  <2>2. /\ b \in Nat /\ y = b * PageSize + (y % PageSize)
        /\ y % PageSize \in Nat /\ y % PageSize < PageSize
    BY Division
  <2>3. a * PageSize \in Nat /\ b * PageSize \in Nat /\ PageSize \in Nat
    BY <2>1, <2>2, Multiples, LoaderAssumption
  <2> HIDE DEF a, b
  <2> QED
    BY <2>1, <2>2, <2>3
<1> HIDE DEF a, b
<1>2. ~ (b < a)
  <2>1. b < a => b * PageSize + PageSize <= a * PageSize
    BY <1>1, Multiples
  <2>2. a * PageSize \in Nat /\ b * PageSize \in Nat /\ PageSize \in Nat
    BY <1>1, Multiples, LoaderAssumption
  <2> QED
    BY <1>1, <2>1, <2>2
<1>3. a <= b
  BY <1>1, <1>2
<1> QED
  BY <1>3 DEF a, b

\* A number of pages, and their bytes.
LEMMA PagesType ==
    ASSUME NEW m \in Nat
    PROVE  Pages(m) \in Nat /\ (Pages(m) + 1) * PageSize \in Nat
<1>1. m + PageSize - 1 \in Nat
  BY LoaderAssumption
<1>2. Pages(m) \in Nat
  BY <1>1, Division DEF Pages
<1>3. Pages(m) + 1 \in Nat /\ 0 \in Nat
  BY <1>2
<1> QED
  BY <1>2, <1>3, Multiples

\* The pages of a segment have room for it, wherever it begins in the first.
LEMMA RequiredProperties ==
    ASSUME NEW v \in Nat, NEW m \in Nat
    PROVE  /\ Pages(m) \in Nat /\ Required(v, m) \in Nat
           /\ m > 0 => Required(v, m) > 0
           /\ (v % PageSize) + m <= Required(v, m) * PageSize
           /\ Required(v, m) * PageSize <= (Pages(m) + 1) * PageSize
<1> USE LoaderAssumption
<1> DEFINE p == Pages(m)
           s == v % PageSize
<1>1. s \in Nat /\ s < PageSize
  BY Division
<1>2. m + PageSize - 1 \in Nat
  OBVIOUS
<1>3. p \in Nat /\ m + PageSize - 1 < p * PageSize + PageSize
  <2>1. /\ (m + PageSize - 1) \div PageSize \in Nat
        /\ (m + PageSize - 1) % PageSize < PageSize
        /\ (m + PageSize - 1) % PageSize \in Nat
        /\ m + PageSize - 1 = ((m + PageSize - 1) \div PageSize) * PageSize
                                + ((m + PageSize - 1) % PageSize)
    BY <1>2, Division
  <2>2. ((m + PageSize - 1) \div PageSize) * PageSize \in Nat
    BY <2>1, Multiples
  <2> QED
    BY <2>1, <2>2 DEF Pages
<1>4. Required(v, m) = IF s = 0 THEN p ELSE p + 1
  <2>1. Required(v, m) = p + IF s = 0 THEN 0 ELSE 1
    BY DEF Required
  <2> QED
    BY <1>3, <2>1
<1> HIDE DEF p, s
<1>5. /\ p * PageSize \in Nat /\ (p + 1) * PageSize = p * PageSize + PageSize
  BY <1>3, Multiples
<1>6. m <= p * PageSize
  BY <1>3, <1>5
<1>7. m > 0 => p > 0
  <2>1. CASE p = 0
    BY <1>6, <2>1
  <2> QED
    BY <1>3, <2>1
<1>8. s + m <= Required(v, m) * PageSize /\ Required(v, m) * PageSize <= (p + 1) * PageSize
  <2>1. CASE s = 0
    BY <1>1, <1>4, <1>5, <1>6, <2>1
  <2>2. CASE s # 0
    BY <1>1, <1>4, <1>5, <1>6, <2>2
  <2> QED
    BY <2>1, <2>2
<1>9. Required(v, m) \in Nat /\ (m > 0 => Required(v, m) > 0)
  BY <1>3, <1>4, <1>7
<1> QED
  BY <1>3, <1>8, <1>9 DEF p, s

\* A longer segment has no fewer pages.
LEMMA PagesOrder ==
    ASSUME NEW a \in Nat, NEW b \in Nat, a <= b
    PROVE  (Pages(a) + 1) * PageSize <= (Pages(b) + 1) * PageSize
<1>1. /\ a + PageSize - 1 \in Nat /\ b + PageSize - 1 \in Nat
      /\ a + PageSize - 1 <= b + PageSize - 1
  BY LoaderAssumption
<1>2. Pages(a) <= Pages(b)
  BY <1>1, QuotientOrder DEF Pages
<1>3. Pages(a) \in Nat /\ Pages(b) \in Nat
  BY <1>1, Division DEF Pages
<1>4. Pages(a) + 1 \in Nat /\ Pages(b) + 1 \in Nat /\ Pages(a) + 1 <= Pages(b) + 1
  BY <1>2, <1>3
<1> QED
  BY <1>4, Multiples

\* The pages that a segment's bytes are in are among those taken for it, which begin
\* with its first byte's.
LEMMA SpanPages ==
    ASSUME NEW v \in Nat, NEW m \in Nat, m > 0
    PROVE  /\ \A k \in 0 .. m - 1 :
                ((v + k) \div PageSize) - (v \div PageSize) \in 0 .. Required(v, m) - 1
           /\ \A d \in 0 .. Required(v, m) - 1 :
                /\ (v \div PageSize) + d >= v \div PageSize
                /\ (v \div PageSize) + d <= (v + Required(v, m) * PageSize - 1) \div PageSize
           /\ \A k \in 0 .. Required(v, m) * PageSize - 1 :
                /\ (v + k) \div PageSize >= v \div PageSize
                /\ (v + k) \div PageSize <= (v + Required(v, m) * PageSize - 1) \div PageSize
<1> DEFINE r == Required(v, m)
           q == v \div PageSize
           s == v % PageSize
<1>1. /\ r \in Nat /\ r > 0 /\ s + m <= r * PageSize
  BY RequiredProperties
<1>2. /\ q \in Nat /\ s \in Nat /\ s < PageSize /\ v = q * PageSize + s
  BY Division
<1>3. PageSize \in Nat \ {0} /\ r * PageSize \in Nat /\ q * PageSize \in Nat
  BY <1>1, <1>2, Multiples, LoaderAssumption
<1>4. r * PageSize >= PageSize
  <2>1. 0 * PageSize + PageSize <= r * PageSize
    BY <1>1, Multiples
  <2> QED
    BY <1>3, <2>1
<1> HIDE DEF r, q, s
<1>5. ASSUME NEW k \in 0 .. m - 1
      PROVE  ((v + k) \div PageSize) - q \in 0 .. r - 1
  <2> DEFINE p == (v + k) \div PageSize
  <2>1. /\ p \in Nat /\ (v + k) % PageSize \in Nat
        /\ v + k = p * PageSize + ((v + k) % PageSize)
    BY Division
  <2>2. q <= p
    BY QuotientOrder DEF q
  <2>3. p * PageSize <= v + k
    <3>1. p * PageSize \in Nat
      BY <2>1, Multiples
    <3> HIDE DEF p
    <3> QED
      BY <2>1, <3>1
  <2>4. (q + r) * PageSize = q * PageSize + r * PageSize
    BY <1>1, <1>2, Multiples
  <2> HIDE DEF p
  <2>5. v + k < (q + r) * PageSize
    BY <1>1, <1>2, <1>3, <2>4
  <2>6. ~ (q + r <= p)
    <3>0. q + r \in Nat /\ p \in Nat
      BY <1>1, <1>2, <2>1
    <3>1. q + r <= p => (q + r) * PageSize <= p * PageSize
      BY <3>0, Multiples
    <3>2. p * PageSize \in Nat /\ (q + r) * PageSize \in Nat
      BY <3>0, Multiples
    <3> QED
      BY <2>3, <2>5, <3>1, <3>2
  <2>7. p - q \in 0 .. r - 1
    BY <1>1, <1>2, <2>1, <2>2, <2>6
  <2> QED
    BY <2>7 DEF p
<1>6. ASSUME NEW k \in 0 .. r * PageSize - 1
      PROVE  /\ (v + k) \div PageSize >= q
             /\ (v + k) \div PageSize <= (v + r * PageSize - 1) \div PageSize
  <2>1. /\ v \in Nat /\ v + k \in Nat /\ v + r * PageSize - 1 \in Nat
        /\ v <= v + k /\ v + k <= v + r * PageSize - 1
    BY <1>3, <1>4
  <2>2. q <= (v + k) \div PageSize
    BY <2>1, QuotientOrder DEF q
  <2>3. (v + k) \div PageSize <= (v + r * PageSize - 1) \div PageSize
    BY <2>1, QuotientOrder
  <2>4. (v + k) \div PageSize \in Nat
    BY <2>1, Division
  <2> QED
    BY <1>2, <2>2, <2>3, <2>4
<1>7. ASSUME NEW d \in 0 .. r - 1
      PROVE  q + d >= q /\ q + d <= (v + r * PageSize - 1) \div PageSize
  <2>0. d \in Nat /\ d < r
    BY <1>1
  <2>1. /\ d \in Nat /\ d * PageSize \in Nat /\ d * PageSize + PageSize <= r * PageSize
        /\ (q + d) * PageSize = q * PageSize + d * PageSize
    BY <1>1, <1>2, <2>0, Multiples
  <2>2. d * PageSize \in 0 .. r * PageSize - 1
    BY <1>3, <2>1
  <2>3. (v + d * PageSize) \div PageSize = q + d
    <3>1. /\ (q + d) * PageSize <= v + d * PageSize
          /\ v + d * PageSize < (q + d) * PageSize + PageSize
      BY <1>2, <1>3, <2>1
    <3>2. q + d \in Nat /\ v + d * PageSize \in Nat
      BY <1>2, <2>1
    <3> QED
      BY <3>1, <3>2, Quotient
  <2> QED
    BY <1>2, <1>6, <2>2, <2>3
<1> QED
  BY <1>5, <1>6, <1>7 DEF r, q, s

(* The steps of the loader *)

\* What is left for the headers from one on.
LEMMA Rooms ==
    ASSUME NEW room \in Nat, NEW n \in Nat, NEW m \in Nat, m <= n
    PROVE  /\ n * room \in Nat /\ m * room <= n * room
           /\ (m + 1) * room = m * room + room
<1>1. n * room \in Nat
  OBVIOUS
<1>2. m * room <= n * room
  OBVIOUS
<1>3. (m + 1) * room = m * room + room
  OBVIOUS
<1> QED
  BY <1>1, <1>2, <1>3

\* Of a program header.
LEMMA HeaderFields ==
    ASSUME RoomInv, NEW i \in DOMAIN file.headers
    PROVE  LET h == file.headers[i] IN
           /\ h.vaddr \in Nat /\ h.filesz \in Nat /\ h.memsz \in Nat /\ h.filesz <= h.memsz
<1>1. file.headers \in Seq(Headers)
  BY DEF RoomInv
<1>2. file.headers[i] \in Headers
  BY <1>1
<1> QED
  BY <1>2 DEF Headers

\* The headers are numbered from one.
LEMMA HeadersType ==
    ASSUME RoomInv
    PROVE  /\ Len(file.headers) \in Nat
           /\ DOMAIN file.headers = 1 .. Len(file.headers)
           /\ header \in 1 .. Len(file.headers) + 1
BY DEF RoomInv, LoaderTypeOK

\* A place in the table is a page of the segment that covers it.
LEMMA TableEntry ==
    ASSUME RoomInv, NEW page \in Nat, NEW n \in Covering(page)
    PROVE  LET s == segments[n]
               f == (s.located_at \div PageSize) + page - (s.loaded_at \div PageSize) IN
           /\ f \in Nat
           /\ f * PageSize + (s.loaded_at \div PageSize) * PageSize
                = s.located_at + page * PageSize
           /\ s.located_at <= f * PageSize /\ f * PageSize + PageSize <= s.located_at + s.length
<1> DEFINE s == segments[n]
           a == s.located_at \div PageSize
           b == s.loaded_at \div PageSize
           r == s.length \div PageSize
           d == page - b
<1>1. n \in DOMAIN segments /\ page - b \in 0 .. r - 1
  BY DEF Covering
<1>2. /\ s \in Segments
      /\ s.located_at % PageSize = 0 /\ s.length % PageSize = 0
  BY <1>1 DEF RoomInv
<1>3. s.located_at \in Nat /\ s.length \in Nat /\ s.loaded_at \in Nat
  BY <1>2 DEF Segments
<1>4. a \in Nat /\ b \in Nat /\ r \in Nat
  BY <1>3, Division
<1>5. /\ s.located_at = a * PageSize + 0 /\ s.length = r * PageSize + 0
  BY <1>2, <1>3, Division
<1> HIDE DEF s, a, b, r
<1>6. d \in Nat /\ d < r /\ page = b + d /\ a + d \in Nat
  BY <1>1, <1>4
<1>7. a + page - b = a + d
  BY <1>4
<1> HIDE DEF d
<1>8. /\ page * PageSize = b * PageSize + d * PageSize
      /\ (a + d) * PageSize = a * PageSize + d * PageSize
      /\ d * PageSize + PageSize <= r * PageSize
      /\ a * PageSize \in Nat /\ b * PageSize \in Nat /\ d * PageSize \in Nat /\ r * PageSize \in Nat
  BY <1>4, <1>6, Multiples
<1>9. /\ (a + d) * PageSize + b * PageSize = s.located_at + page * PageSize
      /\ s.located_at <= (a + d) * PageSize
      /\ (a + d) * PageSize + PageSize <= s.located_at + s.length
  BY <1>5, <1>8, LoaderAssumption
<1> QED
  BY <1>6, <1>7, <1>9 DEF s, a, b

\* pmm has given a first page and is still below the bound.
LEMMA RoomStart == Init => LoaderInv
<1> SUFFICES ASSUME Init PROVE LoaderInv
  OBVIOUS
<1> USE LoaderAssumption
<1>1. /\ LoaderInit(file)
      /\ file \in [magic : Int, native : BOOLEAN, headers : Seq(Headers)]
      /\ \E room \in 0 .. Top : Fits(file, room)
  BY MachinesAssumption DEF Init, LoaderInit
<1>2. Len(file.headers) \in Nat /\ file.headers \in Seq(Headers)
  BY <1>1
<1>3. Pool <= Top
  <2>1. PICK room \in 0 .. Top : Fits(file, room)
    BY <1>1
  <2>2. Len(file.headers) * room \in Nat
    BY <1>2, Rooms
  <2>3. Pool + PageSize + Len(file.headers) * room <= Top
    BY <2>1 DEF Fits
  <2> DEFINE x == Len(file.headers) * room
  <2>4. x \in Nat /\ Pool + PageSize + x <= Top
    BY <2>2, <2>3
  <2> HIDE DEF x
  <2> QED
    BY <2>4
<1>4. LoaderTypeOK
  BY <1>1, <1>2, <1>3 DEF LoaderInit, LoaderTypeOK, NoRest
<1>5. RoomInv
  <2>1. /\ loading = "check" /\ pool = Pool /\ header = 1 /\ segments = << >>
        /\ DOMAIN memory = 0 .. Top
        /\ rest = [vaddr |-> 0, skip |-> 0, filesz |-> 0, memsz |-> 0]
    BY <1>1 DEF LoaderInit, NoRest
  <2> QED
    BY <1>1, <1>4, <2>1 DEF RoomInv
<1>6. ApartInv
  <2>1. /\ loading = "check" /\ header = 1 /\ DOMAIN segments = {}
        /\ memory = [a \in 0 .. Top |-> Untouched]
    BY <1>1 DEF LoaderInit
  <2>2. {i \in Loaded : i < header} = {}
    BY <1>2, <2>1 DEF Loaded
  <2>3. \A a \in 0 .. Pool - 1 : memory[a] = Untouched
    BY <1>3, <2>1
  <2> QED
    BY <2>1, <2>2, <2>3 DEF ApartInv
<1> QED
  BY <1>1, <1>4, <1>5, <1>6 DEF LoaderInit, LoaderInv, ImageLoaded

\* There is room for the segment under way, and for those behind it.
LEMMA RoomLeft ==
    ASSUME RoomInv, loading \in {"headers", "segment"}, header \in DOMAIN file.headers,
           NEW new \in Nat, new <= (Pages(file.headers[header].memsz) + 1) * PageSize
    PROVE  /\ \E room \in 0 .. Top :
                Fits(file, room) /\ pool + new <= Limit(header + 1, room)
           /\ pool + new <= Top
<1> USE LoaderAssumption
<1>1. PICK room \in 0 .. Top :
        Fits(file, room) /\ pool <= Limit(header, room)
  BY DEF RoomInv
<1>2. /\ Len(file.headers) \in Nat /\ header \in Nat /\ header >= 1
      /\ header <= Len(file.headers)
  BY HeadersType
<1>3. new <= room /\ Pool + PageSize + Len(file.headers) * room <= Top /\ room \in Nat
  <2>1. /\ (Pages(file.headers[header].memsz) + 1) * PageSize <= room
        /\ Pool + PageSize + Len(file.headers) * room <= Top
    BY <1>1 DEF Fits
  <2>2. (Pages(file.headers[header].memsz) + 1) * PageSize \in Nat
    <3>1. file.headers[header].memsz \in Nat
      BY HeaderFields
    <3> QED
      BY <3>1, PagesType
  <2> DEFINE x == (Pages(file.headers[header].memsz) + 1) * PageSize
  <2>3. new <= x /\ x \in Nat /\ x <= room
    BY <2>1, <2>2
  <2> HIDE DEF x
  <2>4. new <= room
    BY <2>3
  <2>5. room \in Nat
    OBVIOUS
  <2> QED
    BY <2>1, <2>4, <2>5
<1> DEFINE m == header - 1
<1>4. m \in Nat /\ m + 1 = header /\ m + 1 <= Len(file.headers) /\ m + 1 \in Nat
  BY <1>2
<1>5. /\ header * room = m * room + room
      /\ m * room \in Nat /\ header * room \in Nat
      /\ Len(file.headers) * room \in Nat
      /\ header * room <= Len(file.headers) * room
  <2> HIDE DEF m
  <2>1. PICK n \in Nat, h \in Nat : n = Len(file.headers) /\ h = header
    BY <1>2
  <2>2. /\ h <= h /\ h <= n /\ m <= m /\ h = m + 1
        /\ room \in Nat /\ m \in Nat
    BY <1>2, <1>3, <1>4, <2>1
  <2>3. n * room \in Nat /\ h * room <= n * room
    BY <2>2, Rooms
  <2>4. h * room \in Nat
    BY <2>2, Rooms
  <2>5. m * room \in Nat /\ (m + 1) * room = m * room + room
    BY <2>2, Rooms
  <2>6. h * room = m * room + room
    BY <2>2, <2>5
  <2>7. QED BY <2>1, <2>3, <2>4, <2>5, <2>6
<1>6. pool \in Nat
  BY DEF RoomInv
<1> DEFINE x == m * room
           y == header * room
           z == Len(file.headers) * room
<1>7. /\ y = x + room /\ x \in Nat /\ y \in Nat /\ z \in Nat /\ y <= z
      /\ pool <= Pool + PageSize + x /\ Pool + PageSize + z <= Top
  BY <1>1, <1>3, <1>5 DEF Limit
<1> HIDE DEF x, y, z, m
<1>8. pool + new <= Pool + PageSize + y /\ pool + new <= Top
  BY <1>3, <1>6, <1>7
<1>9. (header + 1) - 1 = header
  BY <1>2
<1>10. Limit(header + 1, room) = Pool + PageSize + y
  <2> DEFINE k == header + 1
  <2>1. k - 1 = header
    BY <1>9
  <2> HIDE DEF k
  <2>2. Limit(k, room) = Pool + PageSize + y
    BY <2>1 DEF Limit, y
  <2> QED
    BY <2>2 DEF k
<1> QED
  BY <1>1, <1>8, <1>10

\* With the program as it was, the segments to load are too.
LEMMA SameProgram ==
    ASSUME file' = file
    PROVE  Loaded' = Loaded /\ SpansApart' = SpansApart
BY DEF Loaded, SpansApart

\* The header is looked at.
LEMMA RoomChecked ==
    ASSUME LoaderInv, CheckHeader
    PROVE  RoomInv'
<1> USE LoaderAssumption
<1>1. /\ loading = "check" /\ pool = Pool /\ header = 1 /\ table = << >>
      /\ UNCHANGED <<file, header, rest, segments, memory, table>>
      /\ loading' \in {"refused", "headers"}
      /\ pool' = IF loading' = "headers" THEN pool + PageSize ELSE pool
  BY DEF LoaderInv, RoomInv, CheckHeader
<1>2. PICK room \in 0 .. Top : Fits(file, room)
  BY DEF LoaderInv, RoomInv
<1>3. room \in Nat /\ Len(file.headers) \in Nat
      /\ Pool + PageSize + Len(file.headers) * room <= Top
  BY <1>2, HeadersType DEF LoaderInv, Fits
<1> DEFINE x == Len(file.headers) * room
           y == (header - 1) * room
<1>4. x \in Nat /\ y = 0
  <2>1. header - 1 = 0 /\ 0 \in Nat
    BY <1>1
  <2>2. 0 * room = 0
    BY <1>3
  <2> QED
    BY <1>3, <2>1, <2>2, Rooms
<1>5. Pool + PageSize + x <= Top
  BY <1>3
<1>6. Fits(file, room)' /\ y' = y
  BY <1>1, <1>2 DEF Fits
<1> HIDE DEF x
<1>7. pool' \in Pool .. Top /\ pool' <= Limit(header', room)
  <2>1. Limit(header', room) = Pool + PageSize + y'
    BY DEF Limit
  <2> HIDE DEF y
  <2> QED
    BY <1>1, <1>4, <1>5, <1>6, <2>1
<1>8. pool' % PageSize = 0
  <2>1. PageSize % PageSize = 0 /\ PageSize \in Nat
    <3>1. 1 \in Nat /\ 1 * PageSize = PageSize
      OBVIOUS
    <3> QED
      BY <3>1, WholePages
  <2>2. (Pool + PageSize) % PageSize = 0
    BY <2>1, WholeSum
  <2> QED
    BY <1>1, <2>2
<1>9. LoaderTypeOK'
  BY <1>1, <1>7 DEF LoaderInv, RoomInv, LoaderTypeOK
<1>10. \A n \in DOMAIN segments' :
        /\ segments'[n].located_at % PageSize = 0 /\ segments'[n].length % PageSize = 0
        /\ Pool <= segments'[n].located_at
        /\ segments'[n].located_at + segments'[n].length <= pool'
  <2>1. pool <= pool'
    BY <1>1
  <2>2. \A n \in DOMAIN segments : segments[n].located_at + segments[n].length \in Nat
    <3> SUFFICES ASSUME NEW n \in DOMAIN segments
                 PROVE  segments[n].located_at + segments[n].length \in Nat
      OBVIOUS
    <3>1. segments[n] \in Segments
      BY DEF LoaderInv, RoomInv
    <3> QED
      BY <3>1 DEF Segments
  <2> QED
    BY <1>1, <1>7, <2>1, <2>2 DEF LoaderInv, RoomInv
<1> QED
  BY <1>1, <1>2, <1>6, <1>7, <1>8, <1>9, <1>10 DEF LoaderInv, RoomInv

\* Going on to the next header takes no memory.
LEMMA GoneOn ==
    ASSUME RoomInv, loading \in {"headers", "segment"}, header \in DOMAIN file.headers
    PROVE  \E room \in 0 .. Top :
                Fits(file, room) /\ pool <= Limit(header + 1, room)
<1>1. file.headers[header].memsz \in Nat
  BY HeaderFields
<1>2. (Pages(file.headers[header].memsz) + 1) * PageSize \in Nat
  BY <1>1, PagesType
<1> DEFINE x == (Pages(file.headers[header].memsz) + 1) * PageSize
<1>3. 0 \in Nat /\ 0 <= x
  <2>1. x \in Nat
    BY <1>2
  <2> HIDE DEF x
  <2> QED
    BY <2>1
<1>4. pool + 0 = pool
  BY DEF RoomInv
<1> QED
  BY <1>3, <1>4, RoomLeft

\* A header is left behind that has nothing to load.
LEMMA RoomSkipped ==
    ASSUME LoaderInv, SkipHeader
    PROVE  RoomInv'
<1>1. /\ RoomInv /\ loading = "headers" /\ header \in DOMAIN file.headers
      /\ header' = header + 1 /\ table = << >>
      /\ UNCHANGED <<loading, file, rest, segments, memory, pool, table>>
  BY DEF LoaderInv, SkipHeader
<1>2. \E room \in 0 .. Top :
        Fits(file, room) /\ pool <= Limit(header + 1, room)
  BY <1>1, GoneOn
<1>3. \E room \in 0 .. Top :
        Fits(file, room)' /\ pool' <= Limit(header', room)
  <2>1. \A room : Fits(file, room) => Fits(file, room)'
    BY <1>1 DEF Fits
  <2>2. PICK room \in 0 .. Top :
            Fits(file, room) /\ pool <= Limit(header + 1, room)
    BY <1>2
  <2>3. pool' <= Limit(header', room)
    BY <1>1, <2>2
  <2> QED
    BY <2>1, <2>2, <2>3
<1>4. header' \in 1 .. Len(file'.headers) + 1
  <2>1. Len(file.headers) \in Nat /\ header \in 1 .. Len(file.headers)
    BY <1>1, HeadersType
  <2>2. header + 1 \in 1 .. Len(file.headers) + 1
    BY <2>1
  <2> QED
    BY <1>1, <2>2
<1>5. LoaderTypeOK'
  BY <1>1, <1>4 DEF RoomInv, LoaderTypeOK
<1> QED
  BY <1>1, <1>3, <1>5 DEF RoomInv

\* No segment is behind it.
LEMMA ApartSkipped ==
    ASSUME LoaderInv, ApartInv, SkipHeader
    PROVE  ApartInv'
<1>1. /\ RoomInv /\ loading = "headers" /\ header \in DOMAIN file.headers
      /\ header' = header + 1
      /\ UNCHANGED <<loading, file, rest, segments, memory, pool, table>>
  BY DEF LoaderInv, SkipHeader
<1>2. header \notin Loaded
  <2>1. file.headers[header].type # "load" \/ file.headers[header].memsz = 0
    BY DEF SkipHeader
  <2>2. file.headers[header].memsz \in Nat
    BY <1>1, HeaderFields
  <2> QED
    BY <2>1, <2>2 DEF Loaded
<1>3. Loaded' = Loaded /\ Loaded \subseteq Nat /\ header \in Nat
  BY <1>1, SameProgram, HeadersType DEF Loaded
<1>4. {i \in Loaded' : i < header'} = {i \in Loaded : i < header}
  <2>1. \A i \in Loaded : i < header + 1 <=> i < header
    BY <1>2, <1>3
  <2>2. \A i \in Loaded : i < header' <=> i < header
    BY <1>1, <2>1
  <2> QED
    BY <1>3, <2>2
<1>5. \A n, i : (SegmentOf(n, i) => SegmentOf(n, i)') /\ (Holds(n, i) => Holds(n, i)')
  BY <1>1 DEF SegmentOf, Holds
<1> DEFINE done == {i \in Loaded : i < header}
<1>6. /\ \A i \in done' : \E n \in DOMAIN segments' : SegmentOf(n, i)' /\ Holds(n, i)'
      /\ \A n \in DOMAIN segments' : \E i \in done' : SegmentOf(n, i)'
  <2>1. /\ \A i \in done : \E n \in DOMAIN segments : SegmentOf(n, i) /\ Holds(n, i)
        /\ \A n \in DOMAIN segments : \E i \in done : SegmentOf(n, i)
    BY DEF ApartInv
  <2>2. done' = done /\ segments' = segments
    BY <1>1, <1>4
  <2> HIDE DEF done
  <2> QED
    BY <1>5, <2>1, <2>2
<1>7. /\ \A m, n \in DOMAIN segments' :
            m # n => segments'[m].loaded_at # segments'[n].loaded_at
      /\ \A a \in 0 .. Pool - 1 : memory'[a] = Untouched
      /\ loading' # "segment"
  BY <1>1 DEF ApartInv
<1> QED
  BY <1>6, <1>7 DEF ApartInv

\* A segment is begun.
LEMMA RoomBegun ==
    ASSUME LoaderInv, LoadSegment
    PROVE  RoomInv'
<1> DEFINE h == file.headers[header]
<1>1. /\ RoomInv /\ loading = "headers" /\ header \in DOMAIN file.headers
      /\ h.type = "load" /\ h.memsz > 0
      /\ rest' = [vaddr |-> h.vaddr, skip |-> 0, filesz |-> h.filesz, memsz |-> h.memsz]
      /\ loading' = "segment" /\ table = << >>
      /\ UNCHANGED <<file, header, segments, memory, pool, table>>
  BY DEF LoaderInv, LoadSegment
<1>2. h.vaddr \in Nat /\ h.filesz \in Nat /\ h.memsz \in Nat /\ h.filesz <= h.memsz
  BY <1>1, HeaderFields
<1>3. Loaded' = Loaded /\ header \in Loaded
  BY <1>1, SameProgram DEF Loaded
<1>4. \A room : Fits(file, room) => Fits(file, room)'
  BY <1>1 DEF Fits
<1>5. LoaderTypeOK'
  BY <1>1, <1>2 DEF RoomInv, LoaderTypeOK
<1>6. /\ rest' \in [vaddr : Nat, skip : Nat, filesz : Nat, memsz : Nat]
      /\ rest'.memsz <= file'.headers[header'].memsz
  BY <1>1, <1>2
<1> QED
  BY <1>1, <1>3, <1>4, <1>5, <1>6 DEF RoomInv

\* All of it is left to load.
LEMMA ApartBegun ==
    ASSUME LoaderInv, ApartInv, LoadSegment
    PROVE  ApartInv'
<1>1. /\ loading = "headers"
      /\ rest' = [vaddr |-> file'.headers[header'].vaddr, skip |-> 0,
                  filesz |-> file'.headers[header'].filesz,
                  memsz |-> file'.headers[header'].memsz]
      /\ UNCHANGED <<file, header, segments, memory, pool, table>>
  BY DEF LoadSegment
<1>2. Loaded' = Loaded
  BY <1>1, SameProgram
<1>3. \A n, i : (SegmentOf(n, i) => SegmentOf(n, i)') /\ (Holds(n, i) => Holds(n, i)')
  BY <1>1 DEF SegmentOf, Holds
<1> QED
  BY <1>1, <1>2, <1>3 DEF ApartInv

\* The lesser of two numbers
LEMMA LesserOfTwo ==
    ASSUME NEW a \in Nat, NEW b \in Nat
    PROVE  Min({a, b}) \in Nat /\ Min({a, b}) <= a /\ Min({a, b}) <= b
<1>1. \E x \in {a, b} : \A y \in {a, b} : x <= y
  <2>1. a <= b \/ b <= a
    OBVIOUS
  <2> QED
    BY <2>1
<1>2. /\ Min({a, b}) \in {a, b} /\ \A y \in {a, b} : Min({a, b}) <= y
  BY <1>1 DEF Min
<1> QED
  BY <1>2

\* A part is copied: no memory is taken.
LEMMA RoomCopied ==
    ASSUME LoaderInv, CopyPart
    PROVE  RoomInv'
<1> USE LoaderAssumption
<1> DEFINE n == Min({PageSize - (rest.vaddr % PageSize), rest.filesz})
<1>1. /\ RoomInv /\ loading = "segment" /\ table = << >>
      /\ memory' = Written(rest.vaddr, n)
      /\ rest' = [vaddr |-> rest.vaddr + n, skip |-> rest.skip + n,
                  filesz |-> rest.filesz - n, memsz |-> rest.memsz - n]
      /\ loading' = IF rest'.memsz = 0 THEN "headers" ELSE "segment"
      /\ header' = IF rest'.memsz = 0 THEN header + 1 ELSE header
      /\ UNCHANGED <<file, segments, pool, table>>
  BY DEF LoaderInv, CopyPart
<1>2. /\ rest.vaddr \in Nat /\ rest.skip \in Nat /\ rest.filesz \in Nat /\ rest.memsz \in Nat
      /\ rest.filesz <= rest.memsz
      /\ header \in Loaded /\ rest.memsz <= file.headers[header].memsz
  BY <1>1 DEF RoomInv, LoaderTypeOK
<1>3. n \in Nat /\ n <= rest.filesz
  <2>1. PageSize - (rest.vaddr % PageSize) \in Nat
    BY <1>2, Division
  <2> QED
    BY <1>2, <2>1, LesserOfTwo
<1>4. header \in DOMAIN file.headers /\ file.headers[header].memsz \in Nat
  BY <1>1, <1>2, HeaderFields DEF Loaded
<1>5. Len(file.headers) \in Nat /\ header \in 1 .. Len(file.headers)
  BY <1>1, <1>4, HeadersType
<1> HIDE DEF n
<1>6. /\ rest' \in [vaddr : Nat, skip : Nat, filesz : Nat, memsz : Nat]
      /\ rest'.filesz <= rest'.memsz /\ rest'.memsz <= file.headers[header].memsz
  <2>1. /\ rest.vaddr + n \in Nat /\ rest.skip + n \in Nat
        /\ rest.filesz - n \in Nat /\ rest.memsz - n \in Nat
        /\ rest.filesz - n <= rest.memsz - n
        /\ rest.memsz - n <= file.headers[header].memsz
    BY <1>2, <1>3, <1>4
  <2> QED
    BY <1>1, <2>1
<1>7. DOMAIN memory' = DOMAIN memory
  BY <1>1 DEF Written
<1>8. \A room : Fits(file, room) => Fits(file, room)'
  BY <1>1 DEF Fits
<1>9. \E room \in 0 .. Top : Fits(file, room)' /\ pool' <= Limit(header', room)
  <2>1. CASE rest'.memsz = 0
    <3>1. PICK room \in 0 .. Top : Fits(file, room) /\ pool <= Limit(header + 1, room)
      BY <1>1, <1>4, GoneOn
    <3>2. pool' <= Limit(header', room)
      BY <1>1, <2>1, <3>1
    <3> QED
      BY <1>8, <3>1, <3>2
  <2>2. CASE rest'.memsz # 0
    <3>1. PICK room \in 0 .. Top : Fits(file, room) /\ pool <= Limit(header, room)
      BY <1>1 DEF RoomInv
    <3>2. pool' <= Limit(header', room)
      BY <1>1, <2>2, <3>1
    <3> QED
      BY <1>8, <3>1, <3>2
  <2> QED
    BY <2>1, <2>2
<1>10. header' \in 1 .. Len(file'.headers) + 1 /\ loading' \in {"headers", "segment"}
       /\ (loading' = "segment" => header' = header)
  BY <1>1, <1>5
<1>11. LoaderTypeOK'
  <2>1. /\ pool' \in Pool .. Top /\ DOMAIN table' = {}
    BY <1>1 DEF RoomInv, LoaderTypeOK
  <2>2. 0 <= rest'.filesz
    BY <1>6
  <2> QED
    BY <1>6, <1>10, <2>1, <2>2 DEF LoaderTypeOK
<1>12. loading' = "segment" => header' \in Loaded' /\ rest'.memsz <= file'.headers[header'].memsz
  BY <1>1, <1>2, <1>6, <1>10, SameProgram
<1> QED
  BY <1>1, <1>6, <1>7, <1>9, <1>10, <1>11, <1>12 DEF RoomInv

\* What a segment that is placed is given.
LEMMA Placed ==
    ASSUME LoaderInv, PlaceRest
    PROVE  LET length == Required(rest.vaddr, rest.memsz) * PageSize
               at == pool + (rest.vaddr % PageSize)
               segment == [loaded_at |-> rest.vaddr, located_at |-> pool, length |-> length] IN
           /\ length \in Nat /\ length % PageSize = 0
           /\ (rest.vaddr % PageSize) + rest.memsz <= length
           /\ pool + length <= Top
           /\ segment \in Segments
           /\ segments' \in Seq(Segments) /\ Len(segments') = Len(segments) + 1
           /\ DOMAIN segments = 1 .. Len(segments) /\ DOMAIN segments' = 1 .. Len(segments) + 1
           /\ segments'[Len(segments) + 1] = segment
           /\ \A n \in DOMAIN segments : n \in DOMAIN segments' /\ segments'[n] = segments[n]
           /\ \E room \in 0 .. Top : Fits(file, room) /\ pool + length <= Limit(header + 1, room)
<1> DEFINE r == Required(rest.vaddr, rest.memsz)
           length == r * PageSize
           segment == [loaded_at |-> rest.vaddr, located_at |-> pool, length |-> length]
           bound == (Pages(file.headers[header].memsz) + 1) * PageSize
<1>1. /\ RoomInv /\ loading = "segment" /\ segments' = Append(segments, segment)
  BY DEF LoaderInv, PlaceRest
<1>2. /\ rest.vaddr \in Nat /\ rest.memsz \in Nat /\ pool \in Nat
      /\ header \in DOMAIN file.headers /\ rest.memsz <= file.headers[header].memsz
  BY <1>1 DEF RoomInv, Loaded
<1>3. file.headers[header].memsz \in Nat
  BY <1>1, <1>2, HeaderFields
<1>4. /\ r \in Nat /\ (rest.vaddr % PageSize) + rest.memsz <= length
      /\ length <= (Pages(rest.memsz) + 1) * PageSize
  BY <1>2, RequiredProperties
<1>5. length \in Nat /\ length % PageSize = 0
  BY <1>4, Multiples, WholePages, LoaderAssumption
<1>6. length <= bound
  <2>1. (Pages(rest.memsz) + 1) * PageSize <= bound
    BY <1>2, <1>3, PagesOrder
  <2>2. bound \in Nat /\ (Pages(rest.memsz) + 1) * PageSize \in Nat
    BY <1>2, <1>3, PagesType
  <2> DEFINE x == (Pages(rest.memsz) + 1) * PageSize
  <2>3. x \in Nat /\ bound \in Nat /\ x <= bound /\ length <= x
    BY <1>4, <2>1, <2>2
  <2> HIDE DEF bound, x, length
  <2> QED
    BY <1>5, <2>3
<1>7. /\ pool + length <= Top
      /\ \E room \in 0 .. Top : Fits(file, room) /\ pool + length <= Limit(header + 1, room)
  <2>1. loading \in {"headers", "segment"}
    BY <1>1
  <2> HIDE DEF length
  <2> QED
    BY <1>1, <1>2, <1>5, <1>6, <2>1, RoomLeft
<1> HIDE DEF length
<1>8. segment \in Segments
  BY <1>2, <1>5 DEF Segments
<1>9. segments \in Seq(Segments)
  BY <1>1 DEF RoomInv
<1> HIDE DEF segment
<1>10. /\ segments' \in Seq(Segments) /\ Len(segments') = Len(segments) + 1
       /\ DOMAIN segments = 1 .. Len(segments) /\ DOMAIN segments' = 1 .. Len(segments) + 1
       /\ segments'[Len(segments) + 1] = segment
       /\ \A n \in DOMAIN segments : n \in DOMAIN segments' /\ segments'[n] = segments[n]
  BY <1>1, <1>8, <1>9
<1> QED
  BY <1>4, <1>5, <1>7, <1>8, <1>10 DEF length, segment

\* The rest of a segment is placed: there is room for it.
LEMMA RoomPlaced ==
    ASSUME LoaderInv, PlaceRest
    PROVE  RoomInv'
<1> USE LoaderAssumption
<1> DEFINE length == Required(rest.vaddr, rest.memsz) * PageSize
           segment == [loaded_at |-> rest.vaddr, located_at |-> pool, length |-> length]
<1>1. /\ RoomInv /\ loading = "segment" /\ table = << >>
      /\ pool' = pool + length
      /\ DOMAIN memory' = DOMAIN memory
      /\ loading' = "headers" /\ header' = header + 1
      /\ rest' = [vaddr |-> 0, skip |-> 0, filesz |-> 0, memsz |-> 0]
      /\ UNCHANGED <<file, table>>
  BY DEF LoaderInv, PlaceRest, NoRest
<1>2. /\ length \in Nat /\ length % PageSize = 0 /\ pool + length <= Top
      /\ \E room \in 0 .. Top : Fits(file, room) /\ pool + length <= Limit(header + 1, room)
  BY Placed
<1>3. /\ segments' \in Seq(Segments)
      /\ DOMAIN segments' = 1 .. Len(segments) + 1 /\ DOMAIN segments = 1 .. Len(segments)
      /\ segments'[Len(segments) + 1] = segment
      /\ \A n \in DOMAIN segments : segments'[n] = segments[n]
  BY Placed
<1> HIDE DEF length
<1>4. /\ pool \in Nat /\ pool >= Pool /\ pool % PageSize = 0
      /\ header \in DOMAIN file.headers
  BY <1>1 DEF RoomInv, Loaded
<1>5. pool' \in Nat /\ pool' >= Pool /\ pool' <= Top /\ pool' >= pool
  BY <1>1, <1>2, <1>4
<1>6. pool' % PageSize = 0
  BY <1>1, <1>2, <1>4, WholeSum
<1>7. \E room \in 0 .. Top : Fits(file, room)' /\ pool' <= Limit(header', room)
  <2>1. PICK room \in 0 .. Top : Fits(file, room) /\ pool + length <= Limit(header + 1, room)
    BY <1>2
  <2>2. Fits(file, room)' /\ pool' <= Limit(header', room)
    BY <1>1, <2>1 DEF Fits
  <2> QED
    BY <2>2
<1>8. header' \in 1 .. Len(file'.headers) + 1
  <2>1. Len(file.headers) \in Nat /\ header \in 1 .. Len(file.headers)
    BY <1>1, <1>4, HeadersType
  <2>2. header + 1 \in 1 .. Len(file.headers) + 1
    BY <2>1
  <2> QED
    BY <1>1, <2>2
<1>9. \A n \in DOMAIN segments' :
        /\ segments'[n].located_at % PageSize = 0 /\ segments'[n].length % PageSize = 0
        /\ Pool <= segments'[n].located_at
        /\ segments'[n].located_at + segments'[n].length <= pool'
  <2>1. ASSUME NEW n \in DOMAIN segments
        PROVE  /\ segments[n].located_at % PageSize = 0 /\ segments[n].length % PageSize = 0
               /\ Pool <= segments[n].located_at
               /\ segments[n].located_at + segments[n].length <= pool'
    <3>1. /\ segments[n] \in Segments
          /\ segments[n].located_at % PageSize = 0 /\ segments[n].length % PageSize = 0
          /\ Pool <= segments[n].located_at
          /\ segments[n].located_at + segments[n].length <= pool
      BY <1>1 DEF RoomInv
    <3>2. segments[n].located_at + segments[n].length \in Nat
      BY <3>1 DEF Segments
    <3> QED
      BY <1>4, <1>5, <3>1, <3>2
  <2>2. /\ segment.located_at = pool /\ segment.length = length
    OBVIOUS
  <2>3. \A n \in DOMAIN segments' : n \in DOMAIN segments \/ n = Len(segments) + 1
    BY <1>3
  <2> HIDE DEF segment
  <2> QED
    BY <1>1, <1>2, <1>3, <1>4, <2>1, <2>2, <2>3, SMTT(20)
<1>10. LoaderTypeOK'
  BY <1>1, <1>5, <1>8 DEF LoaderTypeOK
<1> QED
  BY <1>1, <1>3, <1>5, <1>6, <1>7, <1>9, <1>10 DEF RoomInv

\* A page of one segment is mapped to that segment's, which pmm has given.
LEMMA TableBelow ==
    ASSUME LoaderInv, MapSegments,
           NEW page \in DOMAIN table', NEW n \in DOMAIN segments, Covering(page) = {n}
    PROVE  /\ table'[page] = Frame(n, page)
           /\ table'[page] * PageSize \in Pool .. pool - PageSize
<1> USE LoaderAssumption
<1> DEFINE s == segments[n]
           f == Frame(n, page)
<1>1. RoomInv /\ page \in 0 .. Top /\ table'[page] = Overlay({Frame(i, page) : i \in Covering(page)})
  BY DEF LoaderInv, MapSegments
<1>2. {Frame(i, page) : i \in Covering(page)} = {f}
  OBVIOUS
<1>3. n \in Covering(page)
  OBVIOUS
<1>4. page \in Nat
  BY <1>1
<1>5. /\ f \in Nat /\ s.located_at <= f * PageSize
      /\ f * PageSize + PageSize <= s.located_at + s.length
  BY <1>1, <1>3, <1>4, TableEntry DEF Frame
<1>6. /\ s \in Segments /\ Pool <= s.located_at /\ s.located_at + s.length <= pool
  BY <1>1 DEF RoomInv
<1>7. /\ s.located_at \in Nat /\ s.length \in Nat /\ pool \in Nat /\ f * PageSize \in Nat
      /\ pool <= Top
  <2>1. s.located_at \in Nat /\ s.length \in Nat
    BY <1>6 DEF Segments
  <2>2. f * PageSize \in Nat
    BY <1>5, Multiples
  <2>3. pool \in Pool .. Top
    BY <1>1 DEF RoomInv, LoaderTypeOK
  <2> QED
    BY <2>1, <2>2, <2>3
<1>8. f <= f * PageSize
  <2> HIDE DEF f
  <2> QED
    BY <1>5
<1> DEFINE x == f * PageSize
<1>9. /\ x \in Nat /\ s.located_at <= x /\ x + PageSize <= s.located_at + s.length
  BY <1>5, <1>7
<1> HIDE DEF x, s, f
<1>10. x \in Pool .. pool - PageSize
  BY <1>6, <1>7, <1>9
<1>11. f \in 0 .. Top
  BY <1>5, <1>7, <1>8, <1>10 DEF x
<1>12. table'[page] = f
  BY <1>1, <1>2, <1>11
<1> QED
  BY <1>10, <1>12 DEF f, x

\* The segments are mapped.
LEMMA RoomMapped ==
    ASSUME LoaderInv, MapSegments
    PROVE  RoomInv'
<1>1. /\ RoomInv /\ loading = "headers" /\ loading' = "mapped"
      /\ UNCHANGED <<file, header, rest, segments, memory, pool>>
  BY DEF LoaderInv, MapSegments
<1>2. \A page \in DOMAIN table' : \A n \in DOMAIN segments :
        Covering(page) = {n} => table'[page] * PageSize \in Pool .. pool - PageSize
  BY TableBelow
<1>3. \A room : Fits(file, room) => Fits(file, room)'
  BY <1>1 DEF Fits
<1>4. LoaderTypeOK'
  <2>1. \A page : Covering(page)' = Covering(page)
    BY <1>1 DEF Covering
  <2> QED
    BY <1>1, <1>2, <2>1 DEF RoomInv, LoaderTypeOK
<1> QED
  BY <1>1, <1>3, <1>4 DEF RoomInv

(* Segments that lie apart *)

\* A segment of the list is a header's, and what is asked for is in its pages only if
\* it is in the header's.
LEMMA SegmentSpan ==
    ASSUME RoomInv, ApartInv, NEW n \in DOMAIN segments
    PROVE  \E i \in Loaded :
            /\ i < header /\ SegmentOf(n, i)
            /\ file.headers[i].vaddr \in Nat /\ file.headers[i].memsz \in Nat
            /\ file.headers[i].memsz > 0
            /\ \A v \in Nat : v - segments[n].loaded_at \in 0 .. segments[n].length - 1
                    => v \div PageSize \in SpanOf(file.headers[i])
            /\ \A page \in Nat : n \in Covering(page) => page \in SpanOf(file.headers[i])
<1> USE LoaderAssumption
<1>1. PICK i \in Loaded : i < header /\ SegmentOf(n, i)
  BY DEF ApartInv
<1> DEFINE h == file.headers[i]
           r == Required(h.vaddr, h.memsz)
           q == h.vaddr \div PageSize
           top == (h.vaddr + r * PageSize - 1) \div PageSize
<1>2. h.vaddr \in Nat /\ h.memsz \in Nat /\ h.memsz > 0
  BY HeaderFields DEF Loaded
<1>3. segments[n].loaded_at = h.vaddr /\ segments[n].length = r * PageSize
  BY <1>1 DEF SegmentOf
<1>4. /\ \A d \in 0 .. r - 1 : q + d >= q /\ q + d <= top
      /\ \A k \in 0 .. r * PageSize - 1 :
            (h.vaddr + k) \div PageSize >= q /\ (h.vaddr + k) \div PageSize <= top
  BY <1>2, SpanPages
<1>5. SpanOf(h) = q .. top
  BY DEF SpanOf, LastTaken
<1>6. /\ r \in Nat /\ r > 0 /\ q \in Nat /\ r * PageSize \in Nat
      /\ (r * PageSize) \div PageSize = r /\ top \in Int
  <2>1. r \in Nat /\ r > 0 /\ q \in Nat
    BY <1>2, RequiredProperties, Division
  <2>2. r * PageSize \in Nat /\ (r * PageSize) \div PageSize = r
    BY <2>1, Multiples, WholePages
  <2>3. h.vaddr + r * PageSize - 1 \in Int
    BY <1>2, <2>2
  <2> QED
    BY <2>1, <2>2, <2>3
<1> HIDE DEF r, q, top
<1>7. ASSUME NEW v \in Nat, v - segments[n].loaded_at \in 0 .. segments[n].length - 1
      PROVE  v \div PageSize \in SpanOf(h)
  <2> DEFINE k == v - h.vaddr
             x == r * PageSize
  <2>1. k \in 0 .. x - 1
    BY <1>3, <1>7
  <2>2. h.vaddr + k = v
    BY <1>2
  <2>3. v \div PageSize \in Nat
    BY Division
  <2>4. v \div PageSize >= q /\ v \div PageSize <= top
    <3>1. (h.vaddr + k) \div PageSize >= q /\ (h.vaddr + k) \div PageSize <= top
      BY <1>4, <2>1
    <3> QED
      BY <2>2, <3>1
  <2> QED
    BY <1>5, <1>6, <2>3, <2>4
<1>8. ASSUME NEW page \in Nat, n \in Covering(page)
      PROVE  page \in SpanOf(h)
  <2> DEFINE d == page - q
  <2>1. d \in 0 .. r - 1
    BY <1>3, <1>6, <1>8 DEF Covering, q
  <2>2. q + d = page
    BY <1>6
  <2>3. page >= q /\ page <= top
    <3>1. q + d >= q /\ q + d <= top
      BY <1>4, <2>1
    <3> QED
      BY <2>2, <3>1
  <2> QED
    BY <1>5, <1>6, <2>3
<1> QED
  BY <1>1, <1>2, <1>7, <1>8

\* No segment lies where the one under way begins.
LEMMA Unmapped ==
    ASSUME RoomInv, ApartInv, SpansApart, loading = "segment"
    PROVE  ~ IsPageMapped(rest.vaddr)
<1> DEFINE h == file.headers[header]
<1>1. /\ header \in Loaded /\ rest.vaddr = h.vaddr
      /\ h.vaddr \in Nat /\ h.memsz \in Nat /\ h.memsz > 0
  <2>1. header \in Loaded /\ rest.vaddr = h.vaddr
    BY DEF RoomInv, ApartInv
  <2>2. header \in DOMAIN file.headers /\ h.memsz > 0
    BY <2>1 DEF Loaded
  <2> QED
    BY <2>1, <2>2, HeaderFields
<1>2. h.vaddr \div PageSize \in SpanOf(h)
  <2>1. Required(h.vaddr, h.memsz) \in Nat /\ Required(h.vaddr, h.memsz) > 0
    BY <1>1, RequiredProperties
  <2>2. 0 \in 0 .. Required(h.vaddr, h.memsz) - 1
    BY <2>1
  <2>3. /\ (h.vaddr \div PageSize) + 0 >= h.vaddr \div PageSize
        /\ (h.vaddr \div PageSize) + 0
            <= (h.vaddr + Required(h.vaddr, h.memsz) * PageSize - 1) \div PageSize
    BY <1>1, <2>2, SpanPages
  <2>4. h.vaddr \div PageSize \in Nat
    BY <1>1, Division
  <2> DEFINE q == h.vaddr \div PageSize
             top == (h.vaddr + Required(h.vaddr, h.memsz) * PageSize - 1) \div PageSize
  <2>5. top \in Int
    <3>1. Required(h.vaddr, h.memsz) * PageSize \in Nat
      BY <2>1, Multiples
    <3>2. h.vaddr + Required(h.vaddr, h.memsz) * PageSize - 1 \in Int
      BY <1>1, <3>1, LoaderAssumption
    <3> QED
      BY <3>2, LoaderAssumption
  <2>6. q \in Nat /\ q + 0 <= top
    BY <2>3, <2>4
  <2>7. SpanOf(h) = q .. top
    BY DEF SpanOf, LastTaken
  <2> HIDE DEF q, top
  <2>8. q \in q .. top
    BY <2>5, <2>6
  <2> QED
    BY <2>7, <2>8 DEF q
<1>3. ASSUME NEW n \in DOMAIN segments,
             rest.vaddr - segments[n].loaded_at \in 0 .. segments[n].length - 1
      PROVE  FALSE
  <2>1. PICK i \in Loaded :
            /\ i < header
            /\ \A v \in Nat : v - segments[n].loaded_at \in 0 .. segments[n].length - 1
                    => v \div PageSize \in SpanOf(file.headers[i])
    BY SegmentSpan
  <2>2. h.vaddr \div PageSize \in SpanOf(file.headers[i])
    BY <1>1, <1>3, <2>1
  <2>3. i # header
    BY <1>1, <2>1, HeadersType
  <2> QED
    BY <1>1, <1>2, <2>2, <2>3 DEF SpansApart
<1> QED
  BY <1>3 DEF IsPageMapped

\* Where a segment is placed there are its bytes; below it nothing is written.
LEMMA BytesPlaced ==
    ASSUME LoaderInv, ApartInv, PlaceRest
    PROVE  LET h == file.headers[header] IN
           /\ \A a \in 0 .. pool - 1 : memory'[a] = memory[a]
           /\ \A k \in 0 .. h.memsz - 1 :
                memory'[pool + (h.vaddr % PageSize) + k]
                    = IF k < h.filesz THEN <<header, k>> ELSE Zero
<1> USE LoaderAssumption
<1> DEFINE h == file.headers[header]
           s == h.vaddr % PageSize
           at == pool + s
           length == Required(h.vaddr, h.memsz) * PageSize
<1>1. /\ RoomInv /\ loading = "segment"
      /\ rest = [vaddr |-> h.vaddr, skip |-> 0, filesz |-> h.filesz, memsz |-> h.memsz]
  BY DEF LoaderInv, PlaceRest, ApartInv
<1>2. memory' = [a \in DOMAIN memory |->
                    IF a - at \in rest.filesz .. rest.memsz - 1 THEN Zero
                    ELSE Written(at, rest.filesz)[a]]
  BY <1>1 DEF PlaceRest
<1>3. memory' = [a \in 0 .. Top |->
                    IF a - at \in h.filesz .. h.memsz - 1 THEN Zero
                    ELSE IF a - at \in 0 .. h.filesz - 1 THEN <<header, 0 + a - at>>
                    ELSE memory[a]]
  <2>1. DOMAIN memory = 0 .. Top
    BY <1>1 DEF RoomInv
  <2>2. rest.filesz = h.filesz /\ rest.memsz = h.memsz /\ rest.skip = 0
    BY <1>1
  <2>3. Written(at, h.filesz) =
            [a \in 0 .. Top |->
                IF a - at \in 0 .. h.filesz - 1 THEN <<header, 0 + a - at>> ELSE memory[a]]
    BY <2>1, <2>2 DEF Written
  <2> HIDE DEF at
  <2> QED
    BY <1>2, <2>1, <2>2, <2>3
<1>4. /\ h.vaddr \in Nat /\ h.filesz \in Nat /\ h.memsz \in Nat /\ h.filesz <= h.memsz
      /\ pool \in Nat
  BY <1>1, HeaderFields DEF RoomInv, Loaded
<1>5. /\ length \in Nat /\ s + h.memsz <= length /\ pool + length <= Top
  BY <1>1, Placed
<1>6. s \in Nat
  BY <1>4, Division
<1> HIDE DEF h, s, length
<1>7. at \in Nat /\ at >= pool /\ at + h.memsz <= Top
  BY <1>4, <1>5, <1>6
<1> HIDE DEF at
<1>8. ASSUME NEW a \in 0 .. pool - 1
      PROVE  memory'[a] = memory[a]
  BY <1>3, <1>4, <1>7
<1>9. ASSUME NEW k \in 0 .. h.memsz - 1
      PROVE  memory'[at + k] = IF k < h.filesz THEN <<header, k>> ELSE Zero
  <2>1. at + k \in 0 .. Top /\ (at + k) - at = k /\ 0 + (at + k) - at = k
    BY <1>4, <1>7
  <2> DEFINE b == at + k
  <2> HIDE DEF b
  <2>2. CASE k < h.filesz
    <3>1. b - at \in 0 .. h.filesz - 1 /\ b - at \notin h.filesz .. h.memsz - 1
      BY <1>4, <2>1, <2>2 DEF b
    <3>2. memory'[b] = <<header, 0 + b - at>>
      BY <1>3, <2>1, <3>1 DEF b
    <3> QED
      BY <2>1, <2>2, <3>2 DEF b
  <2>3. CASE ~ (k < h.filesz)
    <3>1. b - at \in h.filesz .. h.memsz - 1
      BY <1>4, <2>1, <2>3 DEF b
    <3>2. memory'[b] = Zero
      BY <1>3, <2>1, <3>1 DEF b
    <3> QED
      BY <2>3, <3>2 DEF b
  <2> QED
    BY <2>2, <2>3
<1> QED
  BY <1>8, <1>9 DEF at, s, h

\* The segments that have been placed are left as they are, and there is one more.
LEMMA ApartPlaced ==
    ASSUME LoaderInv, ApartInv, SpansApart, PlaceRest
    PROVE  ApartInv'
<1> USE LoaderAssumption
<1> DEFINE h == file.headers[header]
           length == Required(h.vaddr, h.memsz) * PageSize
           last == Len(segments) + 1
           done == {i \in Loaded : i < header}
           segment == [loaded_at |-> h.vaddr, located_at |-> pool, length |-> length]
<1>1. /\ RoomInv /\ loading = "segment" /\ ~ IsPageMapped(rest.vaddr)
      /\ rest.vaddr = h.vaddr /\ rest.memsz = h.memsz
      /\ header \in Loaded /\ header \in Nat
      /\ header' = header + 1 /\ loading' = "headers" /\ file' = file
  BY HeadersType DEF LoaderInv, RoomInv, PlaceRest, ApartInv
<1>2. /\ DOMAIN segments = 1 .. Len(segments) /\ DOMAIN segments' = 1 .. last
      /\ segments'[last] = segment
      /\ \A n \in DOMAIN segments : n \in DOMAIN segments' /\ segments'[n] = segments[n]
  BY <1>1, Placed
<1>3. done' = done \cup {header}
  <2>1. Loaded' = Loaded /\ Loaded \subseteq Nat
    BY <1>1, SameProgram, HeadersType DEF Loaded
  <2>2. \A i \in Loaded : i < header + 1 <=> i < header \/ i = header
    BY <1>1, <2>1
  <2> QED
    BY <1>1, <2>1, <2>2
<1>4. ASSUME NEW i \in done, NEW n \in DOMAIN segments, SegmentOf(n, i)
      PROVE  SegmentOf(n, i)'
  BY <1>1, <1>2, <1>4 DEF SegmentOf
<1>5. ASSUME NEW i \in done, NEW n \in DOMAIN segments, SegmentOf(n, i), Holds(n, i)
      PROVE  Holds(n, i)'
  <2> DEFINE g == file.headers[i]
             s == g.vaddr % PageSize
             at == segments[n].located_at
  <2>1. g.vaddr \in Nat /\ g.memsz \in Nat
    BY <1>1, HeaderFields DEF Loaded
  <2>2. s \in Nat /\ s + g.memsz <= Required(g.vaddr, g.memsz) * PageSize
    BY <2>1, Division, RequiredProperties
  <2>3. /\ segments[n] \in Segments /\ at + segments[n].length <= pool /\ pool \in Nat
        /\ segments[n].length = Required(g.vaddr, g.memsz) * PageSize
    BY <1>1, <1>5 DEF RoomInv, SegmentOf
  <2>4. at \in Nat /\ segments[n].length \in Nat
    BY <2>3 DEF Segments
  <2> DEFINE l == segments[n].length
  <2>5. /\ l \in Nat /\ s + g.memsz <= l /\ at + l <= pool
    BY <2>2, <2>3, <2>4
  <2> HIDE DEF g, s, at, l
  <2>6. \A k \in 0 .. g.memsz - 1 : at + s + k \in 0 .. pool - 1
    BY <2>1, <2>2, <2>3, <2>4, <2>5
  <2>7. \A a \in 0 .. pool - 1 : memory'[a] = memory[a]
    BY BytesPlaced
  <2>8. \A k \in 0 .. g.memsz - 1 : memory[at + s + k] = IF k < g.filesz THEN <<i, k>> ELSE Zero
    BY <1>5 DEF Holds, g, s, at
  <2>9. \A k \in 0 .. g.memsz - 1 : memory'[at + s + k] = IF k < g.filesz THEN <<i, k>> ELSE Zero
    BY <2>6, <2>7, <2>8
  <2>10. file'.headers[i] = g /\ segments'[n].located_at = at
    BY <1>1, <1>2 DEF g, at
  <2> QED
    BY <2>9, <2>10 DEF Holds, s
<1>6. ASSUME NEW n, n = last, NEW i, i = header
      PROVE  SegmentOf(n, i)'
  <2>1. segments'[n] = segment /\ file'.headers[i] = h
    BY <1>1, <1>2, <1>6
  <2> QED
    BY <2>1 DEF SegmentOf
<1>7. ASSUME NEW n, n = last, NEW i, i = header
      PROVE  Holds(n, i)'
  <2>1. \A k \in 0 .. h.memsz - 1 :
            memory'[pool + (h.vaddr % PageSize) + k] = IF k < h.filesz THEN <<i, k>> ELSE Zero
    BY <1>7, BytesPlaced
  <2>2. segments'[n].located_at = pool /\ file'.headers[i] = h
    BY <1>1, <1>2, <1>7
  <2> HIDE DEF h, last, segment, length
  <2> QED
    BY <2>1, <2>2 DEF Holds
<1>8. \A n \in DOMAIN segments : segments[n].loaded_at # h.vaddr
  <2> SUFFICES ASSUME NEW n \in DOMAIN segments, segments[n].loaded_at = h.vaddr
               PROVE  FALSE
    OBVIOUS
  <2>1. PICK i \in Loaded :
            /\ SegmentOf(n, i)
            /\ file.headers[i].vaddr \in Nat /\ file.headers[i].memsz \in Nat
            /\ file.headers[i].memsz > 0
    BY <1>1, SegmentSpan
  <2> DEFINE r == Required(file.headers[i].vaddr, file.headers[i].memsz)
             l == r * PageSize
  <2>2. r \in Nat /\ r > 0
    BY <2>1, RequiredProperties
  <2>3. l \in Nat /\ l > 0
    <3>1. 0 \in Nat /\ 0 < r
      BY <2>2
    <3>2. 0 * PageSize \in Nat /\ l \in Nat /\ 0 * PageSize + PageSize <= l
      BY <2>2, <3>1, Multiples
    <3> HIDE DEF l
    <3> QED
      BY <3>2
  <2>4. segments[n].length = l
    BY <2>1 DEF SegmentOf
  <2>5. h.vaddr \in Nat
    BY <1>1, HeaderFields DEF Loaded
  <2> HIDE DEF l, h
  <2>6. rest.vaddr - segments[n].loaded_at \in 0 .. segments[n].length - 1
    BY <1>1, <2>3, <2>4, <2>5
  <2> QED
    BY <1>1, <2>6 DEF IsPageMapped
<1>9. \A i \in done' : \E n \in DOMAIN segments' : SegmentOf(n, i)' /\ Holds(n, i)'
  <2>1. last \in DOMAIN segments'
    <3>1. Len(segments) \in Nat
      BY <1>1 DEF RoomInv
    <3> QED
      BY <1>2, <3>1
  <2>2. \A i \in done : \E n \in DOMAIN segments : SegmentOf(n, i) /\ Holds(n, i)
    BY DEF ApartInv
  <2>3. ASSUME NEW i \in done'
        PROVE  \E n \in DOMAIN segments' : SegmentOf(n, i)' /\ Holds(n, i)'
    <3>1. CASE i = header
      BY <1>6, <1>7, <2>1, <3>1
    <3>2. CASE i \in done
      <4>1. PICK n \in DOMAIN segments : SegmentOf(n, i) /\ Holds(n, i)
        BY <2>2, <3>2
      <4> QED
        BY <1>2, <1>4, <1>5, <3>2, <4>1
    <3> HIDE DEF done
    <3> QED
      BY <1>3, <2>3, <3>1, <3>2
  <2> QED
    BY <2>3
<1>10. \A n \in DOMAIN segments' : n \in DOMAIN segments \/ n = last
  <2>1. Len(segments) \in Nat
    BY <1>1 DEF RoomInv
  <2> QED
    BY <1>2, <2>1
<1>11. \A n \in DOMAIN segments' : \E i \in done' : SegmentOf(n, i)'
  <2>1. \A n \in DOMAIN segments : \E i \in done : SegmentOf(n, i)
    BY DEF ApartInv
  <2>2. ASSUME NEW n \in DOMAIN segments'
        PROVE  \E i \in done' : SegmentOf(n, i)'
    <3>1. CASE n = last
      BY <1>3, <1>6, <3>1
    <3>2. CASE n \in DOMAIN segments
      <4>1. PICK i \in done : SegmentOf(n, i)
        BY <2>1, <3>2
      <4>2. SegmentOf(n, i)'
        BY <1>4, <3>2, <4>1
      <4> HIDE DEF done
      <4> QED
        BY <1>3, <4>2
    <3> QED
      BY <1>10, <2>2, <3>1, <3>2
  <2> QED
    BY <2>2
<1>12. \A m, n \in DOMAIN segments' :
        m # n => segments'[m].loaded_at # segments'[n].loaded_at
  <2>1. segments'[last].loaded_at = h.vaddr
    BY <1>2
  <2>2. \A m, n \in DOMAIN segments : m # n => segments[m].loaded_at # segments[n].loaded_at
    BY DEF ApartInv
  <2> HIDE DEF h, last, segment
  <2> QED
    BY <1>2, <1>8, <1>10, <2>1, <2>2
<1>13. \A a \in 0 .. Pool - 1 : memory'[a] = Untouched
  <2>1. \A a \in 0 .. Pool - 1 : memory[a] = Untouched
    BY DEF ApartInv
  <2>2. \A a \in 0 .. pool - 1 : memory'[a] = memory[a]
    BY BytesPlaced
  <2>3. pool \in Nat /\ pool >= Pool
    BY <1>1 DEF RoomInv
  <2> QED
    BY <2>1, <2>2, <2>3
<1> HIDE DEF done
<1> QED
  BY <1>1, <1>9, <1>11, <1>12, <1>13 DEF ApartInv, done

\* The table has a page of a header's segment where the segment's list has it.
LEMMA SegmentMapped ==
    ASSUME LoaderInv, ApartInv, SpansApart, MapSegments,
           NEW i \in Loaded, NEW n \in DOMAIN segments, SegmentOf(n, i),
           NEW k \in 0 .. file.headers[i].memsz - 1
    PROVE  LET h == file.headers[i]
               v == h.vaddr + k IN
           /\ v \div PageSize \in DOMAIN table'
           /\ table'[v \div PageSize] * PageSize + (v % PageSize)
                = segments[n].located_at + (h.vaddr % PageSize) + k
<1> USE LoaderAssumption
<1> DEFINE h == file.headers[i]
           v == h.vaddr + k
           page == v \div PageSize
           q == h.vaddr \div PageSize
           r == Required(h.vaddr, h.memsz)
           top == (h.vaddr + r * PageSize - 1) \div PageSize
<1>1. RoomInv
  BY DEF LoaderInv
<1>2. /\ i \in DOMAIN file.headers /\ h.vaddr \in Nat /\ h.memsz \in Nat /\ h.memsz > 0
      /\ k \in Nat /\ k < h.memsz
  <2>1. i \in DOMAIN file.headers /\ h.memsz > 0
    BY DEF Loaded
  <2>2. h.vaddr \in Nat /\ h.memsz \in Nat
    BY <1>1, <2>1, HeaderFields
  <2>3. k \in Nat /\ k < h.memsz
    BY <2>2
  <2> QED
    BY <2>1, <2>2, <2>3
<1>3. segments[n].loaded_at = h.vaddr /\ segments[n].length = r * PageSize
  BY DEF SegmentOf
<1>4. /\ v \in Nat /\ page \in Nat /\ v % PageSize \in Nat /\ page * PageSize \in Nat
      /\ v = page * PageSize + (v % PageSize)
  <2>1. v \in Nat
    BY <1>2
  <2>2. page \in Nat /\ v % PageSize \in Nat /\ v = page * PageSize + (v % PageSize)
    BY <2>1, Division
  <2> QED
    BY <2>1, <2>2, Multiples
<1>5. /\ q \in Nat /\ h.vaddr % PageSize \in Nat /\ q * PageSize \in Nat
      /\ h.vaddr = q * PageSize + (h.vaddr % PageSize)
  <2>1. q \in Nat /\ h.vaddr % PageSize \in Nat
        /\ h.vaddr = q * PageSize + (h.vaddr % PageSize)
    BY <1>2, Division
  <2> QED
    BY <2>1, Multiples
<1>6. r \in Nat /\ (r * PageSize) \div PageSize = r
  <2>1. r \in Nat
    BY <1>2, RequiredProperties
  <2> QED
    BY <2>1, WholePages
<1>7. page - q \in 0 .. r - 1
  BY <1>2, SpanPages
<1>8. n \in Covering(page)
  BY <1>3, <1>6, <1>7 DEF Covering
<1>9. page \in SpanOf(h)
  <2>1. \A d \in 0 .. r - 1 : q + d >= q /\ q + d <= top
    BY <1>2, SpanPages
  <2>2. SpanOf(h) = q .. top
    BY DEF SpanOf, LastTaken
  <2>3. top \in Int
    <3>1. r * PageSize \in Nat
      BY <1>6, Multiples
    <3>2. h.vaddr + r * PageSize - 1 \in Int
      BY <1>2, <3>1
    <3> QED
      BY <3>2
  <2> HIDE DEF page, q, r, top
  <2> DEFINE d == page - q
  <2>4. d \in 0 .. r - 1 /\ q + d = page
    BY <1>4, <1>5, <1>7
  <2> HIDE DEF d
  <2>5. page >= q /\ page <= top
    BY <2>1, <2>4
  <2> QED
    BY <1>4, <1>5, <2>2, <2>3, <2>5
<1>10. page \in 0 .. Top
  <2>1. v <= Top
    <3>1. PICK room \in 0 .. Top : Fits(file, room)
      BY <1>1 DEF RoomInv
    <3>2. h.vaddr + h.memsz <= Top
      BY <1>2, <3>1 DEF Fits
    <3> QED
      BY <1>2, <3>2
  <2>2. page <= page * PageSize
    <3>1. PageSize \in Nat /\ PageSize >= 1
      BY RequiredProperties
    <3> HIDE DEF page
    <3>2. \A a, b \in Nat : b >= 1 => a <= a * b
      OBVIOUS
    <3> QED
      BY <1>4, <3>1, <3>2, Zenon
  <2> DEFINE x == page * PageSize
  <2>3. x \in Nat /\ page <= x /\ v = x + (v % PageSize)
    BY <1>4, <2>2
  <2> HIDE DEF x, page, v
  <2> QED
    BY <1>4, <2>1, <2>3
<1>11. page \in DOMAIN table'
  BY <1>8, <1>10 DEF MapSegments
<1>12. ASSUME NEW m \in Covering(page)
       PROVE  m = n
  <2>1. m \in DOMAIN segments
    BY <1>12 DEF Covering
  <2> HIDE DEF page
  <2>2. PICK j \in Loaded : SegmentOf(m, j) /\ page \in SpanOf(file.headers[j])
    BY <1>1, <1>4, <1>12, <2>1, SegmentSpan
  <2>3. j = i
    BY <1>9, <2>2 DEF SpansApart
  <2>4. segments[m].loaded_at = segments[n].loaded_at
    BY <1>3, <2>2, <2>3 DEF SegmentOf
  <2> QED
    BY <2>1, <2>4 DEF ApartInv
<1> DEFINE f == Frame(n, page)
<1>13. table'[page] = f
  <2>1. Covering(page) = {n}
    BY <1>8, <1>12
  <2> QED
    BY <1>11, <2>1, TableBelow
<1>14. f \in Nat /\ f * PageSize + q * PageSize = segments[n].located_at + page * PageSize
  <2> HIDE DEF page
  <2>1. /\ f \in Nat
        /\ f * PageSize + (segments[n].loaded_at \div PageSize) * PageSize
            = segments[n].located_at + page * PageSize
    BY <1>1, <1>4, <1>8, TableEntry DEF Frame
  <2> QED
    BY <1>3, <2>1
<1>15. segments[n].located_at \in Nat
  <2>1. segments[n] \in Segments
    BY <1>1 DEF RoomInv
  <2> QED
    BY <2>1 DEF Segments
<1>16. f * PageSize \in Nat
  BY <1>14, Multiples
<1> DEFINE fx == f * PageSize
           qx == q * PageSize
           px == page * PageSize
           s == h.vaddr % PageSize
           t == v % PageSize
           at == segments[n].located_at
<1>17. fx + t = at + s + k
  <2>1. /\ fx \in Nat /\ qx \in Nat /\ px \in Nat /\ s \in Nat /\ t \in Nat /\ at \in Nat
        /\ fx + qx = at + px /\ v = px + t /\ h.vaddr = qx + s
    BY <1>4, <1>5, <1>14, <1>15, <1>16
  <2> DEFINE b == h.vaddr
  <2>2. v = b + k /\ b = qx + s /\ k \in Nat
    BY <1>2, <2>1
  <2> HIDE DEF fx, qx, px, s, t, at, v, b
  <2> QED
    BY <2>1, <2>2
<1>18. table'[page] * PageSize = fx
  BY <1>13
<1> QED
  BY <1>11, <1>17, <1>18

\* The image is whole when the table has been made.
LEMMA ImageMapped ==
    ASSUME LoaderInv, ApartInv, SpansApart, MapSegments, LoaderTypeOK'
    PROVE  ImageLoaded'
<1>1. /\ RoomInv /\ header \notin DOMAIN file.headers
      /\ UNCHANGED <<file, header, rest, segments, memory, pool>>
  BY DEF LoaderInv, MapSegments
<1>2. \A i \in Loaded : i < header
  <2>1. /\ DOMAIN file.headers = 1 .. Len(file.headers) /\ Len(file.headers) \in Nat
        /\ header \in 1 .. Len(file.headers) + 1
    BY <1>1, HeadersType
  <2>2. \A i \in DOMAIN file.headers : i < header
    BY <1>1, <2>1
  <2> QED
    BY <2>2 DEF Loaded
<1>3. ASSUME NEW i \in Loaded, NEW k \in 0 .. file.headers[i].memsz - 1
      PROVE  LET h == file.headers[i]
                 v == h.vaddr + k IN
             /\ v \div PageSize \in DOMAIN table'
             /\ memory[table'[v \div PageSize] * PageSize + (v % PageSize)]
                 = IF k < h.filesz THEN <<i, k>> ELSE Zero
  <2>1. PICK n \in DOMAIN segments : SegmentOf(n, i) /\ Holds(n, i)
    BY <1>2 DEF ApartInv
  <2> DEFINE h == file.headers[i]
             v == h.vaddr + k
  <2>2. /\ v \div PageSize \in DOMAIN table'
        /\ table'[v \div PageSize] * PageSize + (v % PageSize)
            = segments[n].located_at + (h.vaddr % PageSize) + k
    BY <2>1, SegmentMapped
  <2>3. memory[segments[n].located_at + (h.vaddr % PageSize) + k]
            = IF k < h.filesz THEN <<i, k>> ELSE Zero
    BY <2>1 DEF Holds
  <2> QED
    BY <2>2, <2>3
<1>4. Loaded' = Loaded /\ file' = file /\ memory' = memory
  BY <1>1, SameProgram
<1>5. \A i \in Loaded' : LET h == file'.headers[i] IN
        \A k \in 0 .. h.memsz - 1 : LET v == h.vaddr + k IN
            /\ v \div PageSize \in DOMAIN table'
            /\ memory'[table'[v \div PageSize] * PageSize + (v % PageSize)]
                = IF k < h.filesz THEN <<i, k>> ELSE Zero
  BY <1>3, <1>4
<1>6. \A a \in 0 .. Pool - 1 : memory'[a] = Untouched
  BY <1>4 DEF ApartInv
<1> QED
  BY <1>5, <1>6 DEF ImageLoaded

(* The loader's theorem *)

\* Every step keeps the loader's part.
LEMMA LoaderKept ==
    ASSUME LoaderInv, [Next]_vars
    PROVE  LoaderInv'
<1>1. CASE UNCHANGED loader
  <2>1. UNCHANGED <<loading, file, header, rest, segments, memory, pool, table>>
    BY <1>1 DEF loader
  <2>2. LoaderTypeOK'
    BY <2>1 DEF LoaderInv, RoomInv, LoaderTypeOK, Covering
  <2>3. Loaded' = Loaded /\ SpansApart' = SpansApart
    BY <2>1, SameProgram
  <2>4. ImageLoaded'
    BY <2>1, <2>2, <2>3 DEF LoaderInv, ImageLoaded
  <2>5. RoomInv'
    <3>1. \A room : Fits(file, room) => Fits(file, room)'
      BY <2>1 DEF Fits
    <3> QED
      BY <2>1, <2>2, <2>3, <3>1 DEF LoaderInv, RoomInv
  <2>6. SpansApart => ApartInv'
    <3>1. \A n, i : (SegmentOf(n, i) => SegmentOf(n, i)') /\ (Holds(n, i) => Holds(n, i)')
      BY <2>1 DEF SegmentOf, Holds
    <3> QED
      BY <2>1, <2>3, <3>1 DEF LoaderInv, ApartInv
  <2> QED
    BY <2>1, <2>3, <2>4, <2>5, <2>6 DEF LoaderInv
<1>2. ASSUME LoaderStep, loading' # "mapped", table' = << >>, file' = file,
             RoomInv', SpansApart => ApartInv'
      PROVE  LoaderInv'
  <2>1. SpansApart' = SpansApart
    BY <1>2, SameProgram
  <2>2. ImageLoaded'
    BY <1>2 DEF RoomInv, ImageLoaded
  <2> QED
    BY <1>2, <2>1, <2>2 DEF LoaderInv
<1>3. CASE CheckHeader
  <2>1. /\ loading = "check" /\ loading' # "mapped" /\ loading' # "segment"
        /\ UNCHANGED <<file, header, rest, segments, memory, table>>
    BY <1>3 DEF CheckHeader
  <2>2. SpansApart => ApartInv'
    <3>1. \A n, i : (SegmentOf(n, i) => SegmentOf(n, i)') /\ (Holds(n, i) => Holds(n, i)')
      BY <2>1 DEF SegmentOf, Holds
    <3>2. Loaded' = Loaded
      BY <2>1, SameProgram
    <3> QED
      BY <2>1, <3>1, <3>2 DEF LoaderInv, ApartInv
  <2> QED
    BY <1>2, <1>3, <2>1, <2>2, RoomChecked DEF LoaderInv, LoaderStep
<1>4. CASE SkipHeader
  <2>1. loading' # "mapped" /\ table' = << >> /\ file' = file
    BY <1>4 DEF SkipHeader, LoaderInv
  <2> QED
    BY <1>2, <1>4, <2>1, RoomSkipped, ApartSkipped DEF LoaderInv, LoaderStep
<1>5. CASE LoadSegment
  <2>1. loading' # "mapped" /\ table' = << >> /\ file' = file
    BY <1>5 DEF LoadSegment, LoaderInv
  <2> QED
    BY <1>2, <1>5, <2>1, RoomBegun, ApartBegun DEF LoaderInv, LoaderStep
<1>6. CASE CopyPart
  <2>1. loading = "segment" /\ loading' # "mapped" /\ table' = << >> /\ file' = file
    BY <1>6 DEF CopyPart, LoaderInv
  <2>2. ~ SpansApart
    BY <1>6, <2>1, Unmapped DEF LoaderInv, CopyPart
  <2> QED
    BY <1>2, <1>6, <2>1, <2>2, RoomCopied DEF LoaderStep
<1>7. CASE PlaceRest
  <2>1. loading' # "mapped" /\ table' = << >> /\ file' = file
    BY <1>7 DEF PlaceRest, LoaderInv
  <2> QED
    BY <1>2, <1>7, <2>1, RoomPlaced, ApartPlaced DEF LoaderInv, LoaderStep
<1>8. CASE MapSegments
  <2>1. /\ loading' = "mapped"
        /\ UNCHANGED <<file, header, rest, segments, memory, pool>>
    BY <1>8 DEF MapSegments
  <2>2. RoomInv'
    BY <1>8, RoomMapped
  <2>3. Loaded' = Loaded /\ SpansApart' = SpansApart
    BY <2>1, SameProgram
  <2>4. SpansApart => ApartInv'
    <3>1. \A n, i : (SegmentOf(n, i) => SegmentOf(n, i)') /\ (Holds(n, i) => Holds(n, i)')
      BY <2>1 DEF SegmentOf, Holds
    <3> QED
      BY <2>1, <2>3, <3>1 DEF LoaderInv, ApartInv
  <2>5. LoaderTypeOK'
    BY <2>2 DEF RoomInv
  <2>6. ImageLoaded'
    <3>1. CASE SpansApart
      BY <1>8, <2>5, <3>1, ImageMapped DEF LoaderInv
    <3>2. CASE ~ SpansApart
      BY <2>3, <2>5, <3>2 DEF ImageLoaded
    <3> QED
      BY <3>1, <3>2
  <2> QED
    BY <2>1, <2>2, <2>3, <2>4, <2>6 DEF LoaderInv
<1>9. [Next]_vars => LoaderStep \/ UNCHANGED loader
  BY DEF Next, BootStep, ReadMap, StartClocks, LoadProgram, Tick, Handle, vars
<1> QED
  BY <1>1, <1>3, <1>4, <1>5, <1>6, <1>7, <1>8, <1>9 DEF LoaderStep

\* A program whose segments lie in pages of their own runs as it was linked, whatever
\* its headers (elf.c and task.c): through the table that task_new_page_table makes every
\* byte of a segment is the file's or zero, and nothing below pmm's pool is written.
THEOREM ProgramAsLinked == Spec => []ImageLoaded
<1>1. Init => LoaderInv
  BY RoomStart
<1>2. LoaderInv /\ [Next]_vars => LoaderInv'
  BY LoaderKept
<1>3. LoaderInv => ImageLoaded
  BY DEF LoaderInv
<1> QED
  BY <1>1, <1>2, <1>3, PTL DEF Spec
=============================================================================
