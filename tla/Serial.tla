------------------------------- MODULE Serial -------------------------------
(***************************************************************************)
(* The serial console: uartsh.c, the shell on it (shell.c), and the two    *)
(* shell commands that call the disk driver (module Ahci).                 *)
(*                                                                         *)
(* serial_console_enable runs once, in the middle of the boot code, with   *)
(* interrupts enabled: characters may arrive before, between and behind    *)
(* its steps.  The handler of the serial interrupt runs the shell and its  *)
(* commands to their end, with interrupts disabled.  The UART's FIFO is    *)
(* never enabled: it holds one character, and its interrupt line is high   *)
(* while it holds one.                                                     *)
(*                                                                         *)
(* What the console prints, the prompt and the output port included, is    *)
(* left out.                                                               *)
(***************************************************************************)
EXTENDS Irq, Ahci, Sequences

CONSTANTS
    Coms,           \* the COM ports: 8
    Return, Bell,   \* the end of a line; a character that is not printed
    Printed,        \* the other characters
    Commands,       \* __uart_shell_commands: names, and what is typed for them
    BufferMax,      \* UARTSH_BUFFER_MAX
    MaxTyped        \* bound: characters that arrive

\* The COM ports there are, and the object behind available_com_ports, which its
\* ninth byte is in.
ASSUME PortsAssumption ==
    /\ Coms \in Nat /\ Coms > 2 /\ BufferMax \in Nat /\ MaxTyped \in Nat
    /\ \A m \in Machines :
        /\ m.present \subseteq 1 .. Coms
        /\ m.beyond \in {"_input_masked", "input_com_gsi", "input_idt_vector",
                         "input_port", "output_port", "other"}

Nul == "nul"
NoChar == "no_char"
DiskCommands == {"lsdisks", "disktest"}
ListCommands == {"pci", "lsp"}

ASSUME HandlersAssumption == NoHandler # "uart" /\ {1, 3, 4} \subseteq Lines
ASSUME CommandsAssumption ==
    /\ {Nul, NoChar, Return, Bell} \cap Printed = {}
    /\ NoChar \notin {Return, Bell} /\ Return # Bell
    /\ \A name \in DiskCommands \cup ListCommands : Commands[name] \in Seq(Printed)
\* The bound on pages is above what a run takes: other code's, the handles' page, two
\* for each port, one for each port in each command, and the page behind.
ASSUME LastPageAssumption ==
    LastPage >= MaxGiven + 4 + 2 * PortCount + MaxTyped * PortCount

Places == 0 .. BufferMax + 1    \* the bytes of the command buffer's page

VARIABLES
    available,      \* available_com_ports
    uart,           \* _input_masked, input_com_gsi, input_idt_vector
    held,           \* the UART's receive buffer
    enabled,        \* the UART's received-data interrupt
    pc,             \* where the boot code is
    handler,        \* where the serial interrupt's handler is
    opened,         \* command_buffer is not NULL
    text,           \* what it points to
    index,          \* command_buffer_index
    arrived,        \* how many characters have arrived
    typed,          \* ghost: the characters read since the last line's end, as
                    \* many as the shell keeps
    early,          \* ghost: one arrived before the line was unmasked
    damaged         \* ghost: one was read between the steps of uart_shell_start

shell == <<opened, text, index>>
console == <<available, uart, enabled>>
heard == <<typed, damaged>>
serial == <<console, held, pc, handler, shell, arrived, heard, early>>
vars == <<irqs, ahci, serial>>

Init ==
    /\ IrqInit /\ AhciInit
    /\ available = {}
    /\ uart = [masked |-> FALSE, gsi |-> 0, vector |-> 0]
    /\ held = NoChar /\ enabled = FALSE
    /\ pc = "probe" /\ handler = "out"
    /\ opened = FALSE
    /\ text = [i \in Places |-> Nul]
    /\ index = 0
    /\ arrived = 0
    /\ typed = << >> /\ early = FALSE /\ damaged = FALSE

----------------------------------------------------------------------------
(* serial_console_enable *)

\* The boot code moves on: no handler runs.
Boot(here, there) ==
    /\ handler = "out" /\ ~ fault
    /\ pc = here
    /\ pc' = there
    /\ UNCHANGED <<held, handler, arrived, heard, early>>

\* available_com_ports has a byte less than there are ports: the last port's
\* mark goes into the object behind it.
Probe ==
    /\ Boot("probe", "select")
    /\ available' = machine.present \ {Coms}
    /\ uart' = LET hit(object) == IF Coms \in machine.present
                                     /\ machine.beyond = object THEN 1 ELSE 0 IN
               [masked |-> TRUE, gsi |-> hit("input_com_gsi"),
                vector |-> hit("input_idt_vector")]
    /\ UNCHANGED <<irqs, ahci, enabled, shell>>

NoInput ==
    /\ Boot("select", "unmask")
    /\ available \cap {1, 2} = {}
    /\ UNCHANGED <<irqs, ahci, console, shell>>

Gsi(com) == IF com = 1 THEN 4 ELSE 3

\* A slip: the handler is installed before there is a vector.
HandlerBefore(v) == [handlers EXCEPT ![uart.vector] = "uart"]

HandlerAt(v) == Installed(v, "uart")

\* serial_select_input_port, for the first of the first two ports, up to the
\* redirection of its line.
SelectInput ==
    /\ Boot("select", "enable")
    /\ available \cap {1, 2} # {}
    /\ LET v == IF uart.vector = 0 THEN FreeVector ELSE uart.vector
           line == Gsi(IF 1 \in available THEN 1 ELSE 2) IN
        /\ uart' = [uart EXCEPT !.gsi = line, !.vector = v]
        /\ vectors' = IF uart.vector = 0 THEN vectors \cup {v} ELSE vectors
        /\ handlers' = HandlerAt(v)
        /\ redirects' = Redirected(line, v)
    /\ UNCHANGED <<pending, ahci, available, enabled, shell>>

\* A character that is already there raises the line at once.
EnableInterrupt ==
    /\ Boot("enable", "unmask")
    /\ enabled' = TRUE
    /\ requested' = IF held # NoChar THEN Edge(uart.gsi) ELSE requested
    /\ UNCHANGED <<routing, serviced, ahci, available, uart, shell>>

\* serial_set_input_masked(false)
UnmaskInput ==
    /\ Boot("unmask", "start")
    /\ uart' = [uart EXCEPT !.masked = FALSE]
    /\ redirects' = IF uart.gsi # 0 THEN Unmasked(uart.gsi) ELSE redirects
    /\ UNCHANGED <<vectors, handlers, pending, ahci, available, enabled, shell>>

(* uart_shell_start: the buffer's page, the index, the clearing of the page *)

AllocCommandBuffer ==
    /\ Boot("start", "index")
    /\ fresh' = fresh + 1
    /\ given' = given \cup {fresh}
    /\ opened' = TRUE
    /\ UNCHANGED <<irqs, machine, found, driver, hba, mem, base, taken, torn, at,
                   call, fault, console, text, index>>

ResetIndex ==
    /\ Boot("index", "memset")
    /\ index' = 0
    /\ UNCHANGED <<irqs, ahci, console, opened, text>>

ClearText ==
    /\ Boot("memset", "pci")
    /\ text' = [i \in Places |-> Nul]
    /\ UNCHANGED <<irqs, ahci, console, opened, index>>

(* The rest of the boot code, and the kernel's part of system calls.  Any of   *)
(* it may call pmm_alloc_page.                                                 *)

\* pci_conf_load_cache counts an entry of pci_function_cache ...
PciCounts ==
    /\ Boot("pci", "counted")
    /\ base = NoPage
    /\ UNCHANGED <<irqs, ahci, console, shell>>

\* ... before the entry is there and its base is set.
PciSets ==
    /\ Boot("counted", "pci")
    /\ base = NoPage
    /\ SetEntry
    /\ UNCHANGED <<irqs, console, shell>>

PciLoaded ==
    /\ Boot("pci", "run")
    /\ base = NoPage /\ found = (machine.controller # "none")
    /\ UNCHANGED <<irqs, ahci, console, shell>>

\* task_create_new: the new link is in the list ...
TaskLinks ==
    /\ Boot("run", "linking")
    /\ base = NoPage
    /\ UNCHANGED <<irqs, ahci, console, shell>>

\* ... before it has its task and its end.
TaskLinked ==
    /\ Boot("linking", "run")
    /\ UNCHANGED <<irqs, ahci, console, shell>>

Allocating == {"pci", "counted", "run"}

KernelReads ==
    /\ \E here \in Allocating : Boot(here, here)
    /\ ReadSection
    /\ UNCHANGED <<irqs, console, shell>>

KernelTakes ==
    /\ \E here \in Allocating : Boot(here, here)
    /\ MoveSection
    /\ UNCHANGED <<irqs, console, shell>>

BootStep ==
    \/ Probe \/ NoInput \/ SelectInput \/ EnableInterrupt \/ UnmaskInput
    \/ AllocCommandBuffer \/ ResetIndex \/ ClearText
    \/ PciCounts \/ PciSets \/ PciLoaded \/ TaskLinks \/ TaskLinked
    \/ KernelReads \/ KernelTakes

----------------------------------------------------------------------------
(* The UART: characters come in at the selected port, selected or not yet *)

Starting == {"probe", "select", "enable", "unmask"}

Receive(c) ==
    /\ arrived < MaxTyped /\ ~ fault
    /\ machine.present \cap {1, 2} # {}
    /\ arrived' = arrived + 1
    /\ held' = c
    /\ requested' = IF held = NoChar /\ enabled THEN Edge(uart.gsi) ELSE requested
    /\ early' = (early \/ pc \in Starting)
    /\ UNCHANGED <<routing, serviced, ahci, console, pc,
                   handler, shell, heard>>

----------------------------------------------------------------------------
(* The interrupt: __uart_input_irq_handler, and the shell *)

Handling(here, there) ==
    /\ handler = here /\ ~ fault
    /\ handler' = there

\* With its line masked the handler returns, and does not end the interrupt.
Interrupt(v) ==
    /\ Deliverable(v) /\ handlers[v] = "uart"
    /\ Handling("out", IF uart.masked THEN "out" ELSE "loop")
    /\ Deliver(v)
    /\ UNCHANGED <<routing, ahci, console, held, pc,
                   shell, arrived, heard, early>>

\* The next character, if __uart_shell_handle_character does `next` with it.
Read(next) ==
    /\ Handling("loop", next)
    /\ held # NoChar
    /\ held' = NoChar
    /\ UNCHANGED <<console, pc, arrived, early>>

ReadBell ==
    /\ Read("loop")
    /\ held = Bell
    /\ UNCHANGED <<irqs, ahci, shell, heard>>

HasRoom == index <= BufferMax

\* uart_command_buffer_append
ReadPrinted ==
    /\ Read("loop")
    /\ held \in Printed /\ opened
    /\ text' = IF HasRoom THEN [text EXCEPT ![index] = held] ELSE text
    /\ index' = IF HasRoom THEN index + 1 ELSE index
    /\ typed' = IF Len(typed) <= BufferMax THEN Append(typed, held) ELSE typed
    /\ damaged' = (damaged \/ pc \in {"index", "memset"})
    /\ UNCHANGED <<irqs, ahci, opened>>

\* Before uart_shell_start the buffer is at NULL, in the first megabyte, which the
\* kernel's page table leaves out.  isr_exception_handler does not return.
ReadNowhere ==
    /\ Read("stopped")
    /\ held \in Printed /\ ~ opened
    /\ fault' = TRUE
    /\ UNCHANGED <<irqs, machine, found, driver, hba, mem, pages, others, at, call,
                   shell, heard>>

(* uart_shell_command_finalize *)

LineEnds ==
    /\ typed' = << >>
    /\ damaged' = (pc \in {"index", "memset"})

ClearBuffer ==
    /\ text' = [i \in Places |-> Nul]
    /\ index' = 0

\* A slip: the text need not end where the name does.
Begins(name) ==
    LET s == Commands[name] IN
    \A i \in 1 .. Len(s) : [text EXCEPT ![index] = Nul][i - 1] = s[i]

\* __uart_command_match: the text up to its first Nul, which the command's end
\* put behind it, is the name.
Matches(name) ==
    LET s == Commands[name]
        t == [text EXCEPT ![index] = Nul] IN
    /\ \A i \in 1 .. Len(s) : t[i - 1] = s[i]
    /\ t[Len(s)] = Nul

ReadEmptyLine ==
    /\ Read("loop")
    /\ held = Return /\ index = 0
    /\ LineEnds
    /\ UNCHANGED <<irqs, ahci, shell>>

\* A command that changes nothing but what is printed, or none.  (A list that is
\* under way may also be printed from what its unset parts were left with.)
ReadOtherLine ==
    /\ Read("loop")
    /\ held = Return /\ index # 0
    /\ \A name \in DiskCommands : ~ Matches(name)
    /\ ClearBuffer
    /\ LineEnds
    /\ UNCHANGED <<irqs, ahci, opened>>

\* The command lists what the boot code is in the middle of adding to.
ListUnderWay ==
    \/ pc = "counted" /\ Matches("pci")
    \/ pc = "linking" /\ Matches("lsp")

\* It goes through a pointer that is not set yet.
ReadUnderWay ==
    /\ Read("stopped")
    /\ held = Return /\ index # 0
    /\ ListUnderWay
    /\ text' = [text EXCEPT ![index] = Nul]
    /\ fault' = TRUE
    /\ UNCHANGED <<irqs, machine, found, driver, hba, mem, pages, others, at, call,
                   opened, index, heard>>

ReadDiskCommand(name) ==
    /\ Read("disk")
    /\ held = Return /\ index # 0
    /\ Matches(name)
    /\ text' = [text EXCEPT ![index] = Nul]
    /\ command' = name
    /\ at' = "load"
    /\ UNCHANGED <<irqs, machine, found, driver, hba, mem, pages, others,
                   port, buffer, good, fault, opened, index, heard>>

DiskStep ==
    /\ handler = "disk"
    /\ DriverStep
    /\ UNCHANGED <<irqs, serial>>

Wakes ==
    /\ handler = "disk"
    /\ Wake
    /\ UNCHANGED <<irqs, serial>>

DiskCommandEnds ==
    /\ Handling("disk", "loop")
    /\ at = "done"
    /\ at' = "idle"
    /\ ClearBuffer
    /\ LineEnds
    /\ UNCHANGED <<irqs, machine, found, driver, hba, mem, pages, others,
                   call, fault, console, held, pc, opened, arrived, early>>

\* A slip: the interrupt is not ended.
HandlerReturns ==
    /\ Handling("loop", "out")
    /\ held = NoChar
    /\ UNCHANGED <<irqs, ahci, console, held, pc, shell, arrived, heard, early>>

\* No character is left: end of interrupt, and back.
HandlerEnds ==
    /\ Handling("loop", "out")
    /\ held = NoChar
    /\ serviced' = {}
    /\ UNCHANGED <<routing, requested, ahci, console,
                   held, pc, shell, arrived, heard, early>>

HandlerStep ==
    \/ \E v \in Vectors : Interrupt(v)
    \/ ReadBell \/ ReadPrinted \/ ReadNowhere
    \/ ReadEmptyLine \/ ReadOtherLine \/ ReadUnderWay
    \/ \E name \in DiskCommands : ReadDiskCommand(name)
    \/ DiskStep \/ DiskCommandEnds
    \/ HandlerEnds

DevicesStep == ControllerStep /\ ~ fault /\ UNCHANGED <<irqs, serial>>

Next ==
    \/ BootStep \/ HandlerStep \/ Wakes \/ DevicesStep
    \/ \E c \in Printed \cup {Return, Bell} : Receive(c)

\* The processor goes on, and the controller answers a command.  Characters come
\* when they come, and nothing has to end a hlt with interrupts disabled.
Spec ==
    /\ Init /\ [][Next]_vars
    /\ WF_vars(BootStep) /\ WF_vars(HandlerStep)
    /\ \A p \in Ports :
        /\ WF_vars(EngineFollows(p) /\ ~ fault /\ UNCHANGED <<irqs, serial>>)
        /\ WF_vars(Answers(p) /\ ~ fault /\ UNCHANGED <<irqs, serial>>)

----------------------------------------------------------------------------

TypeOK ==
    /\ IrqTypeOK /\ AhciTypeOK
    /\ handler \in {"out", "loop", "disk", "stopped"}
    /\ index \in Places
    /\ \A i \in Places : text[i] \in Printed \cup {Nul}
    /\ uart.gsi \in Lines \cup {0} /\ uart.vector \in Vectors

\* Between two characters the command buffer holds the characters read since the
\* last line's end, as many as it has room for and each in its place, and a disk
\* command runs only on a line that is its name (shell.c), unless a character was
\* read while uart_shell_start was resetting the buffer.
LineIsTyped ==
    opened /\ ~ damaged /\ pc \notin {"index", "memset"} =>
        /\ index = Len(typed)
        /\ \A i \in 1 .. Len(typed) : text[i - 1] = typed[i]
        /\ handler = "disk" => typed = Commands[command]

\* The last port's mark has hit what routes the serial interrupt.
RoutingHit ==
    Coms \in machine.present /\ machine.beyond \in {"input_com_gsi", "input_idt_vector"}

\* A character that the UART holds is going to be read: its interrupt is requested
\* or being handled, and the console is deaf for good only if a character came
\* before its line was unmasked (serial_set_input_masked, behind the enabling of
\* the interrupt) or the routing was overwritten.
HeardUnlessEarly ==
    held # NoChar /\ pc \notin Starting /\ ~ fault =>
        \/ handler # "out"
        \/ uart.vector \in requested /\ serviced = {}
        \/ early \/ RoutingHit

\* No line is unmasked that leads to a vector nobody allocated or handles, unless
\* the ninth byte of available_com_ports is one of the objects that route the
\* interrupt (serial_console_enable writes it if there is an eighth port).
UnmaskedHasHandler ==
    \A l \in Lines : LeadsToHandler(l) \/ RoutingHit

\* The types; and the processor stops in a fault only where the driver explains it,
\* for a character that was read before uart_shell_start had a buffer for it, or for
\* a list of PCI functions or tasks asked for while its last entry is made.
FaultExplained ==
    /\ TypeOK /\ DriverFaultExplained
    /\ fault => at = "lost" \/ ~ opened \/ ListUnderWay

\* lsdisks announces that it "May take up to a minute..." (ahci.c:345): it ends, or
\* the processor stops in a fault.
DiskCommandsEnd == handler = "disk" ~> handler # "disk" \/ fault \/ torn
==============================================================================
