----------------------------- MODULE Exceptions -----------------------------
(***************************************************************************)
(* Exceptions (isr.s, isr.c): what the processor, the stub of an exception *)
(* and isr_xframe_assembler push, and the report isr_exception_handler     *)
(* makes of it.  Composed with Gates: an exception of the program comes    *)
(* where the program runs, one of the kernel where an interrupt has found  *)
(* what Gates calls lost.                                                  *)
(*                                                                         *)
(* The handler never returns and exceptions disable interrupts, so that    *)
(* the state of Gates stays what it was at the exception; what the         *)
(* processor goes on with is in cpu.  A word on the stack is the name of   *)
(* what it holds a copy of: a register as it was at the exception,         *)
(* "vector", "error" (an error code, or 0 where there is none).            *)
(***************************************************************************)
EXTENDS Gates, Sequences, SequencesExt

CONSTANTS
    Faults      \* the exceptions a program can raise

\* No instruction of a program raises a double fault; control protection (21)
\* and the exceptions of secure virtual machines (29, 30) are never enabled.
ASSUME FaultsAssumption == Faults \subseteq 0 .. 31 \ {8, 21, 29, 30}

VARIABLES
    stage,      \* where the exception is, "quiet" as long as there is none
    cpu,        \* gs, kgs, ds and cr3 from the exception on
    words,      \* the words on the stack of exceptions, the last pushed first
    raiser,     \* who raised the first exception, "program" or "kernel"
    nested,     \* another one came in its handling
    told        \* ghost: a report has been begun of the exception that it names

exception == <<stage, cpu, words, raiser, nested, told>>

\* Pushing the words of a list, the first one first.
Push(list, stack) == Reverse(list) \o stack

\* isr_xframe_t, by rising address.
FrameControl == <<"cr4", "cr3", "cr2", "cr0">>
FrameGeneral == <<"r15", "r14", "r13", "r12", "r11", "r10", "r9", "r8",
                  "rdi", "rsi", "rdx", "rcx", "rbx", "rax">>
FrameBase == <<"rbp", "vector", "error", "rip", "cs", "rflags", "rsp", "ss">>
Layout == FrameControl \o (FrameGeneral \o FrameBase)

\* pushagrd and pushacrd
GeneralRegisters ==
    <<"rax", "rbx", "rcx", "rdx", "rsi", "rdi",
      "r8", "r9", "r10", "r11", "r12", "r13", "r14", "r15">>
ControlRegisters == <<"cr0", "cr2", "cr3", "cr4">>

\* The exceptions with a code, as the processor and as the list of stubs has it.
ErrorCodes == {8, 10, 11, 12, 13, 14, 17, 21, 29, 30}
ErrorStubs == {8, 10, 11, 12, 13, 14, 17, 30}

\* What the processor pushes.
Trap(v) ==
    Push(IF v \in ErrorCodes THEN <<"ss", "rsp", "rflags", "cs", "rip", "error">>
         ELSE <<"ss", "rsp", "rflags", "cs", "rip">>, << >>)

\* isr_no_err_stub pushes 0 where the processor has pushed no code, isr_err_stub
\* does not; r15 is pushed and popped again.
Stub(v, stack) ==
    Push(<<"vector">>, IF v \in ErrorStubs THEN stack ELSE Push(<<"error">>, stack))

ExceptionsInit ==
    /\ Init
    /\ stage = "quiet"
    /\ cpu = [gs |-> gs, kgs |-> kgs, ds |-> ds, cr3 |-> cr3]
    /\ words = << >>
    /\ raiser = "nobody" /\ nested = FALSE /\ told = FALSE

----------------------------------------------------------------------------

\* The gate of every exception names one stack, which is used from its top each
\* time, whatever an exception under way has there.
Raise(v) ==
    /\ stage' = "stub"
    /\ words' = Stub(v, Trap(v))
    /\ UNCHANGED <<vars, told>>

ProgramFault(v) ==
    /\ stage = "quiet" /\ pc = "user"
    /\ Raise(v)
    /\ cpu' = [gs |-> gs, kgs |-> kgs, ds |-> ds, cr3 |-> cr3]
    /\ raiser' = "program"
    /\ UNCHANGED nested

\* TaskTable has loaded what is no table: the processor resets.
NoTable == pc = "table" /\ ds = "user" /\ ctx["task"].cr3 # "task"

\* The page fault of a handler that InterruptUnmapped or InterruptMisled tells of.
KernelFault ==
    /\ stage = "quiet" /\ lost /\ pc # "user" /\ ~ NoTable
    /\ Raise(14)
    /\ cpu' = IF ds = "kernel" THEN [gs |-> gs, kgs |-> kgs, ds |-> ds, cr3 |-> cr3]
              ELSE [gs |-> kgs, kgs |-> gs, ds |-> "kernel", cr3 |-> cr3]
    /\ raiser' = "kernel"
    /\ UNCHANGED nested

NestedFault(v) ==
    /\ Raise(v)
    /\ nested' = TRUE
    /\ UNCHANGED <<cpu, raiser>>

(* isr_xframe_assembler *)

\* Up to the branch: rax holds ds by then.
Assemble ==
    /\ stage = "stub"
    /\ stage' = "assembled"
    /\ words' = Push(<<"ds", "zero", "r15", "ds">>,
                 Push(ControlRegisters, Push(GeneralRegisters, Push(<<"rbp">>, words))))
    /\ UNCHANGED <<vars, cpu, raiser, nested, told>>

\* A slip: the two spilled registers stay on the stack.
FromTaskSpilled ==
    /\ stage = "assembled" /\ cpu.ds = "user"
    /\ stage' = IF cpu.kgs = "base" THEN "called" ELSE "wild"
    /\ cpu' = [gs |-> cpu.kgs, kgs |-> cpu.gs, ds |-> "kernel",
               cr3 |-> IF cpu.kgs = "base" THEN "kernel" ELSE cpu.cr3]
    /\ UNCHANGED <<vars, words, raiser, nested, told>>

\* .yes_task: the two spilled registers are popped, and isr_save_task_context
\* finds the context through gs and loads the kernel's table.
FromTask ==
    /\ stage = "assembled" /\ cpu.ds = "user"
    /\ stage' = IF cpu.kgs = "base" THEN "called" ELSE "wild"
    /\ cpu' = [gs |-> cpu.kgs, kgs |-> cpu.gs, ds |-> "kernel",
               cr3 |-> IF cpu.kgs = "base" THEN "kernel" ELSE cpu.cr3]
    /\ words' = Tail(Tail(words))
    /\ UNCHANGED <<vars, raiser, nested, told>>

\* .no_task: they stay on the stack.
FromKernel ==
    /\ stage = "assembled" /\ cpu.ds = "kernel"
    /\ stage' = "called"
    /\ UNCHANGED <<vars, cpu, words, raiser, nested, told>>

(* isr_exception_handler *)

\* The frame it is given is two words above the stack pointer.
Frame == Tail(Tail(words))

\* Masking the serial line, if there is one, needs the I/O APIC, which only the
\* kernel's table maps.
MaskUnmapped ==
    /\ stage = "called" /\ cpu.cr3 = "task"
    /\ NestedFault(14)

\* The label of the exception is printed.
Report ==
    /\ stage = "called"
    /\ stage' = "report"
    /\ told' = (told \/ Frame = Layout)
    /\ UNCHANGED <<vars, cpu, words, raiser, nested>>

\* __print_interrupt_stacktrace follows what the frame has for rbp, which need
\* not lead anywhere; the same goes for the label where the frame is another.
TraceFaults(v) ==
    /\ stage = "report"
    /\ NestedFault(v)

\* The trace ends, the registers are dumped, and the processor halts for ever.
Halt ==
    /\ stage = "report"
    /\ stage' = "halted"
    /\ UNCHANGED <<vars, cpu, words, raiser, nested, told>>

ExceptionStep ==
    \/ \E v \in Faults : ProgramFault(v)
    \/ KernelFault
    \/ Assemble \/ FromTask \/ FromKernel
    \/ MaskUnmapped \/ Report
    \/ \E v \in {13, 14} : TraceFaults(v)
    \/ Halt

ExceptionsNext ==
    \/ stage = "quiet" /\ Next /\ UNCHANGED exception
    \/ ExceptionStep

ExceptionsSpec == ExceptionsInit /\ [][ExceptionsNext]_<<vars, exception>>

----------------------------------------------------------------------------
(* Correctness *)

\* Whatever system calls and interrupts came before, an exception of the program
\* is reported as what it is, every register of the dump under its own name,
\* before any other exception comes.
ProgramFaultsAreTold ==
    raiser = "program" /\ (nested \/ stage \in {"report", "halted", "wild"}) => told
=============================================================================
