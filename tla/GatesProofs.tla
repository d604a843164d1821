----------------------------- MODULE GatesProofs -----------------------------
(***************************************************************************)
(* Proofs about Gates, for any number of call sites and register values,   *)
(* and about Exceptions, for any set of exceptions.                        *)
(*                                                                         *)
(* The inductive invariant says at each place of the dispatcher which      *)
(* segment registers and table it runs on (Control), and where the         *)
(* program's registers are at that moment: in the processor, or in the     *)
(* copy of the context behind the task's table (Kept).  An exception finds *)
(* the processor as Control says, and the frame is followed word by word   *)
(* from there to the report (Framed).                                      *)
(***************************************************************************)
EXTENDS Exceptions, SequenceTheorems, TLAPS

\* Where the program runs, or nothing has been swapped yet.
Outside == {"open", "load", "user", "entry", "leave"}
\* Where the registers are still, or again, those of the program.
Untouched == {"entry", "swapped", "segments"}
Returning == {"restored", "leave"}
\* Where they are in the context, and where the result is in rax.
Away == {"call", "back", "table", "user ds"}
Answered == {"back", "table", "user ds"}

Control ==
    /\ pc = "boot" => gs = "zero" /\ kgs = "zero" /\ ds = "kernel" /\ cr3 = "kernel"
    /\ pc = "finalize" => gs = "zero" /\ kgs = "base" /\ ds = "kernel" /\ cr3 = "kernel"
    /\ pc \in Outside => gs = "zero" /\ kgs = "base" /\ ds = "user" /\ cr3 = "task"
    /\ pc \in Dispatch \ {"entry", "leave"} => gs = "base" /\ kgs = "zero"
    /\ pc \in {"swapped", "user ds", "restored"} => ds = "user" /\ cr3 = "task"
    /\ pc = "segments" => ds = "kernel" /\ cr3 = "task" /\ valid
    /\ pc = "call" => ds = "kernel" /\ cr3 = "kernel" /\ valid
    /\ pc = "back" => IF valid THEN ds = "kernel" /\ cr3 = "kernel"
                               ELSE ds = "user" /\ cr3 = "task"
    /\ pc = "table" => cr3 = "task" /\ ds = (IF valid THEN "kernel" ELSE "user")

Kept ==
    /\ pc = "user" => regs = want
    /\ pc \in Untouched => regs = want /\ regs.rcx = from
    /\ pc \in Away /\ valid =>
         /\ ctx["task"].regs.rcx = want.rcx /\ want.rcx = from
         /\ ctx["task"].regs.rest = want.rest
    /\ pc \in Answered /\ valid => regs.rax = want.rax
    /\ pc \in Returning /\ valid => regs = want /\ regs.rcx = from

Contexts == [{"kernel", "task"} -> [regs : Registers, cr3 : {"kernel", "task", Junk}]]

IInv == TypeOK /\ Control /\ Kept /\ ContextNamesTaskTable

----------------------------------------------------------------------------

\* The initial state satisfies the invariant.
LEMMA InitHolds == Init => IInv
<1> SUFFICES ASSUME Init PROVE IInv OBVIOUS
<1> USE DEF Init
<1>1. \A w \in Words : AllOf(w) \in Registers
  BY DEF AllOf, Registers
<1>2. {Zero, Junk, CtxAddress} \subseteq Words /\ Sites \subseteq Words
  BY DEF Words
<1>3. ctx \in Contexts
  BY <1>1, <1>2 DEF Contexts
<1>4. TypeOK
  BY <1>1, <1>2, <1>3 DEF TypeOK, Contexts, Starting
<1>5. Control /\ Kept
  BY DEF Control, Kept, Outside, Dispatch, Untouched, Returning, Away, Answered
<1>6. ContextNamesTaskTable
  BY WordsDiffer DEF ContextNamesTaskTable
<1> QED BY <1>4, <1>5, <1>6 DEF IInv

\* The first entry into the task keeps the invariant.
LEMMA StartKeeps == IInv /\ Start => IInv'
<1> SUFFICES ASSUME IInv, Start PROVE IInv' OBVIOUS
<1> USE DEF IInv, Go, segments, memory, call
<1>1. CASE TaskSelect
  BY <1>1 DEF TaskSelect, TypeOK, Control, Kept, ContextNamesTaskTable, Starting, Outside,
      Dispatch,
     Untouched, Returning, Away, Answered
<1>2. CASE LoadTask
  BY <1>2 DEF LoadTask, TypeOK, Control, Kept, ContextNamesTaskTable, Starting, Outside,
      Dispatch,
     Untouched, Returning, Away, Answered
<1>3. CASE CloseAgain
  BY <1>3 DEF CloseAgain, TypeOK, Control, Kept, ContextNamesTaskTable, Starting, Outside,
      Dispatch,
     Untouched, Returning, Away, Answered
<1>4. CASE EnterTask
  <2>1. ctx[cr3].regs \in Registers
    BY DEF TypeOK
  <2> QED
    BY <1>4, <2>1 DEF EnterTask, TypeOK, Control, Kept, ContextNamesTaskTable, Starting,
        Outside,
       Dispatch, Untouched, Returning, Away, Answered
<1> QED BY <1>1, <1>2, <1>3, <1>4 DEF Start

\* The program keeps the invariant.
LEMMA ProgramKeeps == IInv /\ Program => IInv'
<1> SUFFICES ASSUME IInv, Program PROVE IInv' OBVIOUS
<1> USE DEF IInv, Go, segments, memory, call
<1>1. ASSUME NEW v \in Values, Compute(v) PROVE IInv'
  <2>1. AllOf(v) \in Registers
    BY DEF AllOf, Registers, Words
  <2> QED
    BY <1>1, <2>1 DEF Compute, TypeOK, Control, Kept, ContextNamesTaskTable, Outside,
        Dispatch,
       Untouched, Returning, Away, Answered
<1>2. ASSUME NEW site \in Sites, NEW known \in BOOLEAN, Syscall(site, known) PROVE IInv'
  <2>1. regs' \in Registers /\ want' \in Registers /\ regs' = want' /\ regs'.rcx = site
    BY <1>2 DEF Syscall, TypeOK, Kept, Registers, Words
  <2> QED
    BY <1>2, <2>1 DEF Syscall, TypeOK, Control, Kept, ContextNamesTaskTable, Outside,
        Dispatch,
       Untouched, Returning, Away, Answered
<1>3. CASE RunNulled
  BY <1>3 DEF RunNulled, TypeOK, Control, Kept, ContextNamesTaskTable
<1> QED BY <1>1, <1>2, <1>3 DEF Program

\* The dispatcher keeps the invariant.
LEMMA DispatcherKeeps == IInv /\ Dispatcher => IInv'
<1> SUFFICES ASSUME IInv, Dispatcher PROVE IInv' OBVIOUS
<1> USE DEF IInv, Go, segments, memory, call
<1>1. CASE EntrySwap
  BY <1>1 DEF EntrySwap, SwapGs, TypeOK, Control, Kept, ContextNamesTaskTable, Outside,
      Dispatch,
     Untouched, Returning, Away, Answered
<1>2. CASE GenerateUd
  <2>1. regs' \in Registers
    BY <1>2 DEF GenerateUd, TypeOK, Registers, Words
  <2> QED
    BY <1>2, <2>1 DEF GenerateUd, TypeOK, Control, Kept, ContextNamesTaskTable, Outside,
        Dispatch,
       Untouched, Returning, Away, Answered
<1>3. CASE KernelSegments
  <2>1. cr3 = "task" /\ gs = "base" /\ kgs = "zero"
    BY <1>3 DEF KernelSegments, Control, Dispatch
  <2>2. /\ ctx' \in Contexts
        /\ ctx'["kernel"].cr3 = ctx["kernel"].cr3
        /\ ctx'["task"].cr3 = ctx["task"].cr3
    BY <1>3, <2>1 DEF KernelSegments, TypeOK, Contexts, Registers, Words
  <2>3. TypeOK' /\ ContextNamesTaskTable'
    BY <1>3, <2>2 DEF KernelSegments, TypeOK, Contexts, ContextNamesTaskTable, Dispatch
  <2>4. Control'
    BY <1>3, <2>1 DEF KernelSegments, Control, Outside, Dispatch
  <2>5. Kept'
    BY <1>3 DEF KernelSegments, Kept, Untouched, Returning, Away, Answered
  <2> QED BY <2>3, <2>4, <2>5
<1>4. CASE SaveAndSync
  <2>1. cr3 = "task" /\ ds = "kernel" /\ gs = "base" /\ kgs = "zero" /\ valid
    BY <1>4 DEF SaveAndSync, Control, Dispatch
  <2>2. regs = want /\ regs.rcx = from /\ regs \in Registers
    BY <1>4 DEF SaveAndSync, Kept, Untouched, TypeOK
  <2>3. /\ ctx' \in Contexts
        /\ ctx'["kernel"].cr3 = ctx["kernel"].cr3
        /\ ctx'["task"].cr3 = ctx["task"].cr3
        /\ ctx'["task"].regs.rcx = regs.rcx
        /\ ctx'["task"].regs.rest = regs.rest
    BY <1>4, <2>1, <2>2, ZenonT(60) DEF SaveAndSync, TypeOK, Contexts, Registers
  <2>4. TypeOK' /\ ContextNamesTaskTable'
    BY <1>4, <2>3 DEF SaveAndSync, TypeOK, Contexts, ContextNamesTaskTable, Dispatch
  <2>5. Control'
    BY <1>4, <2>1 DEF SaveAndSync, Control, Outside, Dispatch
  <2>6. Kept'
    BY <1>4, <2>2, <2>3 DEF SaveAndSync, Kept, Untouched, Returning, Away, Answered
  <2> QED BY <2>4, <2>5, <2>6
<1>5. ASSUME NEW result \in Values \cup {Zero}, Handle(result) PROVE IInv'
  <2>1. /\ regs' \in Registers /\ regs'.rax = result
        /\ want' \in Registers /\ want'.rax = result
        /\ want'.rcx = want.rcx /\ want'.rest = want.rest
    BY <1>5 DEF Handle, TypeOK, Registers, Words
  <2>2. TypeOK' /\ ContextNamesTaskTable'
    BY <1>5, <2>1 DEF Handle, TypeOK, ContextNamesTaskTable, Dispatch
  <2>3. Control'
    BY <1>5 DEF Handle, Control, Outside, Dispatch
  <2>4. Kept'
    BY <1>5, <2>1 DEF Handle, Kept, Untouched, Returning, Away, Answered
  <2> QED BY <2>2, <2>3, <2>4
<1>6. CASE TaskTable
  BY <1>6 DEF TaskTable, TypeOK, Control, Kept, ContextNamesTaskTable, Outside, Dispatch,
     Untouched, Returning, Away, Answered
<1>7. CASE UserSegments
  BY <1>7 DEF UserSegments, TypeOK, Control, Kept, ContextNamesTaskTable, Outside, Dispatch,
     Untouched, Returning, Away, Answered
<1>8. CASE RestoreRegisters
  <2>1. cr3 = "task"
    BY <1>8 DEF RestoreRegisters, Control
  <2>2. /\ regs' \in Registers /\ regs'.rax = regs.rax
        /\ regs'.rcx = ctx["task"].regs.rcx
        /\ regs'.rest = ctx["task"].regs.rest
    BY <1>8, <2>1 DEF RestoreRegisters, TypeOK, Registers
  <2>3. ASSUME valid PROVE regs' = want /\ regs'.rcx = from
    <3>1. regs'.rax = want.rax /\ regs'.rcx = want.rcx /\ regs'.rest = want.rest
      BY <1>8, <2>2, <2>3 DEF RestoreRegisters, Kept, Away, Answered
    <3>2. want.rcx = from
      BY <1>8, <2>3 DEF RestoreRegisters, Kept, Away
    <3> QED BY <2>2, <3>1, <3>2 DEF TypeOK, Registers
  <2>4. TypeOK' /\ ContextNamesTaskTable'
    BY <1>8, <2>2 DEF RestoreRegisters, TypeOK, ContextNamesTaskTable, Dispatch
  <2>5. Control'
    BY <1>8 DEF RestoreRegisters, Control, Outside, Dispatch
  <2>6. Kept'
    BY <1>8, <2>3 DEF RestoreRegisters, Kept, Untouched, Returning, Away, Answered
  <2> QED BY <2>4, <2>5, <2>6
<1>9. CASE ExitSwap
  BY <1>9 DEF ExitSwap, SwapGs, TypeOK, Control, Kept, ContextNamesTaskTable, Outside,
      Dispatch,
     Untouched, Returning, Away, Answered
<1>10. CASE Sysret
  BY <1>10 DEF Sysret, TypeOK, Registers, Control, Kept, ContextNamesTaskTable, Outside,
      Dispatch,
     Untouched, Returning, Away, Answered
<1> QED
  BY <1>1, <1>2, <1>3, <1>4, <1>5, <1>6, <1>7, <1>8, <1>9, <1>10 DEF Dispatcher

\* An interrupt keeps the invariant wherever it comes.
LEMMA InterruptKeeps == ASSUME NEW timer \in BOOLEAN, IInv, Interrupt(timer) PROVE IInv'
<1> USE DEF IInv, segments, memory, call
<1>1. CASE InterruptKernel(timer)
  BY <1>1, ZenonT(60) DEF InterruptKernel, Selects, TypeOK, Control, Kept,
      ContextNamesTaskTable
<1>2. CASE InterruptUnmapped(timer)
  BY <1>2, ZenonT(60) DEF InterruptUnmapped, TypeOK, Control, Kept, ContextNamesTaskTable
<1>3. CASE InterruptTask(timer)
  <2>1. cr3 = "task" /\ pc \in Outside
    BY <1>3 DEF InterruptTask, InterruptsOn, TypeOK, Control, Outside, Starting, Dispatch
  <2>2. /\ ctx' \in Contexts
        /\ ctx'["kernel"] = ctx["kernel"]
        /\ ctx'["task"].cr3 = "task"
        /\ ctx'["task"].regs = regs
    BY <1>3, <2>1 DEF InterruptTask, TypeOK, Contexts
  <2>3. cr3' = cr3 /\ regs' = regs
    BY <1>3, <2>1, <2>2 DEF InterruptTask, ContextNamesTaskTable
  <2>4. TypeOK' /\ ContextNamesTaskTable'
    BY <1>3, <2>2, <2>3 DEF InterruptTask, Selects, TypeOK, Contexts, ContextNamesTaskTable
  <2>5. Control'
    BY <1>3, <2>3 DEF InterruptTask, Control
  <2>6. Kept'
    BY <1>3, <2>1, <2>3, ZenonT(60) DEF InterruptTask, Kept, Outside, Untouched, Returning,
        Away, Answered
  <2> QED BY <2>4, <2>5, <2>6
<1>4. CASE InterruptMisled(timer)
  BY <1>4 DEF InterruptMisled, TypeOK, Control, Kept, ContextNamesTaskTable
<1> QED BY <1>1, <1>2, <1>3, <1>4 DEF Interrupt

\* Every step keeps the invariant.
LEMMA StepKeeps == IInv /\ [Next]_vars => IInv'
<1> SUFFICES ASSUME IInv, [Next]_vars PROVE IInv' OBVIOUS
<1>1. CASE Start
  BY <1>1, StartKeeps
<1>2. CASE Program
  BY <1>2, ProgramKeeps
<1>3. CASE Dispatcher
  BY <1>3, DispatcherKeeps
<1>4. ASSUME NEW timer \in BOOLEAN, Interrupt(timer) PROVE IInv'
  BY <1>4, InterruptKeeps
<1>5. CASE UNCHANGED vars
  <2>1. TypeOK' /\ ContextNamesTaskTable'
    BY <1>5 DEF vars, IInv, TypeOK, ContextNamesTaskTable
  <2>2. Control'
    BY <1>5 DEF vars, IInv, Control
  <2>3. Kept'
    BY <1>5 DEF vars, IInv, Kept
  <2> QED BY <2>1, <2>2, <2>3 DEF IInv
<1> QED BY <1>1, <1>2, <1>3, <1>4, <1>5 DEF Next

\* The invariant holds in every reachable state.
LEMMA Reachable == Spec => []IInv
<1> QED BY InitHolds, StepKeeps, PTL DEF Spec

----------------------------------------------------------------------------

\* The processor and the context keep their types, and the task is never left
\* waiting or dead by an interrupt.
THEOREM TypeCorrect == Spec => []TypeOK
<1>1. IInv => TypeOK
  BY DEF IInv
<1> QED BY <1>1, Reachable, PTL

\* No interrupt makes the context name another table than the task's, although
\* the stub and the dispatcher each see their own copy of it.
THEOREM ContextTable == Spec => []ContextNamesTaskTable
<1>1. IInv => ContextNamesTaskTable
  BY DEF IInv
<1> QED BY <1>1, Reachable, PTL

\* The program and the handlers of its calls each run on their own gs, segment
\* and table.
THEOREM Apart == Spec => []WorldsApart
<1>1. IInv => WorldsApart
  BY DEF IInv, Control, WorldsApart, Outside, Dispatch
<1> QED BY <1>1, Reachable, PTL

\* The program finds its registers as it left them, whatever interrupted it or
\* its calls.
THEOREM Survival == Spec => []RegistersSurvive
<1>1. IInv => RegistersSurvive
  BY DEF IInv, Kept, RegistersSurvive
<1> QED BY <1>1, Reachable, PTL

\* A call that is not refused returns to where it was made.
THEOREM Return == Spec => CallsReturnToCaller
<1>1. IInv /\ [Next]_vars => [pc = "leave" /\ pc' = "user" /\ valid => at' = from]_vars
  <2> SUFFICES ASSUME IInv, Next, pc = "leave", pc' = "user", valid PROVE at' = from
    OBVIOUS
  <2>1. CASE Sysret
    BY <2>1 DEF Sysret, IInv, Kept, Returning
  <2>2. CASE Start
    BY <2>2 DEF Start, TaskSelect, LoadTask, CloseAgain, EnterTask, Go
  <2>3. CASE Program
    BY <2>3 DEF Program, Compute, Syscall, RunNulled, Go
  <2>4. CASE Dispatcher /\ ~ Sysret
    BY <2>4 DEF Dispatcher, EntrySwap, GenerateUd, KernelSegments, SaveAndSync, Handle,
        TaskTable,
       UserSegments, RestoreRegisters, ExitSwap, Go
  <2>5. ASSUME NEW timer \in BOOLEAN, Interrupt(timer) PROVE FALSE
    BY <2>5 DEF Interrupt, InterruptKernel, InterruptUnmapped, InterruptTask,
        InterruptMisled
  <2> QED BY <2>1, <2>2, <2>3, <2>4, <2>5 DEF Next
<1> QED BY <1>1, Reachable, PTL DEF Spec, CallsReturnToCaller

----------------------------------------------------------------------------
(* Exceptions *)

\* What is on the stack behind the stub.
Entered == <<"vector", "error", "rip", "cs", "rflags", "rsp", "ss">>

WordNames ==
    {"cr4", "cr3", "cr2", "cr0", "r15", "r14", "r13", "r12", "r11", "r10", "r9", "r8",
     "rdi", "rsi", "rdx", "rcx", "rbx", "rax", "rbp", "vector", "error", "rip", "cs",
     "rflags", "rsp", "ss", "ds", "zero"}

InProgram == [gs |-> "zero", kgs |-> "base", ds |-> "user", cr3 |-> "task"]

\* From an exception of the program to its report.
Framed ==
    /\ stage = "quiet" => raiser = "nobody" /\ ~ nested
    /\ raiser = "program" /\ nested => told
    /\ raiser = "program" /\ ~ nested =>
        /\ stage = "stub" => words = Entered /\ cpu = InProgram
        /\ stage = "assembled" =>
             /\ words = <<"ds", "r15", "zero", "ds">> \o Layout
             /\ cpu = InProgram
        /\ stage = "called" => Frame = Layout /\ cpu.cr3 = "kernel"
        /\ stage \in {"report", "halted"} => told
        /\ stage # "wild"

\* What a list with a word pushed on it is.
LEMMA PushWord ==
    ASSUME NEW w \in WordNames, NEW s \in Seq(WordNames), NEW t \in Seq(WordNames),
           Len(t) = Len(s) + 1, t[1] = w, \A i \in 1 .. Len(s) : t[i + 1] = s[i]
    PROVE  Push(<<w>>, s) = t
<1>1. Reverse(<<w>>) = <<w>> /\ <<w>> \in Seq(WordNames)
  BY DEF Reverse
<1>2. /\ <<w>> \o s \in Seq(WordNames) /\ Len(<<w>> \o s) = Len(s) + 1
      /\ \A i \in 1 .. Len(s) + 1 : (<<w>> \o s)[i] = IF i = 1 THEN w ELSE s[i - 1]
  BY <1>1, ConcatProperties
<1>3. \A i \in 1 .. Len(s) + 1 : t[i] = IF i = 1 THEN w ELSE s[i - 1]
  <2> TAKE i \in 1 .. Len(s) + 1
  <2>1. CASE i = 1
    BY <2>1
  <2>2. CASE i # 1
    <3>1. i - 1 \in 1 .. Len(s) /\ (i - 1) + 1 = i
      BY <2>2
    <3> QED
      BY <2>2, <3>1
  <2> QED
    BY <2>1, <2>2
<1>4. <<w>> \o s = t
  BY <1>2, <1>3, SeqEqual
<1> QED
  BY <1>1, <1>4 DEF Push

\* With or without an error code, the stub leaves the same words.
LEMMA EnteredAlike == ASSUME NEW v \in Faults PROVE Stub(v, Trap(v)) = Entered
<1>1. v \in ErrorCodes <=> v \in ErrorStubs
  BY FaultsAssumption DEF ErrorCodes, ErrorStubs
<1> DEFINE trap == <<"rip", "cs", "rflags", "rsp", "ss">>
           coded == <<"error", "rip", "cs", "rflags", "rsp", "ss">>
<1>2. /\ trap \in Seq(WordNames) /\ Len(trap) = 5
      /\ coded \in Seq(WordNames) /\ Len(coded) = 6
      /\ Entered \in Seq(WordNames) /\ Len(Entered) = 7
      /\ "error" \in WordNames /\ "vector" \in WordNames
  BY DEF Entered, WordNames
<1>3. Push(<<"error">>, trap) = coded
  <2>1. Len(coded) = Len(trap) + 1 /\ coded[1] = "error"
    BY <1>2
  <2>2. \A i \in 1 .. Len(trap) : coded[i + 1] = trap[i]
    BY <1>2
  <2> HIDE DEF trap, coded
  <2> QED
    BY <1>2, <2>1, <2>2, PushWord
<1>4. Push(<<"vector">>, coded) = Entered
  <2>1. Len(Entered) = Len(coded) + 1 /\ Entered[1] = "vector"
    BY <1>2 DEF Entered
  <2>2. \A i \in 1 .. Len(coded) : Entered[i + 1] = coded[i]
    BY <1>2 DEF Entered
  <2> HIDE DEF coded
  <2> QED
    BY <1>2, <2>1, <2>2, PushWord
<1>5. CASE v \in ErrorStubs
  <2>1. Trap(v) = Push(<<"ss", "rsp", "rflags", "cs", "rip", "error">>, << >>)
    BY <1>1, <1>5 DEF Trap
  <2>2. Trap(v) = coded
    BY <2>1 DEF Push, Reverse
  <2> QED
    BY <1>4, <1>5, <2>2 DEF Stub
<1>6. CASE v \notin ErrorStubs
  <2>1. Trap(v) = Push(<<"ss", "rsp", "rflags", "cs", "rip">>, << >>)
    BY <1>1, <1>6 DEF Trap
  <2>2. Trap(v) = trap
    BY <2>1 DEF Push, Reverse
  <2> QED
    BY <1>3, <1>4, <1>6, <2>2 DEF Stub
<1> QED
  BY <1>5, <1>6

\* The frame is a sequence of names.
LEMMA LayoutNames == Layout \in Seq(WordNames)
<1>1. FrameControl \in Seq(WordNames)
  BY DEF FrameControl, WordNames
<1>2. FrameGeneral \in Seq(WordNames)
  BY DEF FrameGeneral, WordNames
<1>3. FrameBase \in Seq(WordNames)
  BY DEF FrameBase, WordNames
<1>4. FrameGeneral \o FrameBase \in Seq(WordNames)
  BY <1>2, <1>3, ConcatProperties
<1> QED
  BY <1>1, <1>4, ConcatProperties DEF Layout

\* rbp on top of what the stub left is the last part of the frame.
LEMMA BaseFrame == Push(<<"rbp">>, Entered) = FrameBase
<1>1. /\ Entered \in Seq(WordNames) /\ Len(Entered) = 7
      /\ FrameBase \in Seq(WordNames) /\ Len(FrameBase) = 8
      /\ "rbp" \in WordNames
  BY DEF Entered, FrameBase, WordNames
<1>2. Len(FrameBase) = Len(Entered) + 1 /\ FrameBase[1] = "rbp"
  BY <1>1 DEF FrameBase
<1>3. \A i \in 1 .. Len(Entered) : FrameBase[i + 1] = Entered[i]
  BY <1>1 DEF Entered, FrameBase
<1> QED
  BY <1>1, <1>2, <1>3, PushWord

\* What isr_xframe_assembler pushes is isr_xframe_t, and four words more.
LEMMA AssembledFrame ==
    Push(<<"ds", "zero", "r15", "ds">>,
      Push(ControlRegisters, Push(GeneralRegisters, Push(<<"rbp">>, Entered))))
    = <<"ds", "r15", "zero", "ds">> \o Layout
<1>1. Reverse(GeneralRegisters) = FrameGeneral
  BY DEF Reverse, GeneralRegisters, FrameGeneral
<1>2. Reverse(ControlRegisters) = FrameControl
  BY DEF Reverse, ControlRegisters, FrameControl
<1>3. Reverse(<<"ds", "zero", "r15", "ds">>) = <<"ds", "r15", "zero", "ds">>
  BY DEF Reverse
<1> QED
  BY <1>1, <1>2, <1>3, BaseFrame DEF Push, Layout

\* Without the two spilled words, the frame is where the handler is given it.
LEMMA FrameBelowTwo ==
    Tail(Tail(Tail(Tail(<<"ds", "r15", "zero", "ds">> \o Layout)))) = Layout
<1>1. \A s \in Seq(WordNames) :
        Tail(Tail(<<"ds", "r15", "zero", "ds">> \o s)) = <<"zero", "ds">> \o s
  <2>1. <<"ds", "r15", "zero", "ds">> \in Seq(WordNames)
    BY DEF WordNames
  <2> QED
    BY <2>1
<1>2. \A s \in Seq(WordNames) : Tail(Tail(<<"zero", "ds">> \o s)) = s
  <2>1. <<"zero", "ds">> \in Seq(WordNames)
    BY DEF WordNames
  <2> QED
    BY <2>1
<1> QED
  BY <1>1, <1>2, LayoutNames

\* Another exception in the handling of the first keeps the invariant, if the
\* first one has been told of.
LEMMA NestedKeeps ==
    ASSUME Framed, NEW v, NestedFault(v), stage # "quiet",
           raiser = "program" => told
    PROVE  Framed'
<1> QED
  BY DEF NestedFault, Raise, Framed

\* Every step of an exception keeps its invariant.
LEMMA ExceptionKeeps == ASSUME IInv, Framed, ExceptionStep PROVE Framed'
<1>1. ASSUME NEW v \in Faults, ProgramFault(v) PROVE Framed'
  <2>1. cpu' = InProgram
    BY <1>1 DEF ProgramFault, IInv, Control, Outside, InProgram
  <2>2. words' = Entered
    BY <1>1, EnteredAlike DEF ProgramFault, Raise
  <2>3. stage = "quiet" /\ stage' = "stub" /\ nested' = nested
    BY <1>1 DEF ProgramFault, Raise
  <2> QED
    BY <2>1, <2>2, <2>3 DEF Framed
<1>2. CASE KernelFault
  BY <1>2 DEF KernelFault, Raise, Framed
<1>3. CASE Assemble
  <2>1. /\ stage = "stub" /\ stage' = "assembled"
        /\ UNCHANGED <<cpu, raiser, nested, told>>
    BY <1>3 DEF Assemble
  <2>2. ASSUME raiser = "program", ~ nested
        PROVE  words' = <<"ds", "r15", "zero", "ds">> \o Layout
    BY <1>3, <2>1, <2>2, AssembledFrame DEF Assemble, Framed
  <2> QED
    BY <2>1, <2>2 DEF Framed
<1>4. CASE FromTask
  <2>1. /\ stage = "assembled" /\ words' = Tail(Tail(words))
        /\ UNCHANGED <<raiser, nested, told>>
    BY <1>4 DEF FromTask
  <2>2. stage' \in {"called", "wild"}
    BY <1>4 DEF FromTask
  <2>3. ASSUME raiser = "program", ~ nested
        PROVE  stage' = "called" /\ cpu'.cr3 = "kernel" /\ Frame' = Layout
    <3>1. words = <<"ds", "r15", "zero", "ds">> \o Layout /\ cpu = InProgram
      BY <2>1, <2>3 DEF Framed
    <3>2. stage' = "called" /\ cpu'.cr3 = "kernel"
      BY <1>4, <3>1 DEF FromTask, InProgram
    <3>3. Frame' = Layout
      BY <2>1, <3>1, FrameBelowTwo DEF Frame
    <3> QED
      BY <3>2, <3>3
  <2> QED
    BY <2>1, <2>2, <2>3 DEF Framed
<1>5. CASE FromKernel
  <2>1. ~ (raiser = "program" /\ ~ nested)
    BY <1>5 DEF FromKernel, Framed, InProgram
  <2> QED
    BY <1>5, <2>1 DEF FromKernel, Framed
<1>6. CASE MaskUnmapped
  <2>1. raiser = "program" => told
    BY <1>6 DEF MaskUnmapped, Framed
  <2>2. NestedFault(14) /\ stage # "quiet"
    BY <1>6 DEF MaskUnmapped
  <2> QED
    BY <2>1, <2>2, NestedKeeps
<1>7. CASE Report
  <2>1. raiser = "program" => told'
    BY <1>7 DEF Report, Framed
  <2> QED
    BY <1>7, <2>1 DEF Report, Framed
<1>8. ASSUME NEW v \in {13, 14}, TraceFaults(v) PROVE Framed'
  <2>1. raiser = "program" => told
    BY <1>8 DEF TraceFaults, Framed
  <2>2. NestedFault(v) /\ stage # "quiet"
    BY <1>8 DEF TraceFaults
  <2> QED
    BY <2>1, <2>2, NestedKeeps
<1>9. CASE Halt
  BY <1>9 DEF Halt, Framed
<1> QED
  BY <1>1, <1>2, <1>3, <1>4, <1>5, <1>6, <1>7, <1>8, <1>9 DEF ExceptionStep

\* The steps of an exception leave the state of Gates alone.
LEMMA ExceptionStutters == ExceptionStep => UNCHANGED vars
<1> QED
  BY DEF ExceptionStep, ProgramFault, KernelFault, Assemble, FromTask, FromKernel,
         MaskUnmapped, NestedFault, Raise, Report, TraceFaults, Halt

\* With exceptions, interrupts and system calls do what Gates says, so that its
\* theorems hold of the program that may raise them too.
THEOREM ExceptionsKeepToGates == ExceptionsSpec => Spec
<1>1. ExceptionsInit => Init
  BY DEF ExceptionsInit
<1>2. [ExceptionsNext]_<<vars, exception>> => [Next]_vars
  <2>1. UNCHANGED <<vars, exception>> => UNCHANGED vars
    OBVIOUS
  <2> QED
    BY <2>1, ExceptionStutters DEF ExceptionsNext
<1> QED
  BY <1>1, <1>2, PTL DEF ExceptionsSpec, Spec

\* An exception of the program is reported under its own label and with its own
\* registers before any other exception comes, whatever the exception and whatever
\* interrupts and calls came before.
THEOREM FaultsTold == ExceptionsSpec => []ProgramFaultsAreTold
<1>1. ExceptionsInit => Framed
  BY DEF ExceptionsInit, Framed
<1>2. IInv /\ Framed /\ [ExceptionsNext]_<<vars, exception>> => Framed'
  <2> SUFFICES ASSUME IInv, Framed, [ExceptionsNext]_<<vars, exception>> PROVE Framed'
    OBVIOUS
  <2>1. CASE ExceptionStep
    BY <2>1, ExceptionKeeps
  <2>2. CASE UNCHANGED exception
    BY <2>2 DEF exception, Framed, Frame
  <2> QED
    BY <2>1, <2>2 DEF ExceptionsNext
<1>3. Framed => ProgramFaultsAreTold
  BY DEF Framed, ProgramFaultsAreTold
<1> QED
  BY <1>1, <1>2, <1>3, ExceptionsKeepToGates, Reachable, PTL DEF ExceptionsSpec
=============================================================================
