-------------------------------- MODULE Gates --------------------------------
(***************************************************************************)
(* The ways into the kernel and back to the one task: the interrupt stub   *)
(* (isr.s), the system call dispatcher (handler.s), and the first entry    *)
(* into the task (task.c, task.s).                                         *)
(*                                                                         *)
(* Interrupts are enabled in all of it but for two instruction sequences   *)
(* of the first entry: no flag mask is ever set for the syscall            *)
(* instruction.  Each step of the dispatcher below ends where a register   *)
(* changes that an interrupt looks at; an interrupt, from stub to iretq,   *)
(* is one step, since handlers run with interrupts disabled.               *)
(*                                                                         *)
(* The task's context is one address but two places in memory: the task's  *)
(* page table maps the page to the physical page 0 (task.c:62 looks it up  *)
(* in the table under construction), the kernel's maps it to the heap.     *)
(*                                                                         *)
(* rcx is kept apart from the other registers: syscall puts the return     *)
(* address there, and sysret takes it from there.  rax stands for rdx too: *)
(* both come back from the handler of the call.                            *)
(***************************************************************************)
EXTENDS Naturals

CONSTANTS
    Sites,          \* return addresses of the program's system calls
    Values,         \* what else the program's registers may hold
    Zero,           \* 0
    Junk,           \* what nobody has initialised, and what kernel code leaves
    CtxAddress      \* the address of the task's context

ASSUME WordsDiffer ==
    /\ {Zero, Junk, CtxAddress} \cap (Sites \cup Values) = {}
    /\ Sites \cap Values = {}
    /\ Zero # Junk /\ Junk # CtxAddress /\ Zero # CtxAddress
    /\ Junk \notin {"kernel", "task"}

Words == Sites \cup Values \cup {Zero, Junk, CtxAddress}
Registers == [rax : Words, rcx : Words, rest : Words]
AllOf(v) == [rax |-> v, rcx |-> v, rest |-> v]

VARIABLES
    pc,         \* where the processor is, handlers of interrupts apart
    gs,         \* IA32_GS_BASE: the task's gs_kernel_base_t or 0
    kgs,        \* IA32_KERNEL_GS_BASE
    ds,         \* the data segment, "kernel" (0x10) or "user" (0x1B)
    cr3,        \* whose page table is loaded, "kernel" or "task"
    regs,       \* the general registers
    ctx,        \* task_context_t, as seen through each of the two page tables
    state,      \* the task's state
    from,       \* the site of the system call under way, or of the last one
    valid,      \* whether its number is below nsyscalls
    at,         \* where the program continues
    nulled,     \* sites whose code .generate_ud has overwritten
    want,       \* ghost: the registers the program reckons with
    lost        \* the processor stopped in an exception, or runs wild

vars == <<pc, gs, kgs, ds, cr3, regs, ctx, state, from, valid, at, nulled, want,
          lost>>
segments == <<gs, kgs, ds>>
memory == <<ctx, state, nulled>>
call == <<from, valid>>

\* The program has not been entered yet.
Starting == {"boot", "finalize", "open", "load"}
\* syscall_dispatch, from before its first swapgs to its sysret.
Dispatch == {"entry", "swapped", "segments", "call", "back", "table", "user ds",
             "restored", "leave"}

Init ==
    /\ pc = "boot"
    /\ gs = "zero" /\ kgs = "zero"
    /\ ds = "kernel" /\ cr3 = "kernel"
    /\ regs = AllOf(Junk)
    /\ ctx = [kernel |-> [regs |-> AllOf(Zero), cr3 |-> "task"],
              task |-> [regs |-> AllOf(Junk), cr3 |-> Junk]]
    /\ state = "sleeping"
    /\ from \in Sites /\ valid = TRUE
    /\ at = Zero
    /\ nulled = {}
    /\ want = AllOf(Junk)
    /\ lost = FALSE

SwapGs == gs' = kgs /\ kgs' = gs

Go(here, there) ==
    /\ ~ lost
    /\ pc = here
    /\ pc' = there

----------------------------------------------------------------------------
(* The first entry into the task: task_select, _finalize_task_switch *)

TaskSelect ==
    /\ Go("boot", "finalize")
    /\ gs' = "zero" /\ kgs' = "base"
    /\ UNCHANGED <<ds, cr3, regs, memory, call, at, want, lost>>

\* Up to sti and pushfq, behind which an interrupt may come.
LoadTask ==
    /\ Go("finalize", "open")
    /\ cr3' = ctx["kernel"].cr3
    /\ ds' = "user"
    /\ UNCHANGED <<gs, kgs, regs, memory, call, at, want, lost>>

CloseAgain ==
    /\ Go("open", "load")
    /\ UNCHANGED <<segments, cr3, regs, memory, call, at, want, lost>>

EnterTask ==
    /\ Go("load", "user")
    /\ regs' = ctx[cr3].regs
    /\ want' = regs'
    /\ UNCHANGED <<segments, cr3, memory, call, at, lost>>

(* The program *)

Compute(v) ==
    /\ Go("user", "user")
    /\ at \notin nulled
    /\ regs' = AllOf(v)
    /\ want' = regs'
    /\ UNCHANGED <<segments, cr3, memory, call, at, lost>>

\* syscall, with the number of a handler or one the dispatcher refuses.
Syscall(site, known) ==
    /\ Go("user", "entry")
    /\ at \notin nulled
    /\ from' = site /\ valid' = known
    /\ regs' = [regs EXCEPT !.rcx = site]
    /\ want' = [want EXCEPT !.rcx = site]
    /\ UNCHANGED <<segments, cr3, memory, at, lost>>

\* The program runs into what .generate_ud wrote: with 0 in rax it faults and
\* isr_exception_handler stops the machine, with another value it runs wild.
RunNulled ==
    /\ ~ lost
    /\ pc = "user" /\ at \in nulled
    /\ lost' = TRUE
    /\ UNCHANGED <<pc, segments, cr3, regs, memory, call, at, want>>

(* syscall_dispatch, syscall_switch_kernel, syscall_switch_user *)

EntrySwap ==
    /\ Go("entry", "swapped")
    /\ SwapGs
    /\ UNCHANGED <<ds, cr3, regs, memory, call, at, want, lost>>

\* .generate_ud
GenerateUd ==
    /\ ~ valid
    /\ Go("swapped", "back")
    /\ nulled' = nulled \cup {from}
    /\ regs' = [regs EXCEPT !.rax = Zero]
    /\ UNCHANGED <<segments, cr3, ctx, state, call, at, want, lost>>

\* The address of the context is stored where rax was meant to be.
KernelSegments ==
    /\ valid
    /\ Go("swapped", "segments")
    /\ ds' = "kernel"
    /\ ctx' = [ctx EXCEPT ![cr3].regs.rax = CtxAddress]
    /\ UNCHANGED <<gs, kgs, cr3, regs, state, nulled, call, at, want, lost>>

\* A slip: the registers are saved when the kernel's table is loaded.
SaveAfterSync ==
    /\ Go("segments", "call")
    /\ ctx' = [ctx EXCEPT !["kernel"].regs.rcx = regs.rcx, !["kernel"].regs.rest = regs.rest]
    /\ cr3' = "kernel"
    /\ UNCHANGED <<segments, regs, state, nulled, call, at, want, lost>>

\* The registers are saved while the task's table is still loaded.
SaveAndSync ==
    /\ Go("segments", "call")
    /\ ctx' = [ctx EXCEPT ![cr3].regs.rcx = regs.rcx, ![cr3].regs.rest = regs.rest]
    /\ cr3' = "kernel"
    /\ UNCHANGED <<segments, regs, state, nulled, call, at, want, lost>>

\* The handler of the call.
Handle(result) ==
    /\ Go("call", "back")
    /\ regs' = [rax |-> result, rcx |-> Junk, rest |-> Junk]
    /\ want' = [want EXCEPT !.rax = result]
    /\ UNCHANGED <<segments, cr3, memory, call, at, lost>>

\* The context is read through the table that is loaded: for a call that was
\* refused that is the task's, where nothing may have been stored yet.
TaskTable ==
    /\ Go("back", "table")
    /\ cr3' = IF ctx[cr3].cr3 = "task" THEN "task" ELSE cr3
    /\ lost' = (ctx[cr3].cr3 # "task")
    /\ UNCHANGED <<segments, regs, memory, call, at, want>>

UserSegments ==
    /\ Go("table", "user ds")
    /\ ds' = "user"
    /\ UNCHANGED <<gs, kgs, cr3, regs, memory, call, at, want, lost>>

\* A slip: the registers are left as the handler of the call left them.
RestoreNothing ==
    /\ Go("user ds", "restored")
    /\ UNCHANGED <<segments, cr3, regs, memory, call, at, want, lost>>

\* rax and rdx, as the handler left them, are kept on the stack.
RestoreRegisters ==
    /\ Go("user ds", "restored")
    /\ regs' = [ctx[cr3].regs EXCEPT !.rax = regs.rax]
    /\ UNCHANGED <<segments, cr3, memory, call, at, want, lost>>

\* A slip: the second swapgs is left out.
ExitUnswapped ==
    /\ Go("restored", "leave")
    /\ UNCHANGED <<segments, cr3, regs, memory, call, at, want, lost>>

ExitSwap ==
    /\ Go("restored", "leave")
    /\ SwapGs
    /\ UNCHANGED <<ds, cr3, regs, memory, call, at, want, lost>>

\* The program may reckon with nothing after a call that was refused.
Sysret ==
    /\ Go("leave", "user")
    /\ at' = regs.rcx
    /\ want' = IF valid THEN want ELSE regs
    /\ UNCHANGED <<segments, cr3, regs, memory, call, lost>>

(* irq_stub: isr_save_task_context, the handler, isr_restore_task_context *)

InterruptsOn == ~ lost /\ pc \notin {"finalize", "load"}

\* __local_timer_builtin_handler goes on to task_select_next, which selects the
\* only task again, if the stub or the dispatcher has swapped gs.
Selects(timer, base, kernelBase) == timer /\ base # "zero" /\ kernelBase = "zero"

\* A slip: task_select_next leaves the only task waiting.
InterruptKernelWaiting(timer) ==
    /\ InterruptsOn
    /\ ds = "kernel" /\ cr3 = "kernel"
    /\ state' = IF Selects(timer, gs, kgs) THEN "waiting" ELSE state
    /\ UNCHANGED <<pc, segments, cr3, regs, ctx, nulled, call, at, want, lost>>

\* .no_task: the stack keeps the registers.
InterruptKernel(timer) ==
    /\ InterruptsOn
    /\ ds = "kernel" /\ cr3 = "kernel"
    /\ state' = IF Selects(timer, gs, kgs) THEN "execution" ELSE state
    /\ UNCHANGED <<pc, segments, cr3, regs, ctx, nulled, call, at, want, lost>>

\* .no_task, on the task's table: neither the local APIC, which every handler
\* writes to, nor the list of tasks is mapped there.
InterruptUnmapped(timer) ==
    /\ InterruptsOn
    /\ ds = "kernel" /\ cr3 = "task"
    /\ lost' = TRUE
    /\ UNCHANGED <<pc, segments, cr3, regs, memory, call, at, want>>

\* .yes_task, with gs as the program had it: the context is saved through the
\* task's table, its cr3 read through the kernel's, the rest through the task's.
InterruptTask(timer) ==
    /\ InterruptsOn
    /\ ds = "user" /\ gs = "zero"
    /\ ctx' = [ctx EXCEPT ![cr3] = [regs |-> regs, cr3 |-> cr3]]
    /\ state' = IF Selects(timer, kgs, gs) THEN "execution" ELSE state
    /\ cr3' = ctx'["kernel"].cr3
    /\ regs' = ctx'[cr3'].regs
    /\ UNCHANGED <<pc, segments, nulled, call, at, want, lost>>

\* .yes_task, with gs already swapped: the second swapgs makes it 0, and the
\* context is looked for at address 0x20.
InterruptMisled(timer) ==
    /\ InterruptsOn
    /\ ds = "user" /\ gs # "zero"
    /\ lost' = TRUE
    /\ UNCHANGED <<pc, segments, cr3, regs, memory, call, at, want>>

Interrupt(timer) ==
    \/ InterruptKernel(timer)
    \/ InterruptUnmapped(timer)
    \/ InterruptTask(timer)
    \/ InterruptMisled(timer)

Dispatcher ==
    \/ EntrySwap \/ GenerateUd \/ KernelSegments \/ SaveAndSync
    \/ \E result \in Values \cup {Zero} : Handle(result)
    \/ TaskTable \/ UserSegments \/ RestoreRegisters \/ ExitSwap \/ Sysret

Start == TaskSelect \/ LoadTask \/ CloseAgain \/ EnterTask

Program ==
    \/ \E v \in Values : Compute(v)
    \/ \E site \in Sites, known \in BOOLEAN : Syscall(site, known)
    \/ RunNulled

Next ==
    \/ Start
    \/ Program
    \/ Dispatcher
    \/ \E timer \in BOOLEAN : Interrupt(timer)

Spec == Init /\ [][Next]_vars

----------------------------------------------------------------------------
(* Correctness *)

TypeOK ==
    /\ pc \in Starting \cup Dispatch \cup {"user"}
    /\ gs \in {"zero", "base"} /\ kgs \in {"zero", "base"}
    /\ ds \in {"kernel", "user"} /\ cr3 \in {"kernel", "task"}
    /\ regs \in Registers /\ want \in Registers
    /\ ctx \in [{"kernel", "task"} -> [regs : Registers, cr3 : {"kernel", "task", Junk}]]
    /\ state \in {"sleeping", "execution"}
    /\ from \in Sites /\ valid \in BOOLEAN
    /\ at \in Words
    /\ nulled \subseteq Sites
    /\ lost \in BOOLEAN

\* System calls, and the interrupts that come in them and do not stop the
\* machine, leave the program the registers it had, but for the result in rax,
\* unless the call was refused.
RegistersSurvive == pc = "user" => regs = want

\* Whatever interrupts came before: the program runs on its own gs, segment and
\* table, and the handler of a call on the kernel's, with gs at the base where
\* it finds its caller's context.
WorldsApart ==
    /\ pc = "user" => gs = "zero" /\ kgs = "base" /\ ds = "user" /\ cr3 = "task"
    /\ pc = "call" => gs = "base" /\ kgs = "zero" /\ ds = "kernel" /\ cr3 = "kernel"

\* A call returns to where it was made, whatever the context holds from earlier
\* calls and interrupts, unless it was refused.
CallsReturnToCaller == [][pc = "leave" /\ pc' = "user" /\ valid => at' = from]_vars

\* pmap, kb_man and fb_req take the task's table from the context as the kernel
\* sees it: no interrupt ever stores another one there, and what interrupts
\* store through the task's table is the task's table.
ContextNamesTaskTable ==
    /\ ctx["kernel"].cr3 = "task"
    /\ ctx["task"].cr3 # "kernel"

----------------------------------------------------------------------------
(* What comments in the code say, and the code does not do. *)

\* isr.s:94 "if ds == 0x10, we are in kernel mode", isr.s:133 "interrupting
\* kernel": the stub that does not find the kernel's segment finds the
\* program's gs.
UserSegmentMeansUserGs == InterruptsOn /\ ds = "user" => gs = "zero"

=============================================================================
