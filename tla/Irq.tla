--------------------------------- MODULE Irq ---------------------------------
(***************************************************************************)
(* Interrupt vectors and the way of an interrupt to the processor: the     *)
(* vectors and handlers of idt.c, the redirection table of ioapic.c, and   *)
(* the requested and in-service bits of the local APIC (lapic.c).  The     *)
(* modules of the devices extend this one and act on its variables.        *)
(*                                                                         *)
(* Few vectors are ever allocated, lowest first, so all of them are in one *)
(* priority class: while one is in service no other is delivered.  Every   *)
(* gate is an interrupt gate: a handler runs with interrupts disabled.     *)
(***************************************************************************)
EXTENDS Integers

CONSTANTS
    Exceptions,     \* IDT_CPU_EXCEPTION_COUNT
    LastVector,     \* IDT_MAX_DESCRIPTORS - 1
    Lines,          \* the inputs of the I/O APIC
    NoHandler

ASSUME VectorsAssumption ==
    Exceptions \in Nat \ {0} /\ LastVector \in Nat /\ Exceptions <= LastVector

VARIABLES
    vectors,        \* the vectors that are taken
    handlers,       \* __routine_handlers; none: the gate is absent too
    redirects,      \* the redirection table: a vector and the mask of each line
    requested,      \* vectors requested of the processor, not yet delivered
    serviced        \* vectors delivered and not yet ended (EOI)

routing == <<vectors, handlers, redirects>>
pending == <<requested, serviced>>
irqs == <<routing, pending>>

Vectors == 0 .. LastVector

IrqInit ==
    /\ vectors = 0 .. Exceptions - 1
    /\ handlers = [v \in Vectors |-> NoHandler]
    /\ redirects = [l \in Lines |-> [vector |-> 0, masked |-> TRUE]]
    /\ requested = {}
    /\ serviced = {}

IrqTypeOK ==
    /\ vectors \subseteq Vectors
    /\ DOMAIN handlers = Vectors
    /\ redirects \in [Lines -> [vector : Vectors, masked : BOOLEAN]]
    /\ requested \subseteq Vectors /\ serviced \subseteq Vectors

(* idt.c *)

\* idt_allocate_vector: the lowest free vector, or 0 if none is.
FreeVector ==
    IF vectors = Vectors THEN 0
    ELSE CHOOSE v \in Vectors \ vectors : \A w \in Vectors \ vectors : v <= w

Installed(v, handler) == [handlers EXCEPT ![v] = handler]

FreeOf(v) ==
    /\ vectors' = vectors \ {v}
    /\ handlers' = Installed(v, NoHandler)

(* ioapic.c *)

\* A redirected line is masked, whatever it was before.
Redirected(l, v) == [redirects EXCEPT ![l] = [vector |-> v, masked |-> TRUE]]
Unmasked(l) == [redirects EXCEPT ![l].masked = FALSE]

(* The controllers *)

\* A rising edge on a line: the I/O APIC forgets it if the line is masked.
Edge(l) ==
    IF redirects[l].masked THEN requested ELSE requested \cup {redirects[l].vector}

\* Vectors below 16 are illegal: they are not delivered.
Deliverable(v) == v \in requested /\ v >= Exceptions /\ serviced = {}

\* The processor takes the interrupt of a vector.
Deliver(v) ==
    /\ requested' = requested \ {v}
    /\ serviced' = {v}

\* An edge-triggered line that is unmasked leads to a handler of its own.
LeadsToHandler(l) ==
    \/ redirects[l].masked
    \/ /\ redirects[l].vector \in vectors \ (0 .. Exceptions - 1)
       /\ handlers[redirects[l].vector] # NoHandler
==============================================================================
