------------------------------ MODULE MCPaging ------------------------------
(***************************************************************************)
(* Three levels of eight entries: 512 pages.  Page 0 stands for the first  *)
(* megabyte; the pages behind it, to 47, are memory.  The context and one  *)
(* of the pages the program asks for, 194, share a leaf table.  The other, *)
(* 22, is where the task's topmost table lies: the kernel has it mapped    *)
(* for itself in the task's tree before the program asks for it.           *)
(***************************************************************************)
EXTENDS Paging, Bitwise

MCSpan == [l \in 0 .. Levels |-> Radix ^ (Levels - l)]
MCBitOr(a, b) == a | b

MCMemory == [i \in 1 .. 47 |-> i]
MCPool == 6 .. 47
MCKernelImage == <<1>>
MCSegments == <<[virt |-> 128, phys |-> 2]>>
MCIst == <<3>>
MCStack == <<4>>
MCFramebuffer == <<48, 49>>
=============================================================================
