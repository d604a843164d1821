------------------------------- MODULE MCPmm -------------------------------
(* The physical memory manager over a few pages.  One memory map ends in a *)
(* region the manager must not use, as firmware maps usually do; the other *)
(* ends in free memory, so that every operation meets the end of the list. *)
EXTENDS Pmm

EndsBad  == <<Sec(0, 1, BAD), Sec(1, 1, USED), Sec(2, 4, FREE), Sec(6, 1, BAD)>>
EndsFree == <<Sec(0, 1, BAD), Sec(1, 2, FREE), Sec(3, 1, USED), Sec(4, 3, FREE)>>

MCBootSections == {EndsBad, EndsFree}

\* Only the map that ends in firmware.
MCFirmwareLast == {EndsBad}
=============================================================================
