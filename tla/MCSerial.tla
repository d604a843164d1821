------------------------------ MODULE MCSerial ------------------------------
EXTENDS Serial, TLC

MCCommands ==
    [lsdisks |-> <<"d">>, disktest |-> <<"t">>, pci |-> <<"d", "d">>, lsp |-> <<"t", "t">>]

Machine(controller, implemented, zero, one, running, busy, present, beyond) ==
    [controller |-> controller, implemented |-> implemented,
     kind |-> (0 :> zero @@ 1 :> one @@ 2 :> "none"),
     running |-> running, busy |-> busy, present |-> present, beyond |-> beyond]

\* Disk controllers behind one COM port: every use of two ports, a firmware that left
\* the engines running, a drive that is busy, and a port behind the page mapped.
MCDisks ==
    { Machine("ahci", {0, 1}, "SATA", "none", TRUE, {0}, {1}, "other"),
      Machine("ahci", {0, 1}, "SATAPI", "none", FALSE, {}, {1}, "other"),
      Machine("ahci", {0, 1}, "SATA", "SATA", FALSE, {}, {1}, "other"),
      Machine("ahci", {0, 2}, "SATA", "none", FALSE, {}, {1}, "other") }

\* Without a controller, every set of COM ports that is probed differently, with the
\* two objects behind their table that a mark changes and one that it does not (as
\* it is with the rest); and a controller that is never used.
MCConsoles ==
    { Machine("none", {}, "none", "none", FALSE, {}, p, b) :
        p \in {{}, {3}, {1, 3}, {2, 3}},
        b \in {"_input_masked", "input_com_gsi", "input_idt_vector"} }
    \cup { Machine("no_bar", {}, "none", "none", FALSE, {}, {1}, "other") }

MCMachines == MCDisks \cup MCConsoles
=============================================================================
