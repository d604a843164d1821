SPECIFICATION Spec
CONSTANTS
    Exceptions = 2
    LastVector = 4
    Lines = {1, 3, 4}
    NoHandler = NoHandler
    PortCount = 3
    MappedPorts = 2
    Machines <- MCMachines
    LastPage = 24
    MaxGiven = 2
    Coms = 3
    Return = "cr"
    Bell = "bell"
    Printed = {"d", "t"}
    Commands <- MCCommands
    BufferMax = 1
    MaxTyped = 4
INVARIANTS
    LineIsTyped
    HeardUnlessEarly
    UnmaskedHasHandler
    FaultExplained
    TrueMeansRead
    PagesApart
PROPERTIES
    EnginesStandStill
    ReadsEnd
CHECK_DEADLOCK FALSE
