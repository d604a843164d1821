SPECIFICATION Spec
CONSTANTS
    Exceptions = 2
    LastVector = 4
    Lines = {1, 3, 4}
    NoHandler = NoHandler
    PortCount = 3
    MappedPorts = 2
    Machines <- MCDisks
    LastPage = 24
    MaxGiven = 2
    Coms = 3
    Return = "cr"
    Bell = "bell"
    Printed = {"d", "t"}
    Commands <- MCCommands
    BufferMax = 1
    MaxTyped = 2
PROPERTIES
    DiskCommandsEnd
CHECK_DEADLOCK FALSE
