SPECIFICATION ExceptionsSpec
CONSTANTS
    Sites = {s1, s2}
    Values = {v1, v2}
    Zero = Zero
    Junk = Junk
    CtxAddress = CtxAddress
    Faults = {6, 13, 14}
INVARIANTS
    RegistersSurvive
    WorldsApart
    ProgramFaultsAreTold
PROPERTIES
    CallsReturnToCaller
CHECK_DEADLOCK FALSE
