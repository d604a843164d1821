SPECIFICATION Spec
CONSTANTS
    Megabyte = 3
    IommuBlock <- MCIommu
    Exceptions = 2
    LastVector = 4
    Lines = {0, 1, 2}
    NoHandler = NoHandler
    Delay = 2
    Pit = 0
    PageSize = 2
    Pool = 12
    Top = 30
    Overlay <- MCOverlay
    Machines <- MCMachines
INVARIANTS
    FreeIsUsable
    ImageLoaded
    StrayWasOnItsWay
PROPERTIES
    CalibrationEnds
    
CHECK_DEADLOCK FALSE
