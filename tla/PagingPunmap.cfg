SPECIFICATION Spec
CONSTANTS
    Levels = 3
    Radix = 8
    Span <- MCSpan
    BitOr <- MCBitOr
    Memory <- MCMemory
    Pool <- MCPool
    VirtualOffset = 64
    KernelOffset = 119
    KernelImage <- MCKernelImage
    Segments <- MCSegments
    Stack <- MCStack
    Ist <- MCIst
    Context = 192
    GsBase = 5
    Framebuffer <- MCFramebuffer
    Abar = 56
    UserVirts = {194}
    Calls = 3
PROPERTIES
    PunmapUnmaps
CHECK_DEADLOCK FALSE
