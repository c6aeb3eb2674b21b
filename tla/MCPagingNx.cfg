CONSTANTS
    Entries = 4
    MemoryMap <- MCMemoryMap
    Hhdm = 64
    Sections <- MCSections
    KernelOffset = 160
    HeapPages <- MCHeapPages
    MmioFrames = {38, 40, 60}
    RamFrames = 37
    Probes = {102, 104, 128}
SPECIFICATION Spec
INVARIANT DataNotExecutable
