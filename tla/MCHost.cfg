SPECIFICATION FairSpec
CONSTANTS
    HeadroomBase = 3
    HardLimit = 3
    MaxServices = 2
    NumKeys = 4
    RawReading <- MCRawReading
    Agent <- MCAgent
    Kind <- MCKind
    Cpu <- MCCpu
    Memory <- MCMemory
    MaxAgentsLimit = 1
    CacheTicks = 2
    Reading <- MCReading
    CpuUnit = 1
INVARIANTS HandlesReleasedOnce AllocatorSound
PROPERTIES WorseReadingsNeverRaise ExecuteReturns
