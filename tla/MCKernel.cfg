SPECIFICATION Spec
CONSTANTS
    c1 = c1
    c2 = c2
    nobody = nobody
    Conn = {c1, c2}
    Nobody = nobody
    ProcessId <- MCProcess
    BootOrder <- MCBootOrder
    ShutdownOrder <- MCShutdown
    Envelope <- MCEnvelope
    Trigger <- MCTrigger
    Limit <- MCLimit
    MaxStarts = 2
    WordBits = 4
    MaxCalls = 3
CHECK_DEADLOCK FALSE
SYMMETRY Symmetry
INVARIANTS CycleRecordsConsistent LiveTasksCharged OneAnswerEach
