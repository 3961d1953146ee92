SPECIFICATION Spec
CONSTANTS
    nobody = nobody
    Nobody = nobody
    Handle <- MCHandle
    Identity <- MCIdentity
    Key <- MCKey
    Namespace <- MCNamespace
    WriteThreshold = 2
    SecondsThreshold = 1
    MaxCount = 3
INVARIANT CheckpointKeepsUp
PROPERTIES Atomic AppendOnlyStays
