SPECIFICATION FairSpec
CONSTANTS
    N = 3
    Config <- MCConfig
    Request <- MCRequest
    FailureThreshold = 2
    OpenDuration = 1
    ProbeSuccessCount = 2
    MaxInFlight = 2
INVARIANTS DownMeansRefused
PROPERTIES OpenHolds FallbackJustified Recovers
